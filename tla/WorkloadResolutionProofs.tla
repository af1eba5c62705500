---------------------- MODULE WorkloadResolutionProofs ----------------------
(***************************************************************************)
(* However the cluster changes between the lists, a name that is borne all *)
(* the time is resolved, to the kind that comes first, and to pods that    *)
(* one moment of the call had: for every namespace and any number of       *)
(* changes.                                                                *)
(***************************************************************************)
EXTENDS WorkloadResolution, TLAPS

\* What has been received was true at a moment of the call.
Seen ==
  /\ answer # None => answer \in past
  /\ allPods # None => \E c \in past : c.pods = allPods

\* A kind the resolution has gone past was without the name at a moment.
Passed == \A i \in 1 .. asked - 1 : ~Constant(Kinds[i])

ResolutionInv == TypeOK /\ Seen /\ Passed /\ NotPassedOver /\ MembersExact

-----------------------------------------------------------------------------
LEMMA KindFacts ==
  /\ Len(Kinds) = 4 /\ DOMAIN Kinds = 1 .. 4
  /\ KindSet = {"Deployment", "StatefulSet", "DaemonSet", "Service"}
  /\ Kinds[1] = "Deployment" /\ Kinds[2] = "StatefulSet"
  /\ Kinds[3] = "DaemonSet" /\ Kinds[4] = "Service"
<1>1. /\ Len(Kinds) = 4 /\ DOMAIN Kinds = 1 .. 4
      /\ Kinds[1] = "Deployment" /\ Kinds[2] = "StatefulSet"
      /\ Kinds[3] = "DaemonSet" /\ Kinds[4] = "Service"
  BY DEF Kinds
<1>2. KindSet = {Kinds[i] : i \in 1 .. 4}
  BY <1>1 DEF KindSet, Range
<1>3. 1 .. 4 = {1, 2, 3, 4}
  OBVIOUS
<1>. QED
  BY <1>1, <1>2, <1>3

\* Kinds are told apart by their place.
LEMMA KindPlaces ==
  /\ \A i \in 1 .. 4 : Kinds[i] \in KindSet /\ Kinds[i] \notin {"pending", "missing", "error", "Pod"}
  /\ \A i, j \in 1 .. 4 : Kinds[i] = Kinds[j] => i = j
<1>1. 1 .. 4 = {1, 2, 3, 4}
  OBVIOUS
<1>. QED
  BY <1>1, KindFacts

-----------------------------------------------------------------------------
\* While the call is pending nothing is claimed of its result.
LEMMA PendingClaims ==
  ASSUME result' = "pending", members' \in SUBSET Pods
  PROVE  NotPassedOver' /\ MembersExact'
BY KindFacts, KindPlaces DEF NotPassedOver, MembersExact

\* A step of the cluster.
LEMMA ChangeStep ==
  ASSUME ResolutionInv, Change
  PROVE  ResolutionInv'
<1>. USE DEF ResolutionInv
<1>1. /\ result' = "pending" /\ past' = past \cup {cluster'} /\ changes' = changes + 1
      /\ UNCHANGED <<asked, answer, allPods, result, members>>
  BY DEF Change, Pending
<1>2. cluster' \in Cluster
  <2>1. cluster \in Cluster
    BY DEF TypeOK
  <2>2. CASE \E p \in Pods, l \in Labels \cup {Absent} : cluster' = [cluster EXCEPT !.pods[p] = l]
    <3>1. PICK p \in Pods, l \in Labels \cup {Absent} : cluster' = [cluster EXCEPT !.pods[p] = l]
      BY <2>2
    <3>. QED
      BY <2>1, <3>1 DEF Cluster
  <2>3. CASE \E k \in KindSet, s \in Labels \cup {NoSelector, Absent} :
               cluster' = [cluster EXCEPT !.objects[k] = s]
    <3>1. PICK k \in KindSet, s \in Labels \cup {NoSelector, Absent} :
            cluster' = [cluster EXCEPT !.objects[k] = s]
      BY <2>3
    <3>. QED
      BY <2>1, <3>1 DEF Cluster
  <2>. QED
    BY <2>2, <2>3 DEF Change
<1>3. TypeOK'
  BY <1>1, <1>2 DEF TypeOK
<1>4. Seen'
  BY <1>1 DEF Seen
<1>5. Passed'
  BY <1>1 DEF Passed, Constant
<1>6. NotPassedOver' /\ MembersExact'
  BY <1>1, <1>3, PendingClaims DEF TypeOK
<1>. QED
  BY <1>3, <1>4, <1>5, <1>6

\* The API server answers.
LEMMA ServeStep ==
  ASSUME ResolutionInv, Serve
  PROVE  ResolutionInv'
<1>. USE DEF ResolutionInv
<1>1. /\ result' = "pending" /\ answer' = cluster
      /\ UNCHANGED <<cluster, asked, allPods, result, members, past, changes>>
  BY DEF Serve, Pending
<1>2. TypeOK'
  BY <1>1 DEF TypeOK
<1>3. Seen'
  BY <1>1 DEF Seen, TypeOK
<1>4. Passed'
  BY <1>1 DEF Passed, Constant
<1>5. NotPassedOver' /\ MembersExact'
  BY <1>1, <1>2, PendingClaims DEF TypeOK
<1>. QED
  BY <1>2, <1>3, <1>4, <1>5

\* An error claims nothing.
LEMMA FailStep ==
  ASSUME ResolutionInv, Fail
  PROVE  ResolutionInv'
<1>. USE DEF ResolutionInv
<1>1. /\ result' = "error"
      /\ UNCHANGED <<cluster, asked, answer, allPods, members, past, changes>>
  BY DEF Fail
<1>2. TypeOK'
  BY <1>1 DEF TypeOK
<1>3. Seen' /\ Passed'
  BY <1>1 DEF Seen, Passed, Constant
<1>4. NotPassedOver' /\ MembersExact'
  BY <1>1, KindFacts, KindPlaces DEF NotPassedOver, MembersExact
<1>. QED
  BY <1>2, <1>3, <1>4

-----------------------------------------------------------------------------
\* The pods are in.
LEMMA TakePodsStep ==
  ASSUME ResolutionInv, TakePods
  PROVE  ResolutionInv'
<1>. USE DEF ResolutionInv
<1>1. /\ result' = "pending" /\ asked' = 1 /\ answer' = None /\ allPods' = answer.pods
      /\ answer \in Cluster /\ answer \in past
      /\ UNCHANGED <<cluster, result, members, past, changes>>
  BY DEF TakePods, Pending, TypeOK, Seen
<1>2. answer.pods \in [Pods -> Labels \cup {Absent}]
  BY <1>1 DEF Cluster
<1>3. TypeOK'
  BY <1>1, <1>2, KindFacts, NoneAssumption DEF TypeOK
<1>4. Seen'
  BY <1>1 DEF Seen
<1>5. Passed'
  BY <1>1 DEF Passed
<1>6. NotPassedOver' /\ MembersExact'
  BY <1>1, <1>3, PendingClaims DEF TypeOK
<1>. QED
  BY <1>3, <1>4, <1>5, <1>6

\* No object of this kind bears the name: one kind more has been gone past.
LEMMA TakeNextStep ==
  ASSUME ResolutionInv, TakeNext
  PROVE  ResolutionInv'
<1>. USE DEF ResolutionInv
<1>1. /\ result' = "pending" /\ asked \in 1 .. 3 /\ asked' = asked + 1 /\ answer' = None
      /\ answer \in past /\ answer.objects[Kinds[asked]] = Absent
      /\ UNCHANGED <<cluster, allPods, result, members, past, changes>>
  BY KindFacts DEF TakeNext, Pending, Seen
<1>2. TypeOK'
  BY <1>1, KindFacts DEF TypeOK
<1>3. Seen'
  BY <1>1 DEF Seen
<1>4. Passed'
  BY <1>1 DEF Passed, Constant
<1>5. NotPassedOver' /\ MembersExact'
  BY <1>1, <1>2, PendingClaims DEF TypeOK
<1>. QED
  BY <1>2, <1>3, <1>4, <1>5

\* The name is found: the kinds before have been gone past.
LEMMA TakeFoundStep ==
  ASSUME ResolutionInv, TakeFound
  PROVE  ResolutionInv'
<1>. USE DEF ResolutionInv
<1>1. /\ asked \in 1 .. 4 /\ answer # None /\ answer \in past /\ answer \in Cluster
      /\ result' = Kinds[asked] /\ answer' = None
      /\ answer.objects[Kinds[asked]] # Absent
      /\ UNCHANGED <<cluster, asked, allPods, past, changes>>
  BY KindFacts DEF TakeFound, Seen, TypeOK
<1>2. /\ members' = {p \in Pods : Matches(allPods[p], answer.objects[Kinds[asked]])}
  BY DEF TakeFound
<1>3. PICK c \in past : c.pods = allPods
  BY <1>1 DEF TypeOK, Seen
<1>4. TypeOK'
  BY <1>1, <1>2, KindPlaces DEF TypeOK
<1>5. Seen'
  BY <1>1 DEF Seen
<1>6. Passed'
  BY <1>1 DEF Passed, Constant
<1>7. NotPassedOver'
  <2>1. ASSUME NEW i \in 1 .. 4, Kinds[asked] \in {Kinds[j] : j \in i + 1 .. 4}
        PROVE  ~Constant(Kinds[i])
    <3>1. i < asked
      BY <1>1, <2>1, KindPlaces
    <3>. QED
      BY <1>1, <3>1 DEF Passed
  <2>2. Kinds[asked] \notin {"missing", "Pod"}
    BY <1>1, KindPlaces
  <2>. QED
    BY <1>1, <2>1, <2>2, KindFacts DEF NotPassedOver, Constant
<1>8. MembersExact'
  <2>1. Kinds[asked] \in KindSet /\ Kinds[asked] # "Pod"
    BY <1>1, KindPlaces
  <2>2. answer.objects[Kinds[asked]] \in Labels \cup {NoSelector}
    BY <1>1, <2>1 DEF Cluster
  <2>3. members' = {p \in Pods : /\ answer.objects[Kinds[asked]] \in Labels
                                 /\ c.pods[p] = answer.objects[Kinds[asked]]}
    BY <1>2, <1>3, <2>2, ResolutionAssumption DEF Matches
  <2>. QED
    BY <1>1, <1>3, <2>1, <2>3 DEF MembersExact
<1>. QED
  BY <1>4, <1>5, <1>6, <1>7, <1>8

\* Every kind has been gone past: a pod of the name, or nothing.
LEMMA TakeLastStep ==
  ASSUME ResolutionInv, TakeLast
  PROVE  ResolutionInv'
<1>. USE DEF ResolutionInv
<1>1. /\ asked = 4 /\ answer \in past /\ answer' = None
      /\ answer.objects[Kinds[asked]] = Absent
      /\ UNCHANGED <<cluster, asked, allPods, past, changes>>
  BY KindFacts DEF TakeLast, Seen
<1>2. \/ Name \in Pods /\ allPods[Name] # Absent /\ result' = "Pod" /\ members' = {Name}
      \/ ~(Name \in Pods /\ allPods[Name] # Absent) /\ result' = "missing" /\ members' = members
  BY DEF TakeLast
<1>3. PICK c \in past : c.pods = allPods
  BY <1>1 DEF TypeOK, Seen
<1>4. TypeOK'
  BY <1>1, <1>2 DEF TypeOK
<1>5. Seen' /\ Passed'
  BY <1>1 DEF Seen, Passed, Constant
<1>6. \A i \in 1 .. 4 : ~Constant(Kinds[i])'
  <2>1. ASSUME NEW i \in 1 .. 4
        PROVE  ~Constant(Kinds[i])
    <3>1. CASE i = 4
      BY <1>1, <3>1 DEF Constant
    <3>2. CASE i # 4
      BY <1>1, <3>2 DEF Passed
    <3>. QED
      BY <3>1, <3>2
  <2>. QED
    BY <1>1, <2>1 DEF Constant
<1>7. NotPassedOver'
  BY <1>1, <1>2, <1>3, <1>6, KindFacts DEF NotPassedOver
<1>8. MembersExact'
  BY <1>1, <1>2, <1>3, KindFacts DEF MembersExact
<1>. QED
  BY <1>4, <1>5, <1>7, <1>8

-----------------------------------------------------------------------------
LEMMA ResolutionInvariant == Spec => []ResolutionInv
<1>1. Init => ResolutionInv
  <2>. SUFFICES ASSUME Init
                PROVE  ResolutionInv
    OBVIOUS
  <2>1. TypeOK
    BY KindFacts DEF Init, TypeOK
  <2>2. Seen /\ Passed
    BY DEF Init, Seen, Passed
  <2>3. NotPassedOver /\ MembersExact
    BY KindFacts, KindPlaces DEF Init, NotPassedOver, MembersExact
  <2>. QED
    BY <2>1, <2>2, <2>3 DEF ResolutionInv
<1>2. ResolutionInv /\ [Next]_vars => ResolutionInv'
  <2>1. ResolutionInv /\ UNCHANGED vars => ResolutionInv'
    BY DEF vars, ResolutionInv, TypeOK, Seen, Passed, NotPassedOver, MembersExact, Constant
  <2>. QED
    BY <2>1, ChangeStep, ServeStep, FailStep, TakePodsStep, TakeFoundStep, TakeNextStep,
       TakeLastStep DEF Next, Returned
<1>. QED
  BY <1>1, <1>2, PTL DEF Spec

\* The state of the resolution keeps its types (model.ts:115-224).
THEOREM TypeCorrect == Spec => []TypeOK
<1>1. ResolutionInv => TypeOK
  BY DEF ResolutionInv
<1>. QED
  BY <1>1, ResolutionInvariant, PTL

\* What bears the name all the time is never denied nor passed over
\* (model.ts:109-112).
THEOREM NameResolved == Spec => []NotPassedOver
<1>1. ResolutionInv => NotPassedOver
  BY DEF ResolutionInv
<1>. QED
  BY <1>1, ResolutionInvariant, PTL

\* The members of the result are what one moment's pods and one moment's object
\* make of each other (model.ts:117-209).
THEOREM PodsResolved == Spec => []MembersExact
<1>1. ResolutionInv => MembersExact
  BY DEF ResolutionInv
<1>. QED
  BY <1>1, ResolutionInvariant, PTL
=============================================================================
