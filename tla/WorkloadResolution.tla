-------------------------- MODULE WorkloadResolution --------------------------
(***************************************************************************)
(* From a name to a workload and its pods (src/hub/model.ts,               *)
(* resolveWorkload): five lists asked of the Kubernetes API one after the  *)
(* other, through ReadOnlyKubeClient.call with its timeout                 *)
(* (src/k8s/client.ts), while the cluster goes on changing.                *)
(*                                                                         *)
(* Of a namespace the model has the pods, each with the value of the one   *)
(* label that matters, and per kind the object that bears the name asked   *)
(* for, with the value its selector wants.                                 *)
(***************************************************************************)
EXTENDS Integers, Sequences, FiniteSets, Functions

CONSTANTS
  Pods,         \* names of pods
  Name,         \* the name asked for; a pod may bear it too
  Labels,
  Absent,       \* no such pod, no such object
  None,         \* no answer yet
  NoSelector,   \* an object without (match)labels to select by
  MaxChanges    \* bound on the changes of the cluster

ASSUME ResolutionAssumption ==
  /\ Absent \notin Labels \cup {NoSelector}
  /\ NoSelector \notin Labels
  /\ MaxChanges \in Nat

Kinds   == <<"Deployment", "StatefulSet", "DaemonSet", "Service">>
KindSet == Range(Kinds)

Cluster == [pods : [Pods -> Labels \cup {Absent}],
            objects : [KindSet -> Labels \cup {NoSelector, Absent}]]

ASSUME NoneAssumption == None \notin Cluster /\ None \notin [Pods -> Labels \cup {Absent}]

VARIABLES
  cluster,
  asked,     \* the list awaited: 0 for the pods, i for Kinds[i]
  answer,    \* the cluster as the API server saw it for that list; or None
  allPods,   \* the pods of the first answer; or None
  result,    \* "pending", "missing", "error" or a kind
  members,   \* the pods of the result
  past,      \* history: what the cluster has been during the call
  changes

vars == <<cluster, asked, answer, allPods, result, members, past, changes>>

Init ==
  /\ cluster \in Cluster
  /\ asked = 0 /\ answer = None /\ allPods = None
  /\ result = "pending" /\ members = {}
  /\ past = {cluster} /\ changes = 0

Pending == result = "pending"

-----------------------------------------------------------------------------
\* Pods and objects come, go and come back with other labels, one at a time.
Change ==
  /\ Pending /\ changes < MaxChanges
  /\ \/ \E p \in Pods, l \in Labels \cup {Absent} :
          /\ cluster.pods[p] # l
          /\ cluster' = [cluster EXCEPT !.pods[p] = l]
     \/ \E k \in KindSet, s \in Labels \cup {NoSelector, Absent} :
          /\ cluster.objects[k] # s
          /\ cluster' = [cluster EXCEPT !.objects[k] = s]
  /\ past' = past \cup {cluster'}
  /\ changes' = changes + 1
  /\ UNCHANGED <<asked, answer, allPods, result, members>>

\* The API server answers a list from the cluster of one moment; the answer
\* reaches the hub later.
Serve ==
  /\ Pending /\ answer = None
  /\ answer' = cluster
  /\ UNCHANGED <<cluster, asked, allPods, result, members, past, changes>>

\* The call is refused, breaks or takes longer than the timeout: the promise
\* of the list rejects, and with it the resolution.
Fail ==
  /\ Pending
  /\ result' = "error"
  /\ UNCHANGED <<cluster, asked, answer, allPods, members, past, changes>>

\* Slip: a selector without labels selects every pod.
MatchesAny(label, s) == label # Absent /\ (s = NoSelector \/ label = s)

\* labelsMatch, of a pod that is there: nothing matches an empty selector.
Matches(label, s) == s # NoSelector /\ label = s

\* The pods are listed first.
TakePods ==
  /\ Pending /\ asked = 0 /\ answer # None
  /\ allPods' = answer.pods
  /\ asked' = 1 /\ answer' = None
  /\ UNCHANGED <<cluster, result, members, past, changes>>

\* The list holds an object of the name: it is the workload, its pods are those
\* of the first answer that its selector matches.
TakeFound ==
  /\ Pending /\ asked > 0 /\ answer # None
  /\ answer.objects[Kinds[asked]] # Absent
  /\ result' = Kinds[asked]
  /\ members' = {p \in Pods : Matches(allPods[p], answer.objects[Kinds[asked]])}
  /\ answer' = None
  /\ UNCHANGED <<cluster, asked, allPods, past, changes>>

\* It does not: on to the next kind.
TakeNext ==
  /\ Pending /\ asked \in 1 .. Len(Kinds) - 1 /\ answer # None
  /\ answer.objects[Kinds[asked]] = Absent
  /\ asked' = asked + 1 /\ answer' = None
  /\ UNCHANGED <<cluster, allPods, result, members, past, changes>>

\* Slip: Services are left out.
TakeLastEarly ==
  /\ Pending /\ asked \in {Len(Kinds) - 1, Len(Kinds)} /\ answer # None
  /\ answer.objects[Kinds[asked]] = Absent
  /\ IF Name \in Pods /\ allPods[Name] # Absent
       THEN result' = "Pod" /\ members' = {Name}
       ELSE result' = "missing" /\ UNCHANGED members
  /\ answer' = None
  /\ UNCHANGED <<cluster, asked, allPods, past, changes>>

\* After the last kind a single pod of the name will do.
TakeLast ==
  /\ Pending /\ asked = Len(Kinds) /\ answer # None
  /\ answer.objects[Kinds[asked]] = Absent
  /\ IF Name \in Pods /\ allPods[Name] # Absent
       THEN result' = "Pod" /\ members' = {Name}
       ELSE result' = "missing" /\ UNCHANGED members
  /\ answer' = None
  /\ UNCHANGED <<cluster, asked, allPods, past, changes>>

\* The caller has its workload or an error.
Returned == ~Pending /\ UNCHANGED vars

Next ==
  \/ Change \/ Serve \/ Fail
  \/ TakePods \/ TakeFound \/ TakeNext \/ TakeLast \/ Returned

Spec == Init /\ [][Next]_vars

-----------------------------------------------------------------------------
\* The types of the resolution's state.
TypeOK ==
  /\ cluster \in Cluster /\ past \subseteq Cluster /\ cluster \in past
  /\ asked \in 0 .. Len(Kinds)
  /\ answer \in Cluster \cup {None}
  /\ allPods \in [Pods -> Labels \cup {Absent}] \cup {None}
  /\ asked > 0 => allPods # None
  /\ result \in {"pending", "missing", "error", "Pod"} \cup KindSet
  /\ members \subseteq Pods
  /\ changes \in Nat

\* An object of this kind bore the name all the time.
Constant(k) == \A c \in past : c.objects[k] # Absent

\* Whatever changes between the lists, what bears the name all the time is never
\* denied, nor passed over for a kind that comes later (model.ts:111-113 "Order:
\* Deployment, StatefulSet, DaemonSet, Service (by selector), then a single Pod").
NotPassedOver ==
  /\ \A i \in DOMAIN Kinds :
       result \in {"missing", "Pod"} \cup {Kinds[j] : j \in i + 1 .. Len(Kinds)} =>
         ~Constant(Kinds[i])
  /\ result = "missing" /\ Name \in Pods => \E c \in past : c.pods[Name] = Absent

\* The members are the pods that one moment of the call had with the label that
\* the object of the result asked for at one moment of the call: no pod that
\* never matched, none missing that was there throughout, and nothing at all for
\* an object that selects nothing (model.ts:79-83, 117-214).
MembersExact ==
  /\ result \in KindSet =>
       \E c, d \in past :
         /\ d.objects[result] # Absent
         /\ members = {p \in Pods : d.objects[result] \in Labels /\ c.pods[p] = d.objects[result]}
  /\ result = "Pod" => members = {Name} /\ \E c \in past : c.pods[Name] # Absent
=============================================================================
