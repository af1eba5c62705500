------------------------- MODULE RumAggregatorProofs -------------------------
(***************************************************************************)
(* Safety of the RUM aggregator and of its reports for all values of the   *)
(* constants, and that it implements SampleWindows.                        *)
(***************************************************************************)
EXTENDS RumWindows, RumReport, FiniteSetTheorems, FunctionTheorems, SequenceTheorems, WellFoundedInduction, TLAPS

-----------------------------------------------------------------------------
(***************************************************************************)
(* Buffers: what Push and Prune preserve, for every limit and every buffer.*)
(***************************************************************************)

\* Every non-empty set of natural numbers has a least element.
LEMMA LeastNumber ==
  ASSUME NEW T, T \subseteq Nat, T # {}
  PROVE  \E m \in T : \A k \in T : m <= k
<1>1. PICK m \in T : \A k \in T : ~(<<k, m>> \in OpToRel(<, Nat))
  BY NatLessThanWellFounded, WFMin
<1>2. \A k \in T : ~(k < m)
  BY <1>1 DEF OpToRel
<1>. QED
  BY <1>2

\* The array's first element exists, and no arrival number is below its own.
LEMMA OldestFirst ==
  ASSUME NEW S, S \subseteq Sample, S # {}
  PROVE  /\ Oldest(S) \in S
         /\ \A y \in S : Oldest(S).n <= y.n
<1>. DEFINE T == {x.n : x \in S}
<1>1. T \subseteq Nat /\ T # {}
  BY DEF Sample
<1>2. PICK m \in T : \A k \in T : m <= k
  BY <1>1, LeastNumber
<1>3. \E x \in S : \A y \in S : x.n <= y.n
  BY <1>2
<1>. QED
  BY <1>3 DEF Oldest

\* A push keeps a buffer well formed.
LEMMA PushType ==
  ASSUME NEW s \in Rolling, NEW t \in Nat
  PROVE  Push(s, t) \in Rolling
<1>1. [n |-> s.pushed + 1, t |-> t] \in Sample
  BY DEF Rolling, Sample
<1>. QED
  BY <1>1 DEF Push, Rolling

\* The set a push builds before it cuts: samples, one more than before at most.
LEMMA GrownType ==
  ASSUME NEW s \in Rolling, NEW t \in Nat,
         NEW x, x = [n |-> s.pushed + 1, t |-> t]
  PROVE  /\ x \in Sample /\ s.pushed \in Nat /\ s.kept \subseteq Sample
         /\ s.kept \cup {x} \subseteq Sample
         /\ s.kept \cup {x} # {}
         /\ Oldest(s.kept \cup {x}) \in s.kept \cup {x}
         /\ \A y \in s.kept \cup {x} : Oldest(s.kept \cup {x}).n <= y.n
<1>1. s.pushed \in Nat /\ s.kept \in SUBSET Sample
  BY DEF Rolling
<1>2. x \in Sample
  BY <1>1 DEF Sample
<1>3. s.kept \cup {x} \subseteq Sample /\ s.kept \cup {x} # {}
  BY <1>1, <1>2
<1>. QED
  BY <1>1, <1>2, <1>3, OldestFirst

\* The limit survives a push.
LEMMA PushWithin ==
  ASSUME NEW s \in Rolling, NEW t \in Nat, Within(s)
  PROVE  Within(Push(s, t))
<1>1. PICK x : x = [n |-> s.pushed + 1, t |-> t]
  OBVIOUS
<1>2. PICK grown : grown = s.kept \cup {x}
  OBVIOUS
<1>3. Oldest(grown) \in grown
  BY <1>1, <1>2, GrownType
<1>4. IsFiniteSet(s.kept) /\ Cardinality(s.kept) \in Nat
      /\ Cardinality(s.kept) <= MAX_SAMPLES_PER_KEY
  BY FS_CardinalityType DEF Within
<1>5. IsFiniteSet(grown) /\ Cardinality(grown) \in Nat
      /\ Cardinality(grown) <= MAX_SAMPLES_PER_KEY + 1
  BY SMTT(20), <1>2, <1>4, FS_AddElement, MaxSamplesAssumption
<1>6. IsFiniteSet(grown \ {Oldest(grown)})
      /\ Cardinality(grown \ {Oldest(grown)}) = Cardinality(grown) - 1
  BY <1>3, <1>5, FS_RemoveElement
<1>7. Push(s, t).kept = IF Cardinality(grown) > MAX_SAMPLES_PER_KEY
                        THEN grown \ {Oldest(grown)} ELSE grown
  BY <1>1, <1>2 DEF Push
<1>. QED
  BY <1>5, <1>6, <1>7, MaxSamplesAssumption DEF Within

\* A push at the current time keeps order and the newest-suffix property.
LEMMA PushNewest ==
  ASSUME NEW s \in Rolling, NEW t \in Nat, Ordered(s, t), Newest(s)
  PROVE  Ordered(Push(s, t), t) /\ Newest(Push(s, t))
<1>. DEFINE p == Push(s, t)
<1>1. PICK x : x = [n |-> s.pushed + 1, t |-> t]
  OBVIOUS
<1>2. PICK grown : grown = s.kept \cup {x}
  OBVIOUS
<1>3. /\ x \in Sample /\ s.pushed \in Nat /\ s.kept \subseteq Sample
      /\ grown \subseteq Sample
      /\ Oldest(grown) \in grown /\ \A y \in grown : Oldest(grown).n <= y.n
      /\ x.n = s.pushed + 1 /\ x.t = t
  BY <1>1, <1>2, GrownType
<1>4. p.pushed = s.pushed + 1 /\ p.kept \in {grown, grown \ {Oldest(grown)}}
  BY <1>1, <1>2 DEF Push
<1>5. /\ \A y \in s.kept : y.n <= s.pushed /\ y.t <= t
      /\ \A y, z \in s.kept : (y.n = z.n => y = z) /\ (y.n < z.n => y.t <= z.t)
  BY DEF Ordered
<1>6. \A y \in grown : y.n \in Nat /\ y.t \in Nat
  BY <1>3 DEF Sample
<1>7. /\ \A y \in grown : y.n <= p.pushed /\ y.t <= t
      /\ \A y, z \in grown : (y.n = z.n => y = z) /\ (y.n < z.n => y.t <= z.t)
  BY <1>2, <1>3, <1>4, <1>5, <1>6
<1>8. Ordered(p, t)
  BY <1>4, <1>7 DEF Ordered
<1>9. ASSUME NEW y \in grown, NEW k \in y.n .. p.pushed
      PROVE  \E z \in grown : z.n = k
  <2>1. CASE k = s.pushed + 1
    BY <1>2, <1>3, <2>1
  <2>2. CASE k # s.pushed + 1
    <3>1. y \in s.kept /\ k \in y.n .. s.pushed
      BY <1>2, <1>3, <1>4, <1>6, <1>9, <2>2
    <3>2. PICK z \in s.kept : z.n = k
      BY <3>1 DEF Newest
    <3>. QED
      BY <1>2, <3>2
  <2>. QED
    BY <2>1, <2>2
<1>10. ASSUME NEW y \in grown \ {Oldest(grown)}, NEW k \in y.n .. p.pushed
       PROVE  \E z \in grown \ {Oldest(grown)} : z.n = k
  <2>1. Oldest(grown).n < y.n
    BY <1>3, <1>6, <1>7
  <2>2. PICK z \in grown : z.n = k
    BY <1>9
  <2>3. z # Oldest(grown)
    BY <1>3, <1>6, <2>1, <2>2
  <2>. QED
    BY <2>2, <2>3
<1>11. Newest(p)
  BY <1>4, <1>9, <1>10 DEF Newest
<1>. QED
  BY <1>8, <1>11

\* Nothing older comes in by a push.
LEMMA PushSince ==
  ASSUME NEW s \in Rolling, NEW t \in Nat, NEW cutoff \in Int,
         Since(s, cutoff), t >= cutoff
  PROVE  Since(Push(s, t), cutoff)
BY DEF Since, Push

\* What a push drops made room for a full buffer of newer samples.
LEMMA PushLoss ==
  ASSUME NEW s \in Rolling, NEW t \in Nat, NEW cutoff \in Int,
         Within(s), Ordered(s, t)
  PROVE  LosesOnlyOld(s, Push(s, t), cutoff)
<1>. DEFINE p == Push(s, t)
<1>1. PICK x : x = [n |-> s.pushed + 1, t |-> t]
  OBVIOUS
<1>2. PICK grown : grown = s.kept \cup {x}
  OBVIOUS
<1>3. PICK old : old = Oldest(grown)
  OBVIOUS
<1>4. /\ x \in Sample /\ s.pushed \in Nat /\ grown \subseteq Sample
      /\ old \in grown /\ \A y \in grown : old.n <= y.n
      /\ x.n = s.pushed + 1
  BY <1>1, <1>2, <1>3, GrownType
<1>5. p.kept = IF Cardinality(grown) > MAX_SAMPLES_PER_KEY THEN grown \ {old} ELSE grown
  BY <1>1, <1>2, <1>3 DEF Push
<1>. SUFFICES ASSUME NEW y \in s.kept \ p.kept
              PROVE  Cardinality({z \in p.kept : z.n > y.n}) = MAX_SAMPLES_PER_KEY
  BY DEF LosesOnlyOld
<1>6. y = old /\ Cardinality(grown) > MAX_SAMPLES_PER_KEY /\ p.kept = grown \ {old}
  BY <1>2, <1>5
<1>7. /\ IsFiniteSet(s.kept) /\ Cardinality(s.kept) \in Nat
      /\ Cardinality(s.kept) <= MAX_SAMPLES_PER_KEY
  BY FS_CardinalityType DEF Within
<1>8. IsFiniteSet(grown) /\ Cardinality(grown) = MAX_SAMPLES_PER_KEY + 1
  <2>1. IsFiniteSet(grown)
        /\ Cardinality(grown) \in {Cardinality(s.kept), Cardinality(s.kept) + 1}
    BY <1>2, <1>7, FS_AddElement
  <2>2. Cardinality(grown) > MAX_SAMPLES_PER_KEY
    BY <1>6
  <2>. QED
    BY <1>7, <2>1, <2>2, MaxSamplesAssumption
<1>9. Cardinality(p.kept) = MAX_SAMPLES_PER_KEY
  <2>1. Cardinality(grown \ {old}) = Cardinality(grown) - 1
    BY <1>4, <1>8, FS_RemoveElement
  <2>2. p.kept = grown \ {old}
    BY <1>6
  <2>. QED
    BY <1>8, <2>1, <2>2, MaxSamplesAssumption
<1>10. ASSUME NEW z \in p.kept
       PROVE  z.n > y.n
  <2>1. z \in grown /\ z # old /\ old.n <= z.n /\ z.n \in Nat /\ old.n \in Nat
    BY <1>4, <1>6 DEF Sample
  <2>2. z.n # old.n
    <3>1. y \in s.kept /\ y.n <= s.pushed
          /\ \A w \in s.kept : y.n = w.n => y = w
      BY DEF Ordered
    <3>2. z \in s.kept => z.n # y.n
      BY <1>6, <2>1, <3>1
    <3>3. z = x => z.n # y.n
      BY <1>4, <1>6, <2>1, <3>1
    <3>4. z \in s.kept \/ z = x
      BY <1>2, <2>1
    <3>. QED
      BY <1>6, <3>2, <3>3, <3>4
  <2>. QED
    BY <1>6, <2>1, <2>2
<1>11. {z \in p.kept : z.n > y.n} = p.kept
  BY <1>10
<1>. QED
  BY <1>9, <1>11

\* What a prune drops was older than its cutoff.
LEMMA PruneLoss ==
  ASSUME NEW s \in Rolling, NEW cutoff \in Int
  PROVE  LosesOnlyOld(s, Prune(s, cutoff), cutoff)
BY DEF LosesOnlyOld, Prune, Rolling, Sample

\* Filtering by age keeps a buffer well formed, within its limit, a suffix of
\* what arrived, and free of anything older than the cutoff.
LEMMA PruneKeeps ==
  ASSUME NEW s \in Rolling, NEW cutoff \in Int
  PROVE  /\ Prune(s, cutoff) \in Rolling
         /\ Prune(s, cutoff).pushed = s.pushed
         /\ Since(Prune(s, cutoff), cutoff)
         /\ Within(s) => Within(Prune(s, cutoff))
         /\ \A time \in Nat : Ordered(s, time) /\ Newest(s) =>
              Ordered(Prune(s, cutoff), time) /\ Newest(Prune(s, cutoff))
<1>. DEFINE p == Prune(s, cutoff)
<1>1. p.kept = {x \in s.kept : x.t >= cutoff} /\ p.pushed = s.pushed /\ p \in Rolling
  BY DEF Prune, Rolling
<1>2. Since(p, cutoff)
  BY <1>1 DEF Since
<1>3. Within(s) => Within(p)
  BY <1>1, FS_Subset, FS_CardinalityType, MaxSamplesAssumption DEF Within
<1>4. ASSUME NEW time \in Nat, Ordered(s, time), Newest(s)
      PROVE  Ordered(p, time) /\ Newest(p)
  <2>1. Ordered(p, time)
    BY <1>1, <1>4 DEF Ordered
  <2>2. ASSUME NEW x \in p.kept, NEW k \in x.n .. p.pushed
        PROVE  \E y \in p.kept : y.n = k
    <3>1. x \in s.kept /\ x.t >= cutoff
      BY <1>1
    <3>2. PICK y \in s.kept : y.n = k
      BY <1>1, <1>4, <3>1 DEF Newest
    <3>3. x.t <= y.t
      BY <1>4, <3>1, <3>2 DEF Ordered, Rolling, Sample
    <3>. QED
      BY <1>1, <3>1, <3>2, <3>3 DEF Rolling, Sample
  <2>. QED
    BY <2>1, <2>2 DEF Newest
<1>. QED
  BY <1>1, <1>2, <1>3, <1>4

\* Time passing disturbs no buffer.
LEMMA OrderedLater ==
  ASSUME NEW s \in Rolling, NEW a \in Nat, NEW b \in Nat, a <= b, Ordered(s, a)
  PROVE  Ordered(s, b)
BY DEF Ordered, Rolling, Sample

\* A new buffer satisfies everything.
LEMMA EmptyGood ==
  /\ Empty \in Rolling /\ Within(Empty) /\ Newest(Empty)
  /\ \A time \in Nat : Ordered(Empty, time)
  /\ \A cutoff \in Int : Since(Empty, cutoff)
BY FS_EmptySet, MaxSamplesAssumption DEF Empty, Rolling, Within, Newest, Ordered, Since

-----------------------------------------------------------------------------
(***************************************************************************)
(* Types.                                                                  *)
(***************************************************************************)

LEMMA Times ==
  /\ RETENTION \in Nat /\ PRUNE_PERIOD \in Nat
  /\ MAX_ROUTES \in Nat \ {0} /\ MAX_RESOURCES \in Nat \ {0}
  /\ MAX_ERRORS \in Nat \ {0} /\ MAX_ENTRY_ROUTES \in Nat \ {0}
  /\ MAX_EVENTS \in Nat
BY BoundsAssumption

\* bucket() files a route under itself or under the overflow route.
LEMMA BucketType ==
  ASSUME NEW map, NEW route \in AnyRoute
  PROVE  BucketRoute(map, route) \in AnyRoute
BY DEF BucketRoute, AnyRoute

LEMMA AddRouteType ==
  ASSUME NEW S \in SUBSET Routes, NEW r \in Routes
  PROVE  AddRoute(S, r) \in SUBSET Routes
BY DEF AddRoute

LEMMA InitType == Init => TypeOK
<1>. SUFFICES ASSUME Init
              PROVE  TypeOK
  OBVIOUS
<1>1. Empty \in Rolling
  BY EmptyGood
<1>2. NoView \in ViewEntry /\ NoResource \in ResourceEntry /\ NoError \in ErrorEntry
  BY <1>1 DEF NoView, NoResource, NoError, ViewEntry, ResourceEntry, ErrorEntry
<1>3. /\ vitals \in [AnyRoute -> [Vitals -> Rolling]]
      /\ nav \in [AnyRoute -> [Phases -> Rolling]]
  BY <1>1 DEF Init
<1>4. /\ views \in [Routes -> ViewEntry] /\ resources \in [Urls -> ResourceEntry]
      /\ errors \in [Sigs -> ErrorEntry] /\ devices \in [Devices -> Nat]
  BY <1>2 DEF Init
<1>5. /\ now \in Nat /\ lastPrune \in Nat /\ lastPrune <= now
      /\ left \in Nat /\ accepted \in Nat /\ sessions \subseteq [id : Sessions, t : Nat]
  BY DEF Init
<1>6. busy \in BOOLEAN /\ reply \in {"none", "204", "400", "413"}
  BY Zenon DEF Init
<1>. QED
  BY <1>3, <1>4, <1>5, <1>6, Zenon DEF TypeOK

LEMMA ReceiveType ==
  ASSUME TypeOK, NEW d \in Devices, NEW s \in Sessions \cup {NoSession}, NEW n \in 0 .. MaxLength,
         Receive(d, s, n)
  PROVE  TypeOK'
<1>1. devices' \in [Devices -> Nat]
  BY DEF Receive, TypeOK
<1>2. sessions' \subseteq [id : Sessions, t : Nat]
  BY DEF Receive, TypeOK
<1>3. left' \in Nat
  BY Times, BoundsAssumption DEF Receive
<1>. QED
  BY <1>1, <1>2, <1>3 DEF Receive, TypeOK, maps

\* What every iteration of the loop does to ingest()'s locals, whether it goes
\* on or throws.
Turned ==
  /\ left' \in Nat /\ accepted' \in Nat /\ busy' \in BOOLEAN
  /\ reply' \in {"none", "204", "400", "413"}
  /\ UNCHANGED <<devices, sessions, lastPrune, now>>

LEMMA TurnType ==
  ASSUME TypeOK, (\E b \in BOOLEAN : Consume(b)) \/ Broken
  PROVE  Turned
<1>1. left' \in Nat /\ accepted' \in Nat
  BY DEF Consume, Broken, TypeOK
<1>2. busy' \in BOOLEAN
  BY Zenon DEF Consume, Broken, TypeOK
<1>3. reply' \in {"none", "204", "400", "413"} /\ UNCHANGED <<devices, sessions, lastPrune, now>>
  BY DEF Consume, Broken, TypeOK
<1>. QED
  BY <1>1, <1>2, <1>3, Zenon DEF Turned

LEMMA VitalType ==
  ASSUME TypeOK, Turned, NEW r \in Routes, NEW v \in Vitals, Vital(r, v)
  PROVE  TypeOK'
<1>1. UNCHANGED <<nav, views, resources, errors>>
      /\ vitals' = [vitals EXCEPT ![BucketRoute(vitals, r)][v] = Push(@, now)]
  BY DEF Vital
<1>2. BucketRoute(vitals, r) \in AnyRoute
  BY BucketType DEF AnyRoute
<1>3. vitals \in [AnyRoute -> [Vitals -> Rolling]] /\ now \in Nat
  BY DEF TypeOK
<1>4. Push(vitals[BucketRoute(vitals, r)][v], now) \in Rolling
  BY <1>2, <1>3, PushType
<1>5. vitals' \in [AnyRoute -> [Vitals -> Rolling]]
  BY <1>1, <1>2, <1>3, <1>4
<1>. QED
  BY <1>1, <1>5, Zenon DEF TypeOK, Turned

LEMMA NavType ==
  ASSUME TypeOK, Turned, NEW r \in Routes, NEW P \in SUBSET Phases, RecordNav(r, P)
  PROVE  TypeOK'
<1>. DEFINE b == BucketRoute(nav, r)
            row == [p \in Phases |-> IF p \in P THEN Push(nav[b][p], now) ELSE nav[b][p]]
<1>1. UNCHANGED <<vitals, views, resources, errors>> /\ nav' = [nav EXCEPT ![b] = row]
  BY DEF RecordNav
<1>2. b \in AnyRoute
  BY BucketType DEF AnyRoute
<1>3. \A p \in Phases : nav[b][p] \in Rolling /\ Push(nav[b][p], now) \in Rolling
  BY <1>2, PushType DEF TypeOK
<1>4. row \in [Phases -> Rolling]
  BY <1>3
<1>5. nav' \in [AnyRoute -> [Phases -> Rolling]]
  BY <1>1, <1>2, <1>4 DEF TypeOK
<1>. QED
  BY <1>1, <1>5, Zenon DEF TypeOK, Turned

LEMMA ViewType ==
  ASSUME TypeOK, Turned, NEW r \in Routes, NEW e \in BOOLEAN, NEW t \in BOOLEAN,
         RecordView(r, e, t)
  PROVE  TypeOK'
<1>1. UNCHANGED <<vitals, nav, resources, errors>>
  BY DEF RecordView
<1>2. views[r] \in ViewEntry /\ Push(views[r].durations, now) \in Rolling
  BY PushType DEF TypeOK, ViewEntry
<1>3. views' \in [Routes -> ViewEntry]
  BY <1>2 DEF RecordView, TypeOK, ViewEntry
<1>. QED
  BY <1>1, <1>3, Zenon DEF TypeOK, Turned

LEMMA ResourceType ==
  ASSUME TypeOK, Turned, NEW u \in Urls, NEW f \in BOOLEAN, NEW S \in SUBSET Routes,
         RecordResource(u, f, S)
  PROVE  TypeOK'
<1>1. UNCHANGED <<vitals, nav, views, errors>>
  BY DEF RecordResource
<1>2. resources[u] \in ResourceEntry /\ Push(resources[u].times, now) \in Rolling
  BY PushType DEF TypeOK, ResourceEntry
<1>3. resources' \in [Urls -> ResourceEntry]
  BY <1>2 DEF RecordResource, TypeOK, ResourceEntry
<1>. QED
  BY <1>1, <1>3, Zenon DEF TypeOK, Turned

\* The routes a recorded hit leaves on its url.
LEMMA HitRoutes ==
  ASSUME TypeOK, NEW u \in Urls
  PROVE  /\ resources[u].routes \in SUBSET Routes
         /\ \A r \in Routes : AddRoute(resources[u].routes, r) \in SUBSET Routes
BY AddRouteType DEF TypeOK, ResourceEntry

LEMMA ErrorType ==
  ASSUME TypeOK, Turned, NEW g \in Sigs, NEW r \in Routes, Error(g, r)
  PROVE  TypeOK'
<1>1. UNCHANGED <<vitals, nav, views, resources>>
  BY DEF Error
<1>2. errors[g] \in ErrorEntry /\ AddRoute(errors[g].routes, r) \in SUBSET Routes
  BY AddRouteType DEF TypeOK, ErrorEntry
<1>3. errors' \in [Sigs -> ErrorEntry]
  BY <1>2 DEF Error, TypeOK, ErrorEntry
<1>. QED
  BY <1>1, <1>3, Zenon DEF TypeOK, Turned

LEMMA PruneAllType ==
  ASSUME TypeOK, PruneAll
  PROVE  /\ vitals' \in [AnyRoute -> [Vitals -> Rolling]]
         /\ nav' \in [AnyRoute -> [Phases -> Rolling]]
         /\ views' \in [Routes -> ViewEntry]
         /\ resources' \in [Urls -> ResourceEntry]
         /\ errors' \in [Sigs -> ErrorEntry]
         /\ sessions' \subseteq [id : Sessions, t : Nat]
         /\ lastPrune' = now
<1>. DEFINE cutoff == now - RETENTION
<1>1. cutoff \in Int
  BY Times DEF TypeOK
<1>2. \A s \in Rolling : Prune(s, cutoff) \in Rolling
  BY <1>1, PruneKeeps
<1>3. \A r \in AnyRoute : PruneRow(vitals[r], cutoff) \in [Vitals -> Rolling]
  BY <1>2 DEF PruneRow, TypeOK
<1>4. \A r \in AnyRoute : PruneRow(nav[r], cutoff) \in [Phases -> Rolling]
  BY <1>2 DEF PruneRow, TypeOK
<1>5. \A u \in Urls : [resources[u] EXCEPT !.times = Prune(@, cutoff)] \in ResourceEntry
  BY <1>2 DEF TypeOK, ResourceEntry
<1>6. errors' \in [Sigs -> ErrorEntry]
  BY DEF PruneAll, TypeOK, ErrorEntry, NoError
<1>. QED
  BY <1>3, <1>4, <1>5, <1>6 DEF PruneAll, TypeOK

LEMMA ReturnType ==
  ASSUME TypeOK, Return
  PROVE  TypeOK'
<1>0. /\ busy' = FALSE /\ accepted' = 0 /\ reply' \in {"204", "400"}
      /\ UNCHANGED <<devices, now, left>>
  BY DEF Return
<1>1. CASE PruneAll
  <2>1. now \in Nat /\ now <= now
    BY DEF TypeOK
  <2>. QED
    BY <1>0, <1>1, <2>1, PruneAllType, Zenon DEF TypeOK
<1>2. CASE UNCHANGED <<maps, sessions, lastPrune>>
  BY <1>0, <1>2 DEF TypeOK, maps
<1>. QED
  BY <1>1, <1>2 DEF Return

\* An event counted in the entry of a view or a resource, whether the event
\* is accepted or throws afterwards.
ViewRecorded ==
  \E r \in Routes, e, t \in BOOLEAN : RecordView(r, e, t) /\ (ViewFits(r) \/ r \in Viewed)

ResourceRecorded ==
  \E u \in Urls, f \in BOOLEAN, S \in SUBSET Routes :
    /\ RecordResource(u, f, S) /\ (ResourceFits(u) \/ u \in Loaded)
    /\ \/ S = resources[u].routes
       \/ \E r \in Routes : S = AddRoute(resources[u].routes, r)

\* An iteration of the loop, whatever its event.
LEMMA LoopType ==
  ASSUME TypeOK, Turned,
         \/ UNCHANGED maps
         \/ \E r \in Routes, v \in Vitals : Vital(r, v)
         \/ \E r \in Routes, P \in SUBSET Phases : RecordNav(r, P)
         \/ ViewRecorded
         \/ ResourceRecorded
         \/ \E g \in Sigs, r \in Routes : Error(g, r)
  PROVE  TypeOK'
<1>1. CASE UNCHANGED maps
  BY <1>1, Zenon DEF Turned, TypeOK, maps
<1>. QED
  BY <1>1, VitalType, NavType, ViewType, ResourceType, ErrorType DEF ViewRecorded, ResourceRecorded

\* The step is an iteration of the loop.
Iteration ==
  \/ Skip \/ Full \/ Throw
  \/ \E r \in Routes, v \in Vitals : Vital(r, v)
  \/ \E r \in Routes, P \in SUBSET Phases : Nav(r, P) \/ NavThrows(r, P)
  \/ \E r \in Routes, e, t \in BOOLEAN : View(r, e, t)
  \/ \E r \in Routes, e \in BOOLEAN : ViewThrows(r, e)
  \/ \E u \in Urls, r \in Routes, f \in BOOLEAN : Resource(u, r, f)
  \/ \E u \in Urls : ResourceThrows(u)
  \/ \E g \in Sigs, r \in Routes : Error(g, r)

LEMMA IterationTurns ==
  ASSUME TypeOK, Iteration
  PROVE  Turned
<1>1. (\E b \in BOOLEAN : Consume(b)) \/ Broken
  BY DEF Iteration, Skip, Full, Throw, Vital, Nav, NavThrows, View, ViewThrows,
         Resource, ResourceThrows, Error
<1>. QED
  BY <1>1, TurnType

\* What an iteration does to the Maps.
LEMMA IterationRecords ==
  ASSUME TypeOK, Iteration
  PROVE  \/ UNCHANGED maps
         \/ \E r \in Routes, v \in Vitals : Vital(r, v)
         \/ \E r \in Routes, P \in SUBSET Phases : RecordNav(r, P)
         \/ ViewRecorded
         \/ ResourceRecorded
         \/ \E g \in Sigs, r \in Routes : Error(g, r)
<1>1. ASSUME NEW r \in Routes, NEW e \in BOOLEAN, NEW t \in BOOLEAN, View(r, e, t)
      PROVE  ViewRecorded
  BY <1>1 DEF View, ViewRecorded
<1>2. ASSUME NEW r \in Routes, NEW e \in BOOLEAN, ViewThrows(r, e)
      PROVE  ViewRecorded
  <2>1. FALSE \in BOOLEAN
    OBVIOUS
  <2>. QED
    BY <1>2, <2>1, Zenon DEF ViewThrows, ViewRecorded
<1>3. ASSUME NEW u \in Urls, NEW r \in Routes, NEW f \in BOOLEAN, Resource(u, r, f)
      PROVE  ResourceRecorded
  BY <1>3, HitRoutes, Zenon DEF Resource, ResourceRecorded
<1>4. ASSUME NEW u \in Urls, ResourceThrows(u)
      PROVE  ResourceRecorded
  <2>1. FALSE \in BOOLEAN
    OBVIOUS
  <2>. QED
    BY <1>4, <2>1, HitRoutes, Zenon DEF ResourceThrows, ResourceRecorded
<1>5. ASSUME NEW r \in Routes, NEW P \in SUBSET Phases, Nav(r, P) \/ NavThrows(r, P)
      PROVE  RecordNav(r, P)
  BY <1>5 DEF Nav, NavThrows
<1>6. Skip \/ Full \/ Throw => UNCHANGED maps
  BY DEF Skip, Full, Throw
<1>. QED
  BY <1>1, <1>2, <1>3, <1>4, <1>5, <1>6 DEF Iteration

\* The step is one of the others.
LEMMA NextSplits ==
  ASSUME [Next]_vars
  PROVE  \/ Iteration \/ Malformed \/ Tick \/ Return \/ UNCHANGED vars
         \/ \E d \in Devices, s \in Sessions \cup {NoSession}, n \in 0 .. MaxLength : Receive(d, s, n)
BY DEF Next, Iteration

LEMMA NextType == TypeOK /\ [Next]_vars => TypeOK'
<1>. SUFFICES ASSUME TypeOK, [Next]_vars
              PROVE  TypeOK'
  OBVIOUS
<1>1. CASE Malformed
  <2>1. reply' \in {"none", "204", "400", "413"}
    BY <1>1 DEF Malformed
  <2>. QED
    BY <1>1, <2>1, Zenon DEF Malformed, TypeOK, maps
<1>2. CASE Iteration
  BY <1>2, IterationTurns, IterationRecords, LoopType
<1>3. CASE UNCHANGED vars
  BY <1>3 DEF TypeOK, vars
<1>4. CASE Tick
  BY <1>4 DEF Tick, TypeOK, maps
<1>. QED
  BY <1>1, <1>2, <1>3, <1>4, NextSplits, ReceiveType, ReturnType

\* The aggregator's fields keep their types, whatever the limits and inputs.
THEOREM TypeCorrect == Spec => []TypeOK
BY InitType, NextType, PTL DEF Spec
-----------------------------------------------------------------------------
(***************************************************************************)
(* Every step does one of two things to the aggregates: it pushes to some  *)
(* of them and stamps sessions and errors with the current time, or it     *)
(* prunes them all.                                                        *)
(***************************************************************************)

Grows(s, t) == t = s \/ t = Push(s, now)

GrowsOnly ==
  /\ \A r \in AnyRoute, v \in Vitals : Grows(vitals[r][v], vitals'[r][v])
  /\ \A r \in AnyRoute, p \in Phases : Grows(nav[r][p], nav'[r][p])
  /\ \A u \in Urls : Grows(resources[u].times, resources'[u].times)
  /\ \A r \in Routes : Grows(views[r].durations, views'[r].durations)
  /\ \A s \in sessions' : s \in sessions \/ s.t = now
  /\ \A s \in sessions : \E s2 \in sessions' : s2.id = s.id
  /\ \A g \in Sigs : \/ errors'[g] = errors[g]
                     \/ errors'[g].last = now /\ errors'[g].count = errors[g].count + 1
  /\ lastPrune' = lastPrune /\ now' \in {now, now + 1}

PrunesAll ==
  LET cutoff == now - RETENTION
  IN  /\ \A r \in AnyRoute, v \in Vitals : vitals'[r][v] = Prune(vitals[r][v], cutoff)
      /\ \A r \in AnyRoute, p \in Phases : nav'[r][p] = Prune(nav[r][p], cutoff)
      /\ \A u \in Urls : resources'[u].times = Prune(resources[u].times, cutoff)
      /\ views' = views
      /\ sessions' = {s \in sessions : s.t >= cutoff}
      /\ \A g \in Sigs : errors'[g] = IF errors[g].last < cutoff THEN NoError ELSE errors[g]
      /\ lastPrune' = now /\ now' = now

\* Nothing but the loop's locals changes.
LEMMA Unmoved ==
  ASSUME vitals' = vitals, nav' = nav, views' = views, resources' = resources,
         errors' = errors, sessions' = sessions, lastPrune' = lastPrune, now' = now
  PROVE  GrowsOnly
BY DEF GrowsOnly, Grows

LEMMA VitalGrows ==
  ASSUME TypeOK, Turned, NEW r \in Routes, NEW v \in Vitals, Vital(r, v)
  PROVE  GrowsOnly
<1>1. /\ UNCHANGED <<nav, views, resources, errors, sessions, lastPrune, now>>
      /\ vitals' = [vitals EXCEPT ![BucketRoute(vitals, r)][v] = Push(@, now)]
  BY DEF Vital, Turned
<1>2. vitals \in [AnyRoute -> [Vitals -> Rolling]]
  BY DEF TypeOK
<1>3. \A q \in AnyRoute, w \in Vitals : Grows(vitals[q][w], vitals'[q][w])
  BY <1>1, <1>2 DEF Grows
<1>. QED
  BY <1>1, <1>3 DEF GrowsOnly, Grows

LEMMA NavGrows ==
  ASSUME TypeOK, Turned, NEW r \in Routes, NEW P \in SUBSET Phases, RecordNav(r, P)
  PROVE  GrowsOnly
<1>1. UNCHANGED <<vitals, views, resources, errors, sessions, lastPrune, now>>
  BY DEF RecordNav, Turned
<1>2. nav \in [AnyRoute -> [Phases -> Rolling]]
  BY DEF TypeOK
<1>3. \A q \in AnyRoute, p \in Phases : Grows(nav[q][p], nav'[q][p])
  BY <1>2 DEF Grows, RecordNav
<1>. QED
  BY <1>1, <1>3 DEF GrowsOnly, Grows

LEMMA ViewGrows ==
  ASSUME TypeOK, Turned, NEW r \in Routes, NEW e \in BOOLEAN, NEW t \in BOOLEAN,
         RecordView(r, e, t)
  PROVE  GrowsOnly
<1>1. UNCHANGED <<vitals, nav, resources, errors, sessions, lastPrune, now>>
  BY DEF RecordView, Turned
<1>2. views \in [Routes -> ViewEntry]
  BY DEF TypeOK
<1>3. \A q \in Routes : Grows(views[q].durations, views'[q].durations)
  BY <1>2 DEF Grows, RecordView, ViewEntry
<1>. QED
  BY <1>1, <1>3 DEF GrowsOnly, Grows

LEMMA ResourceGrows ==
  ASSUME TypeOK, Turned, NEW u \in Urls, NEW f \in BOOLEAN, NEW S \in SUBSET Routes,
         RecordResource(u, f, S)
  PROVE  GrowsOnly
<1>1. UNCHANGED <<vitals, nav, views, errors, sessions, lastPrune, now>>
  BY DEF RecordResource, Turned
<1>2. resources \in [Urls -> ResourceEntry]
  BY DEF TypeOK
<1>3. \A q \in Urls : Grows(resources[q].times, resources'[q].times)
  BY <1>2 DEF Grows, RecordResource, ResourceEntry
<1>. QED
  BY <1>1, <1>3 DEF GrowsOnly, Grows

LEMMA ErrorGrows ==
  ASSUME TypeOK, Turned, NEW g \in Sigs, NEW r \in Routes, Error(g, r)
  PROVE  GrowsOnly
<1>1. UNCHANGED <<vitals, nav, views, resources, sessions, lastPrune, now>>
  BY DEF Error, Turned
<1>2. errors \in [Sigs -> ErrorEntry]
  BY DEF TypeOK
<1>. DEFINE e == [count  |-> errors[g].count + 1,
                  first  |-> IF g \in Raised THEN errors[g].first ELSE now,
                  last   |-> now,
                  routes |-> AddRoute(errors[g].routes, r)]
<1>4. errors' = [errors EXCEPT ![g] = e] /\ e.last = now /\ e.count = errors[g].count + 1
  BY DEF Error
<1>3. ASSUME NEW h \in Sigs
      PROVE  \/ errors'[h] = errors[h]
             \/ (errors'[h].last = now /\ errors'[h].count = errors[h].count + 1)
  <2>1. CASE h = g
    BY <1>2, <1>4, <2>1
  <2>2. CASE h # g
    BY <1>2, <1>4, <2>2
  <2>. QED
    BY <2>1, <2>2
<1>. QED
  BY <1>1, <1>3 DEF GrowsOnly, Grows

LEMMA ReceiveGrows ==
  ASSUME TypeOK, NEW d \in Devices, NEW s \in Sessions \cup {NoSession}, NEW n \in 0 .. MaxLength,
         Receive(d, s, n)
  PROVE  GrowsOnly
<1>1. UNCHANGED <<vitals, nav, views, resources, errors, lastPrune, now>>
  BY DEF Receive, maps
<1>2. /\ \A x \in sessions' : x \in sessions \/ x.t = now
      /\ \A x \in sessions : \E y \in sessions' : y.id = x.id
  <2>1. CASE s = NoSession
    BY <2>1 DEF Receive
  <2>2. CASE s # NoSession
    <3>1. sessions' = {x \in sessions : x.id # s} \cup {[id |-> s, t |-> now]}
      BY <2>2 DEF Receive
    <3>2. [id |-> s, t |-> now].id = s /\ [id |-> s, t |-> now].t = now
      OBVIOUS
    <3>3. \A x \in sessions' : x \in sessions \/ x.t = now
      BY <3>1, <3>2
    <3>4. ASSUME NEW x \in sessions
          PROVE  \E y \in sessions' : y.id = x.id
      <4>1. CASE x.id = s
        BY <3>1, <3>2, <4>1
      <4>2. CASE x.id # s
        BY <3>1, <4>2
      <4>. QED
        BY <4>1, <4>2
    <3>. QED
      BY <3>3, <3>4
  <2>. QED
    BY <2>1, <2>2
<1>. QED
  BY <1>1, <1>2 DEF GrowsOnly, Grows

LEMMA PruneAllPrunes ==
  ASSUME TypeOK, PruneAll, UNCHANGED now
  PROVE  PrunesAll
BY DEF PruneAll, PrunesAll, PruneRow, TypeOK, ResourceEntry

LEMMA StepShape ==
  ASSUME TypeOK, [Next]_vars
  PROVE  GrowsOnly \/ (Return /\ PrunesAll)
<1>1. CASE Malformed \/ UNCHANGED vars
  BY <1>1, Unmoved DEF Malformed, vars, maps
<1>2. CASE Iteration
  <2>1. Turned
    BY <1>2, IterationTurns
  <2>2. CASE UNCHANGED maps
    BY <2>1, <2>2, Unmoved DEF Turned, maps
  <2>. QED
    BY <1>2, <2>1, <2>2, IterationRecords, VitalGrows, NavGrows, ViewGrows, ResourceGrows, ErrorGrows
       DEF ViewRecorded, ResourceRecorded
<1>3. CASE Tick
  BY <1>3 DEF Tick, GrowsOnly, Grows, maps
<1>4. CASE Return
  <2>1. CASE PruneAll
    BY <1>4, <2>1, PruneAllPrunes DEF Return
  <2>2. CASE UNCHANGED <<maps, sessions, lastPrune>>
    BY <1>4, <2>2, Unmoved DEF Return, maps
  <2>. QED
    BY <1>4, <2>1, <2>2 DEF Return
<1>. QED
  BY <1>1, <1>2, <1>3, <1>4, NextSplits, ReceiveGrows

-----------------------------------------------------------------------------
(***************************************************************************)
(* The buffers, one at a time.                                             *)
(***************************************************************************)

Good(s, time) == s \in Rolling /\ Within(s) /\ Ordered(s, time) /\ Newest(s)

\* One step of the aggregator on one buffer, the clock moving from a to b.
LEMMA GoodStep ==
  ASSUME NEW a \in Nat, NEW b \in Nat, a <= b, NEW cutoff \in Int,
         NEW s, Good(s, a), NEW t,
         t = s \/ t = Push(s, a) \/ t = Prune(s, cutoff)
  PROVE  Good(t, b)
<1>1. t \in Rolling /\ Within(t) /\ Ordered(t, a) /\ Newest(t)
  <2>1. CASE t = s
    BY <2>1 DEF Good
  <2>2. CASE t = Push(s, a)
    BY <2>2, PushType, PushWithin, PushNewest DEF Good
  <2>3. CASE t = Prune(s, cutoff)
    BY <2>3, PruneKeeps DEF Good
  <2>. QED
    BY <2>1, <2>2, <2>3
<1>. QED
  BY <1>1, OrderedLater DEF Good

\* Every buffer steps like that.
LEMMA BufferStep ==
  ASSUME TypeOK, [Next]_vars, NEW t \in Buffers'
  PROVE  \E s \in Buffers : \/ t = s
                            \/ t = Push(s, now)
                            \/ t = Prune(s, now - RETENTION)
<1>. DEFINE Steps(s) == t = s \/ t = Push(s, now) \/ t = Prune(s, now - RETENTION)
<1>1. /\ \A r \in AnyRoute, v \in Vitals : t = vitals'[r][v] => Steps(vitals[r][v])
      /\ \A r \in AnyRoute, q \in Phases : t = nav'[r][q] => Steps(nav[r][q])
      /\ \A u \in Urls : t = resources'[u].times => Steps(resources[u].times)
      /\ \A r \in Routes : t = views'[r].durations => Steps(views[r].durations)
  <2>1. CASE GrowsOnly
    BY <2>1 DEF GrowsOnly, Grows
  <2>2. CASE PrunesAll
    BY <2>2 DEF PrunesAll
  <2>. QED
    BY <2>1, <2>2, StepShape
<1>2. \/ \E r \in AnyRoute, v \in Vitals : t = vitals'[r][v]
      \/ \E r \in AnyRoute, q \in Phases : t = nav'[r][q]
      \/ \E u \in Urls : t = resources'[u].times
      \/ \E r \in Routes : t = views'[r].durations
  BY DEF Buffers, PrunedBuffers
<1>3. \E s \in Buffers : Steps(s)
  BY <1>1, <1>2 DEF Buffers, PrunedBuffers
<1>. QED
  BY <1>3

\* The inductive invariant behind SamplesBounded and SamplesNewest: neither
\* holds up without the other facts about the same buffer.
SamplesInv == TypeOK /\ \A s \in Buffers : Good(s, now)

LEMMA SamplesInit == Init => SamplesInv
<1>. SUFFICES ASSUME Init
              PROVE  SamplesInv
  OBVIOUS
<1>1. TypeOK
  BY InitType
<1>2. \A s \in Buffers : s = Empty
  BY DEF Init, Buffers, PrunedBuffers, NoView, NoResource
<1>. QED
  BY <1>1, <1>2, EmptyGood DEF SamplesInv, Good, TypeOK

LEMMA SamplesStep == SamplesInv /\ [Next]_vars => SamplesInv'
<1>. SUFFICES ASSUME SamplesInv, [Next]_vars
              PROVE  SamplesInv'
  OBVIOUS
<1>1. TypeOK /\ TypeOK'
  BY NextType DEF SamplesInv
<1>2. now \in Nat /\ now' \in Nat /\ now <= now' /\ now - RETENTION \in Int
  BY <1>1, StepShape, Times DEF TypeOK, GrowsOnly, PrunesAll
<1>3. ASSUME NEW t \in Buffers'
      PROVE  Good(t, now')
  <2>1. PICK s \in Buffers : t = s \/ t = Push(s, now) \/ t = Prune(s, now - RETENTION)
    BY <1>1, BufferStep
  <2>2. Good(s, now)
    BY DEF SamplesInv
  <2>. QED
    BY <1>2, <2>1, <2>2, GoodStep
<1>. QED
  BY <1>1, <1>3 DEF SamplesInv

LEMMA SamplesInvariant == Spec => []SamplesInv
BY SamplesInit, SamplesStep, PTL DEF Spec

\* No sample buffer ever exceeds MAX_SAMPLES_PER_KEY (rum.ts:28).
THEOREM SamplesStayBounded == Spec => []SamplesBounded
<1>1. SamplesInv => SamplesBounded
  BY DEF SamplesInv, SamplesBounded, Good
<1>. QED
  BY <1>1, SamplesInvariant, PTL

\* Every sample buffer is the newest part of what its key was sent, in order
\* (rum.ts:28, 31).
THEOREM SamplesStayNewest == Spec => []SamplesNewest
<1>1. SamplesInv => SamplesNewest
  BY DEF SamplesInv, SamplesNewest, Good
<1>. QED
  BY <1>1, SamplesInvariant, PTL
-----------------------------------------------------------------------------
(***************************************************************************)
(* Retention.                                                              *)
(***************************************************************************)

LEMMA BuffersType == TypeOK => \A s \in Buffers : s \in Rolling
BY DEF TypeOK, Buffers, PrunedBuffers, ViewEntry, ResourceEntry

LEMMA ErrorsType == TypeOK => \A g \in Sigs : errors[g].count \in Nat /\ errors[g].last \in Nat
BY DEF TypeOK, ErrorEntry

RetainedInv == TypeOK /\ Retained

LEMMA RetainedInit == Init => RetainedInv
<1>. SUFFICES ASSUME Init
              PROVE  RetainedInv
  OBVIOUS
<1>1. \A s \in PrunedBuffers : s = Empty
  BY DEF Init, PrunedBuffers, NoResource
<1>2. sessions = {} /\ Raised = {}
  BY DEF Init, Raised, NoError
<1>3. lastPrune - RETENTION \in Int
  BY Times DEF Init
<1>. QED
  BY <1>1, <1>2, <1>3, InitType, EmptyGood DEF RetainedInv, Retained

\* A step that only adds: what is new is stamped now, and now is after the
\* latest prune.
LEMMA RetainedGrows ==
  ASSUME TypeOK, Retained, GrowsOnly
  PROVE  Retained'
<1>. DEFINE cutoff == lastPrune - RETENTION
<1>1. now \in Nat /\ cutoff \in Int /\ now >= cutoff /\ lastPrune' = lastPrune
  BY Times DEF TypeOK, GrowsOnly
<1>2. ASSUME NEW s \in PrunedBuffers, NEW t, Grows(s, t)
      PROVE  Since(t, cutoff)
  <2>1. s \in Rolling /\ Since(s, cutoff)
    BY BuffersType DEF Buffers, Retained
  <2>. QED
    BY <1>1, <1>2, <2>1, PushSince DEF Grows
<1>3. \A t \in PrunedBuffers' : \E s \in PrunedBuffers : Grows(s, t)
  BY DEF PrunedBuffers, GrowsOnly
<1>4. \A s \in sessions' : s.t >= cutoff
  BY <1>1 DEF GrowsOnly, Retained
<1>5. ASSUME NEW g \in Raised'
      PROVE  errors'[g].last >= cutoff
  <2>1. CASE errors'[g] = errors[g]
    BY <1>5, <2>1 DEF Retained, Raised
  <2>2. CASE errors'[g].last = now
    BY <1>1, <2>2
  <2>. QED
    BY <2>1, <2>2 DEF GrowsOnly, Raised
<1>. QED
  BY <1>1, <1>2, <1>3, <1>4, <1>5 DEF Retained

\* A prune leaves nothing older than its cutoff.
LEMMA RetainedPrunes ==
  ASSUME TypeOK, PrunesAll
  PROVE  Retained'
<1>. DEFINE cutoff == now - RETENTION
<1>1. cutoff \in Int /\ lastPrune' = now
  BY Times DEF TypeOK, PrunesAll
<1>2. \A t \in PrunedBuffers' : \E s \in PrunedBuffers : t = Prune(s, cutoff)
  BY DEF PrunedBuffers, PrunesAll
<1>3. \A t \in PrunedBuffers' : Since(t, cutoff)
  BY <1>1, <1>2, BuffersType, PruneKeeps DEF Buffers
<1>4. \A s \in sessions' : s.t >= cutoff
  BY DEF PrunesAll
<1>5. ASSUME NEW g \in Raised'
      PROVE  errors'[g].last >= cutoff
  <2>1. g \in Sigs /\ errors'[g].count > 0
    BY DEF Raised
  <2>2. errors'[g] # NoError
    BY <2>1 DEF NoError
  <2>3. errors'[g] = errors[g] /\ ~(errors[g].last < cutoff)
    BY <2>1, <2>2 DEF PrunesAll
  <2>. QED
    BY <1>1, <2>1, <2>3, ErrorsType
<1>. QED
  BY <1>1, <1>3, <1>4, <1>5 DEF Retained

LEMMA RetainedStep == RetainedInv /\ [Next]_vars => RetainedInv'
BY NextType, StepShape, RetainedGrows, RetainedPrunes DEF RetainedInv

LEMMA RetainedInvariant == Spec => []RetainedInv
BY RetainedInit, RetainedStep, PTL DEF Spec

\* Samples, sessions and errors are inside the retention window as of the
\* latest prune (rum.ts:192-199).
THEOREM RetentionKept == Spec => []Retained
<1>1. RetainedInv => Retained
  BY DEF RetainedInv
<1>. QED
  BY <1>1, RetainedInvariant, PTL

\* The cutoff of a prune at most p ago.
LEMMA Gap ==
  ASSUME NEW a \in Nat, NEW b \in Nat, NEW r \in Nat, NEW p \in Nat, a - b <= p
  PROVE  b - r \in Int /\ a - r - p \in Int /\ a - r - p <= b - r
OBVIOUS

LEMMA FreshStep ==
  ASSUME TypeOK, TypeOK', Retained'
  PROVE  StaysFresh
<1>. SUFFICES ASSUME Return
              PROVE  StaysFresh
  BY DEF StaysFresh
<1>. DEFINE cutoff == now - RETENTION - PRUNE_PERIOD
            cut == lastPrune' - RETENTION
<1>1. now \in Nat /\ lastPrune' \in Nat /\ now - lastPrune' <= PRUNE_PERIOD
  <2>1. CASE now - lastPrune > PRUNE_PERIOD
    BY <2>1, Times DEF Return, PruneAll, TypeOK
  <2>2. CASE ~(now - lastPrune > PRUNE_PERIOD)
    BY <2>2, Times DEF Return, TypeOK
  <2>. QED
    BY <2>1, <2>2
<1>2. cut \in Int /\ cutoff \in Int /\ cutoff <= cut
  <2>1. RETENTION \in Nat /\ PRUNE_PERIOD \in Nat
    BY Times
  <2>. QED
    BY <1>1, <2>1, Gap
<1>3. ASSUME NEW s \in PrunedBuffers'
      PROVE  Since(s, cutoff)
  <2>1. s \in Rolling
    BY BuffersType DEF Buffers, PrunedBuffers, TypeOK, ResourceEntry
  <2>2. Since(s, cut)
    BY DEF Retained
  <2>. QED
    BY <1>2, <2>1, <2>2 DEF Since, Rolling, Sample
<1>4. \A s \in sessions' : s.t >= cutoff
  BY <1>2 DEF Retained, TypeOK
<1>5. \A g \in Raised' : errors'[g].last >= cutoff
  BY <1>2 DEF Retained, TypeOK, Raised, ErrorEntry
<1>. QED
  BY <1>3, <1>4, <1>5 DEF StaysFresh

\* A beacon that was ingested to its end leaves nothing older than the
\* retention plus the pause between prunes (rum.ts:169).
THEOREM ReturnRefreshes == Spec => FreshAfterReturn
<1>1. RetainedInv /\ RetainedInv' => StaysFresh
  BY FreshStep DEF RetainedInv
<1>. QED
  BY <1>1, RetainedInvariant, PTL DEF FreshAfterReturn

LEMMA LossStep ==
  ASSUME SamplesInv, [Next]_vars
  PROVE  LosesOnlyTheOld
<1>. DEFINE cutoff == now - RETENTION
<1>1. TypeOK /\ cutoff \in Int /\ now \in Nat
  BY Times DEF SamplesInv, TypeOK
<1>2. ASSUME NEW s \in Buffers, NEW t, Grows(s, t) \/ t = Prune(s, cutoff)
      PROVE  LosesOnlyOld(s, t, cutoff)
  <2>1. s \in Rolling /\ Within(s) /\ Ordered(s, now)
    BY DEF SamplesInv, Good
  <2>2. CASE t = s
    BY <2>2 DEF LosesOnlyOld
  <2>3. CASE t = Push(s, now)
    BY <1>1, <2>1, <2>3, PushLoss
  <2>4. CASE t = Prune(s, cutoff)
    BY <1>1, <2>1, <2>4, PruneLoss
  <2>. QED
    BY <1>2, <2>2, <2>3, <2>4 DEF Grows
<1>3. /\ \A r \in AnyRoute, v \in Vitals : vitals[r][v] \in Buffers
      /\ \A r \in AnyRoute, p \in Phases : nav[r][p] \in Buffers
      /\ \A r \in Routes : views[r].durations \in Buffers
      /\ \A u \in Urls : resources[u].times \in Buffers
  BY DEF Buffers, PrunedBuffers
<1>4. CASE GrowsOnly
  <2>1. \A s \in sessions : \E s2 \in sessions' : s2.id = s.id
    BY <1>4 DEF GrowsOnly
  <2>2. \A g \in Sigs : errors'[g].count >= errors[g].count
    BY <1>1, <1>4, ErrorsType DEF GrowsOnly
  <2>. QED
    BY <1>2, <1>3, <1>4, <2>1, <2>2 DEF GrowsOnly, LosesOnlyTheOld, Raised
<1>5. CASE PrunesAll
  <2>1. \A s \in sessions : s.t >= cutoff => \E s2 \in sessions' : s2.id = s.id
    BY <1>5 DEF PrunesAll
  <2>2. \A g \in Sigs : errors[g].last >= cutoff => errors'[g].count >= errors[g].count
    BY <1>1, <1>5, ErrorsType DEF PrunesAll
  <2>3. \A r \in Routes : Grows(views[r].durations, views'[r].durations)
    BY <1>5 DEF PrunesAll, Grows
  <2>. QED
    BY <1>2, <1>3, <1>5, <2>1, <2>2, <2>3 DEF PrunesAll, LosesOnlyTheOld, Raised
<1>. QED
  BY <1>1, <1>4, <1>5, StepShape

\* Nothing is forgotten before it is older than the retention or pushed out by
\* a full buffer of newer samples (rum.ts:28, 31, 196-197).
THEOREM NothingLostEarly == Spec => NoEarlyLoss
<1>1. SamplesInv /\ [Next]_vars => LosesOnlyTheOld
  BY LossStep
<1>. QED
  BY <1>1, SamplesInvariant, PTL DEF Spec, NoEarlyLoss
-----------------------------------------------------------------------------
(***************************************************************************)
(* The limits of the Maps.                                                 *)
(***************************************************************************)

AtMost(S, m) == IsFiniteSet(S) /\ Cardinality(S) <= m

\* What bucket() keeps true of the key set of vitals and of nav.
Held(S) ==
  /\ IsFiniteSet(S)
  /\ Cardinality(S \ {Other}) <= MAX_ROUTES
  /\ Other \notin Routes /\ Other \in S => Cardinality(S \ {Other}) >= MAX_ROUTES

MapsInv ==
  /\ TypeOK
  /\ Held(Present(vitals)) /\ Held(Present(nav))
  /\ AtMost(Viewed, MAX_ROUTES)
  /\ AtMost(Loaded, MAX_RESOURCES)
  /\ AtMost(Raised, MAX_ERRORS)
  /\ \A u \in Urls : AtMost(resources[u].routes, MAX_ENTRY_ROUTES)
  /\ \A g \in Sigs : AtMost(errors[g].routes, MAX_ENTRY_ROUTES)

\* A Map that lets a new key in only below its limit keeps to it.
LEMMA AtMostAdd ==
  ASSUME NEW S, NEW m \in Nat, AtMost(S, m), NEW x, x \in S \/ Cardinality(S) < m
  PROVE  AtMost(S \cup {x}, m)
<1>1. CASE x \in S
  <2>1. S \cup {x} = S
    BY <1>1
  <2>. QED
    BY <2>1
<1>2. CASE x \notin S
  <2>1. Cardinality(S) \in Nat /\ Cardinality(S) < m
    BY <1>2, FS_CardinalityType DEF AtMost
  <2>. QED
    BY <1>2, <2>1, FS_AddElement DEF AtMost
<1>. QED
  BY <1>1, <1>2

LEMMA AtMostSubset ==
  ASSUME NEW S, NEW m \in Nat, AtMost(S, m), NEW T, T \subseteq S
  PROVE  AtMost(T, m)
BY FS_Subset, FS_CardinalityType DEF AtMost

LEMMA AtMostEmpty ==
  ASSUME NEW m \in Nat
  PROVE  AtMost({}, m)
BY FS_EmptySet DEF AtMost

LEMMA AddRouteFits ==
  ASSUME NEW S, AtMost(S, MAX_ENTRY_ROUTES), NEW r
  PROVE  AtMost(AddRoute(S, r), MAX_ENTRY_ROUTES)
BY AtMostAdd, Times DEF AddRoute

\* Filing under bucket()'s choice of a route.
LEMMA HeldAdd ==
  ASSUME NEW S, Held(S), NEW r \in Routes, NEW b,
         b = IF r \in S \/ Cardinality(S) < MAX_ROUTES THEN r ELSE Other
  PROVE  Held(S \cup {b})
<1>. DEFINE T == S \cup {b}
            N == S \ {Other}
<1>1. /\ MAX_ROUTES \in Nat /\ IsFiniteSet(S) /\ IsFiniteSet(N) /\ IsFiniteSet(T)
      /\ Cardinality(S) \in Nat /\ Cardinality(N) \in Nat
      /\ Cardinality(N) <= Cardinality(S) /\ Cardinality(N) <= MAX_ROUTES
  BY Times, FS_Subset, FS_CardinalityType, FS_AddElement DEF Held
<1>2. CASE b \in S
  <2>1. T = S
    BY <1>2
  <2>. QED
    BY <2>1
<1>3. CASE b \notin S /\ b = Other
  <2>1. T \ {Other} = N /\ N = S
    BY <1>3
  <2>2. (r \notin S /\ ~(Cardinality(S) < MAX_ROUTES)) \/ r = Other
    BY <1>3
  <2>3. Other \notin Routes => Cardinality(N) >= MAX_ROUTES
    BY <1>1, <2>1, <2>2
  <2>. QED
    BY <1>1, <2>1, <2>3 DEF Held
<1>4. CASE b \notin S /\ b # Other
  <2>1. b = r /\ Cardinality(S) < MAX_ROUTES
    BY <1>4
  <2>2. T \ {Other} = N \cup {b} /\ b \notin N
    BY <1>4
  <2>3. Cardinality(T \ {Other}) = Cardinality(N) + 1
    BY <1>1, <2>2, FS_AddElement
  <2>4. Cardinality(T \ {Other}) <= MAX_ROUTES
    BY <1>1, <2>1, <2>3
  <2>5. Other \notin Routes /\ Other \in T => Cardinality(T \ {Other}) >= MAX_ROUTES
    <3>1. SUFFICES ASSUME Other \notin Routes, Other \in T
                   PROVE  Cardinality(T \ {Other}) >= MAX_ROUTES
      OBVIOUS
    <3>2. Cardinality(N) >= MAX_ROUTES
      BY <1>4, <3>1 DEF Held
    <3>. QED
      BY <1>1, <2>3, <3>2
  <2>. QED
    BY <1>1, <2>4, <2>5 DEF Held
<1>. QED
  BY <1>2, <1>3, <1>4

LEMMA MapsInit == Init => MapsInv
<1>. SUFFICES ASSUME Init
              PROVE  MapsInv
  OBVIOUS
<1>1. Present(vitals) = {} /\ Present(nav) = {}
  BY DEF Init, Present, Empty
<1>2. Viewed = {} /\ Loaded = {} /\ Raised = {}
  BY DEF Init, Viewed, Loaded, Raised, NoView, NoResource, NoError
<1>3. /\ \A u \in Urls : resources[u].routes = {}
      /\ \A g \in Sigs : errors[g].routes = {}
  BY DEF Init, NoResource, NoError
<1>4. Held({})
  BY FS_EmptySet, FS_Subset, Times DEF Held
<1>. QED
  BY <1>1, <1>2, <1>3, <1>4, InitType, AtMostEmpty, Times DEF MapsInv

\* The maps a step leaves alone keep to their limits.
LEMMA MapsSame ==
  ASSUME MapsInv, TypeOK', maps' = maps
  PROVE  MapsInv'
<1>1. /\ vitals' = vitals /\ nav' = nav /\ views' = views
      /\ resources' = resources /\ errors' = errors
  BY DEF maps
<1>2. /\ Present(vitals)' = Present(vitals) /\ Present(nav)' = Present(nav)
      /\ Viewed' = Viewed /\ Loaded' = Loaded /\ Raised' = Raised
  BY <1>1 DEF Present, Viewed, Loaded, Raised
<1>. QED
  BY <1>1, <1>2 DEF MapsInv, Held, AtMost

LEMMA VitalMaps ==
  ASSUME MapsInv, TypeOK', NEW r \in Routes, NEW v \in Vitals, Vital(r, v)
  PROVE  MapsInv'
<1>. DEFINE b == BucketRoute(vitals, r)
<1>1. /\ nav' = nav /\ views' = views /\ resources' = resources /\ errors' = errors
      /\ vitals' = [vitals EXCEPT ![b][v] = Push(@, now)]
  BY DEF Vital
<1>2. vitals \in [AnyRoute -> [Vitals -> Rolling]] /\ b \in AnyRoute
  BY BucketType DEF MapsInv, TypeOK, AnyRoute
<1>3. Present(vitals)' = Present(vitals) \cup {b}
  <2>1. /\ \A q \in AnyRoute \ {b} : vitals'[q] = vitals[q]
        /\ v \in DOMAIN vitals'[b] /\ vitals'[b][v].pushed > 0
    BY <1>1, <1>2 DEF Push, Rolling
  <2>. QED
    BY <1>2, <2>1 DEF Present
<1>4. Held(Present(vitals) \cup {b})
  BY HeldAdd DEF MapsInv, BucketRoute
<1>5. /\ Present(nav)' = Present(nav)
      /\ Viewed' = Viewed /\ Loaded' = Loaded /\ Raised' = Raised
  BY <1>1 DEF Present, Viewed, Loaded, Raised
<1>. QED
  BY <1>1, <1>3, <1>4, <1>5 DEF MapsInv, Held, AtMost

LEMMA NavMaps ==
  ASSUME MapsInv, TypeOK', NEW r \in Routes, NEW P \in SUBSET Phases, RecordNav(r, P)
  PROVE  MapsInv'
<1>. DEFINE b == BucketRoute(nav, r)
            row == [p \in Phases |-> IF p \in P THEN Push(nav[b][p], now) ELSE nav[b][p]]
<1>1. /\ vitals' = vitals /\ views' = views /\ resources' = resources /\ errors' = errors
      /\ nav' = [nav EXCEPT ![b] = row]
  BY DEF RecordNav
<1>2. nav \in [AnyRoute -> [Phases -> Rolling]] /\ b \in AnyRoute
  BY BucketType DEF MapsInv, TypeOK, AnyRoute
<1>3. Present(nav)' \in {Present(nav), Present(nav) \cup {b}}
  <2>1. \A q \in AnyRoute \ {b} : nav'[q] = nav[q]
    BY <1>1, <1>2
  <2>2. nav'[b] = row /\ DOMAIN nav[b] = Phases /\ DOMAIN row = Phases
    BY <1>1, <1>2
  <2>3. CASE P = {}
    <3>1. row = nav[b]
      BY <1>2, <2>3
    <3>2. nav' = nav
      BY <1>1, <1>2, <3>1
    <3>. QED
      BY <3>2 DEF Present
  <2>4. CASE P # {}
    <3>1. PICK p \in P : p \in Phases
      BY <2>4
    <3>2. nav'[b][p].pushed > 0 /\ p \in DOMAIN nav'[b]
      BY <1>2, <2>2, <3>1 DEF Push, Rolling
    <3>. QED
      BY <1>2, <2>1, <3>2 DEF Present
  <2>. QED
    BY <2>3, <2>4
<1>4. Held(Present(nav)) /\ Held(Present(nav) \cup {b})
  BY HeldAdd DEF MapsInv, BucketRoute
<1>5. /\ Present(vitals)' = Present(vitals)
      /\ Viewed' = Viewed /\ Loaded' = Loaded /\ Raised' = Raised
  BY <1>1 DEF Present, Viewed, Loaded, Raised
<1>6. Held(Present(nav))'
  BY <1>3, <1>4 DEF Held
<1>. QED
  BY <1>1, <1>5, <1>6 DEF MapsInv, Held, AtMost

LEMMA ViewMaps ==
  ASSUME MapsInv, TypeOK', NEW r \in Routes, NEW e \in BOOLEAN, NEW t \in BOOLEAN,
         RecordView(r, e, t), ViewFits(r) \/ r \in Viewed
  PROVE  MapsInv'
<1>1. vitals' = vitals /\ nav' = nav /\ resources' = resources /\ errors' = errors
  BY DEF RecordView
<1>2. Viewed' \subseteq Viewed \cup {r}
  BY DEF RecordView, Viewed, MapsInv, TypeOK, ViewEntry
<1>3. AtMost(Viewed \cup {r}, MAX_ROUTES)
  BY AtMostAdd, Times DEF ViewFits, MapsInv
<1>4. AtMost(Viewed', MAX_ROUTES)
  BY <1>2, <1>3, AtMostSubset, Times
<1>5. /\ Present(vitals)' = Present(vitals) /\ Present(nav)' = Present(nav)
      /\ Loaded' = Loaded /\ Raised' = Raised
  BY <1>1 DEF Present, Loaded, Raised
<1>. QED
  BY <1>1, <1>4, <1>5 DEF MapsInv, Held, AtMost

LEMMA ResourceMaps ==
  ASSUME MapsInv, TypeOK', NEW u \in Urls, NEW f \in BOOLEAN, NEW S \in SUBSET Routes,
         RecordResource(u, f, S), ResourceFits(u) \/ u \in Loaded,
         S = resources[u].routes \/ \E r \in Routes : S = AddRoute(resources[u].routes, r)
  PROVE  MapsInv'
<1>1. vitals' = vitals /\ nav' = nav /\ views' = views /\ errors' = errors
  BY DEF RecordResource
<1>2. Loaded' \subseteq Loaded \cup {u}
  BY DEF RecordResource, Loaded, MapsInv, TypeOK, ResourceEntry
<1>3. AtMost(Loaded \cup {u}, MAX_RESOURCES)
  BY AtMostAdd, Times DEF ResourceFits, MapsInv
<1>4. AtMost(Loaded', MAX_RESOURCES)
  BY <1>2, <1>3, AtMostSubset, Times
<1>5. AtMost(S, MAX_ENTRY_ROUTES)
  BY AddRouteFits DEF MapsInv
<1>6. \A q \in Urls : resources'[q].routes = IF q = u THEN S ELSE resources[q].routes
  BY DEF RecordResource, MapsInv, TypeOK, ResourceEntry
<1>7. \A q \in Urls : AtMost(resources'[q].routes, MAX_ENTRY_ROUTES)
  BY <1>5, <1>6 DEF MapsInv
<1>8. /\ Present(vitals)' = Present(vitals) /\ Present(nav)' = Present(nav)
      /\ Viewed' = Viewed /\ Raised' = Raised
  BY <1>1 DEF Present, Viewed, Raised
<1>. QED
  BY <1>1, <1>4, <1>7, <1>8 DEF MapsInv, Held, AtMost

LEMMA ErrorMaps ==
  ASSUME MapsInv, TypeOK', NEW g \in Sigs, NEW r \in Routes, Error(g, r)
  PROVE  MapsInv'
<1>1. vitals' = vitals /\ nav' = nav /\ views' = views /\ resources' = resources
  BY DEF Error
<1>. DEFINE e == [count  |-> errors[g].count + 1,
                  first  |-> IF g \in Raised THEN errors[g].first ELSE now,
                  last   |-> now,
                  routes |-> AddRoute(errors[g].routes, r)]
<1>2. errors' = [errors EXCEPT ![g] = e] /\ e.routes = AddRoute(errors[g].routes, r)
  BY DEF Error
<1>3. \A q \in Sigs : errors'[q] = IF q = g THEN e ELSE errors[q]
  BY <1>2 DEF MapsInv, TypeOK
<1>4. Raised' \subseteq Raised \cup {g}
  BY <1>3 DEF Raised
<1>5. AtMost(Raised \cup {g}, MAX_ERRORS)
  BY AtMostAdd, Times DEF Error, ErrorFits, MapsInv
<1>6. AtMost(Raised', MAX_ERRORS)
  BY <1>4, <1>5, AtMostSubset, Times
<1>7. AtMost(AddRoute(errors[g].routes, r), MAX_ENTRY_ROUTES)
  BY AddRouteFits DEF MapsInv
<1>8. \A q \in Sigs : AtMost(errors'[q].routes, MAX_ENTRY_ROUTES)
  BY <1>2, <1>3, <1>7 DEF MapsInv
<1>9. /\ Present(vitals)' = Present(vitals) /\ Present(nav)' = Present(nav)
      /\ Viewed' = Viewed /\ Loaded' = Loaded
  BY <1>1 DEF Present, Viewed, Loaded
<1>. QED
  BY <1>1, <1>6, <1>8, <1>9 DEF MapsInv, Held, AtMost

\* prune() removes no key but an error's.
LEMMA PruneMaps ==
  ASSUME MapsInv, TypeOK', PruneAll
  PROVE  MapsInv'
<1>. DEFINE cutoff == now - RETENTION
<1>1. TypeOK /\ cutoff \in Int
  BY Times DEF MapsInv, TypeOK
<1>2. \A s \in Rolling : Prune(s, cutoff).pushed = s.pushed
  BY <1>1, PruneKeeps
<1>3. Present(vitals)' = Present(vitals)
  <2>1. \A r \in AnyRoute : /\ DOMAIN vitals'[r] = DOMAIN vitals[r]
                            /\ \A v \in DOMAIN vitals[r] :
                                 vitals'[r][v].pushed = vitals[r][v].pushed
    BY <1>1, <1>2 DEF PruneAll, PruneRow, TypeOK
  <2>. QED
    BY <2>1 DEF Present
<1>4. Present(nav)' = Present(nav)
  <2>1. \A r \in AnyRoute : /\ DOMAIN nav'[r] = DOMAIN nav[r]
                            /\ \A p \in DOMAIN nav[r] :
                                 nav'[r][p].pushed = nav[r][p].pushed
    BY <1>1, <1>2 DEF PruneAll, PruneRow, TypeOK
  <2>. QED
    BY <2>1 DEF Present
<1>5. \A u \in Urls : /\ resources'[u].routes = resources[u].routes
                      /\ resources'[u].count = resources[u].count
  BY <1>1 DEF PruneAll, TypeOK, ResourceEntry
<1>6. Viewed' = Viewed /\ Loaded' = Loaded
  BY <1>5 DEF PruneAll, Viewed, Loaded
<1>7. \A g \in Sigs : errors'[g] \in {NoError, errors[g]}
  BY DEF PruneAll
<1>8. Raised' \subseteq Raised
  BY <1>7 DEF Raised, NoError
<1>9. AtMost(Raised', MAX_ERRORS)
  BY <1>8, AtMostSubset, Times DEF MapsInv
<1>10. \A g \in Sigs : AtMost(errors'[g].routes, MAX_ENTRY_ROUTES)
  BY SMTT(20), <1>7, AtMostEmpty, Times DEF NoError, MapsInv
<1>. QED
  BY <1>3, <1>4, <1>5, <1>6, <1>9, <1>10 DEF MapsInv, Held, AtMost

LEMMA MapsStep == MapsInv /\ [Next]_vars => MapsInv'
<1>. SUFFICES ASSUME MapsInv, [Next]_vars
              PROVE  MapsInv'
  OBVIOUS
<1>1. TypeOK'
  BY NextType DEF MapsInv
<1>2. CASE Malformed \/ Tick \/ UNCHANGED vars
  BY <1>1, <1>2, MapsSame DEF Malformed, Tick, vars, maps
<1>3. CASE \E d \in Devices, s \in Sessions \cup {NoSession}, n \in 0 .. MaxLength : Receive(d, s, n)
  BY <1>1, <1>3, MapsSame DEF Receive
<1>4. CASE Return
  BY <1>1, <1>4, MapsSame, PruneMaps DEF Return, maps
<1>5. CASE Iteration
  BY <1>1, <1>5, IterationRecords, MapsSame, VitalMaps, NavMaps, ViewMaps, ResourceMaps, ErrorMaps
     DEF MapsInv, ViewRecorded, ResourceRecorded
<1>. QED
  BY <1>1, <1>2, <1>3, <1>4, <1>5, NextSplits

LEMMA MapsInvariant == Spec => []MapsInv
BY MapsInit, MapsStep, PTL DEF Spec

\* The Maps keep to their limits (rum.ts:118, 133, 149, 176).
THEOREM MapsStayBounded == Spec => []MapsBounded
<1>1. MapsInv => MapsBounded
  BY DEF MapsInv, MapsBounded, Held, AtMost
<1>. QED
  BY <1>1, MapsInvariant, PTL

\* The overflow route is used only when the Map is full (rum.ts:176-182).
THEOREM OverflowIsLast == Spec => []OverflowOnlyWhenFull
<1>1. MapsInv => OverflowOnlyWhenFull
  BY DEF MapsInv, OverflowOnlyWhenFull, Held
<1>. QED
  BY <1>1, MapsInvariant, PTL

-----------------------------------------------------------------------------
(***************************************************************************)
(* The refinement: the aggregator implements SampleWindows, for every      *)
(* limit, key set, retention and sequence of beacons.                      *)
(***************************************************************************)

\* Arrival times of a key, up to a time.
History(times, time) ==
  /\ times \in Seq(Nat)
  /\ \A i \in 1 .. Len(times) : times[i] <= time
  /\ \A i, j \in 1 .. Len(times) : i <= j => times[i] <= times[j]

Window(times, c) ==
  {[n |-> i, t |-> times[i]] :
     i \in {j \in 1 .. Len(times) : j > Len(times) - MAX_SAMPLES_PER_KEY /\ times[j] >= c}}

\* A buffer that holds the samples numbered lo to hi holds hi - lo + 1 of them.
LEMMA RunLength ==
  ASSUME NEW lo \in Nat, NEW hi \in Nat, lo <= hi, NEW S \in SUBSET Sample,
         \A x \in S : x.n \in lo .. hi,
         \A i \in lo .. hi : \E x \in S : x.n = i,
         \A x, y \in S : x.n = y.n => x = y
  PROVE  IsFiniteSet(S) /\ Cardinality(S) = hi - lo + 1
<1>1. IsFiniteSet(lo .. hi) /\ Cardinality(lo .. hi) = hi - lo + 1
  BY FS_Interval
<1>. DEFINE pick == [i \in lo .. hi |-> CHOOSE x \in S : x.n = i]
<1>2. \A i \in lo .. hi : pick[i] \in S /\ pick[i].n = i
  OBVIOUS
<1>3. pick \in [lo .. hi -> S]
  BY <1>2
<1>4. \A i, j \in lo .. hi : pick[i] = pick[j] => i = j
  BY <1>2
<1>5. \A x \in S : \E i \in lo .. hi : pick[i] = x
  BY <1>2
<1>6. pick \in Bijection(lo .. hi, S)
  BY <1>3, <1>4, <1>5, Fun_IsBij
<1>7. ExistsBijection(lo .. hi, S)
  BY <1>6 DEF ExistsBijection
<1>. QED
  BY <1>1, <1>7, FS_Bijection

\* The windows of a history are runs of its latest numbers.
LEMMA WindowRun ==
  ASSUME NEW times, NEW time \in Nat, History(times, time), NEW c \in Nat,
         NEW j \in 1 .. Len(times), times[j] >= c,
         NEW i \in j .. Len(times)
  PROVE  i \in 1 .. Len(times) /\ times[i] >= c /\ times[i] \in Nat
<1>1. Len(times) \in Nat /\ \A k \in 1 .. Len(times) : times[k] \in Nat
  BY DEF History
<1>2. i \in 1 .. Len(times) /\ times[j] <= times[i]
  BY <1>1 DEF History
<1>. QED
  BY <1>1, <1>2

\* A push shows the latest samples again.
LEMMA PushWindow ==
  ASSUME NEW times, NEW t \in Nat, History(times, t), NEW c \in Nat, c <= t,
         NEW s \in Rolling, s.pushed = Len(times), s.kept = Window(times, c)
  PROVE  Push(s, t).kept = Window(Append(times, t), c)
<1>. DEFINE N == MAX_SAMPLES_PER_KEY
<1>1. PICK L \in Nat : L = Len(times)
  BY DEF History
<1>2. PICK more : more = Append(times, t)
  OBVIOUS
<1>3. /\ Len(more) = L + 1 /\ more[L + 1] = t
      /\ \A i \in 1 .. L : more[i] = times[i] /\ times[i] \in Nat
  BY <1>1, <1>2 DEF History
<1>4. PICK x : x = [n |-> L + 1, t |-> t]
  OBVIOUS
<1>5. PICK grown : grown = s.kept \cup {x}
  OBVIOUS
<1>6. /\ grown \subseteq Sample
      /\ Oldest(grown) \in grown /\ \A y \in grown : Oldest(grown).n <= y.n
  BY <1>1, <1>4, <1>5, GrownType
<1>7. Push(s, t).kept = IF Cardinality(grown) > N THEN grown \ {Oldest(grown)} ELSE grown
  BY <1>1, <1>4, <1>5 DEF Push
<1>8. PICK J : J = {j \in 1 .. L : j > L - N /\ times[j] >= c}
  OBVIOUS
<1>9. s.kept = {[n |-> i, t |-> times[i]] : i \in J}
  BY <1>1, <1>8 DEF Window
<1>10. PICK D : D = J \cup {L + 1}
  OBVIOUS
<1>11. PICK At : At = [i \in 1 .. L + 1 |-> [n |-> i, t |-> more[i]]]
  OBVIOUS
<1>12. \A i \in 1 .. L + 1 : At[i] = [n |-> i, t |-> more[i]] /\ At[i].n = i
  BY <1>11
<1>13. grown = {At[i] : i \in D} /\ D \subseteq 1 .. L + 1
  <2>1. x = At[L + 1]
    BY <1>3, <1>4, <1>12
  <2>2. \A i \in J : [n |-> i, t |-> times[i]] = At[i]
    BY <1>3, <1>8, <1>12
  <2>3. s.kept = {At[i] : i \in J}
    BY <1>9, <2>2
  <2>4. D \subseteq 1 .. L + 1
    BY <1>8, <1>10
  <2>. QED
    BY <1>5, <1>10, <2>1, <2>3, <2>4
<1>14. PICK K : K = {j \in D : j > L + 1 - N}
  OBVIOUS
<1>15. Window(more, c) = {At[i] : i \in K}
  <2>1. {j \in 1 .. Len(more) : j > Len(more) - N /\ more[j] >= c} = K
    BY <1>3, <1>8, <1>10, <1>14, MaxSamplesAssumption
  <2>2. Window(more, c) = {[n |-> i, t |-> more[i]] : i \in K}
    BY <2>1 DEF Window
  <2>3. \A i \in K : [n |-> i, t |-> more[i]] = At[i]
    BY <1>12, <1>13, <1>14
  <2>. QED
    BY <2>2, <2>3
<1>16. PICK lo \in D : \A i \in D : lo <= i
  <2>1. D \subseteq Nat /\ D # {}
    BY <1>10, <1>13
  <2>. QED
    BY <2>1, LeastNumber
<1>17. lo \in Nat /\ lo <= L + 1 /\ lo > L - N
  BY <1>8, <1>10, <1>16, MaxSamplesAssumption
<1>18. D = lo .. L + 1
  <2>1. D \subseteq lo .. L + 1
    BY <1>13, <1>16
  <2>2. ASSUME NEW i \in lo .. L
        PROVE  i \in J
    <3>1. lo \in J /\ i \in 1 .. L /\ i > L - N
      BY <1>8, <1>10, <1>16, <1>17, <2>2, MaxSamplesAssumption
    <3>2. times[i] >= c
      BY <1>1, <1>8, <2>2, <3>1, WindowRun
    <3>. QED
      BY <1>8, <3>1, <3>2
  <2>3. ASSUME NEW i \in lo .. L + 1
        PROVE  i \in D
    <3>1. CASE i = L + 1
      BY <1>10, <3>1
    <3>2. CASE i # L + 1
      <4>1. i \in lo .. L
        BY <1>17, <2>3, <3>2
      <4>. QED
        BY <1>10, <2>2, <4>1
    <3>. QED
      BY <3>1, <3>2
  <2>. QED
    BY <2>1, <2>3
<1>19. IsFiniteSet(grown) /\ Cardinality(grown) = L + 1 - lo + 1
  <2>1. \A i \in D : At[i] \in grown /\ At[i].n = i
    BY <1>12, <1>13
  <2>2. \A y \in grown : \E i \in D : y = At[i] /\ y.n = i
    <3>1. \A y \in grown : \E i \in D : y = At[i]
      BY <1>13
    <3>. QED
      BY <2>1, <3>1
  <2>3. \A y \in grown : y.n \in lo .. L + 1
    BY <1>18, <2>2
  <2>4. \A i \in lo .. L + 1 : \E y \in grown : y.n = i
    BY <1>18, <2>1
  <2>5. \A y, z \in grown : y.n = z.n => y = z
    BY <2>2
  <2>6. L + 1 \in Nat /\ grown \in SUBSET Sample
    BY <1>6
  <2>. QED
    BY SMTT(20), <1>17, <2>3, <2>4, <2>5, <2>6, RunLength
<1>20. CASE lo > L + 1 - N
  <2>1. Push(s, t).kept = grown
    BY <1>7, <1>17, <1>19, <1>20, MaxSamplesAssumption
  <2>2. \A j \in D : j > L + 1 - N
    BY <1>13, <1>16, <1>17, <1>20, MaxSamplesAssumption
  <2>3. K = D
    BY <1>14, <2>2
  <2>. QED
    BY <1>2, <1>13, <1>15, <2>1, <2>3
<1>21. CASE lo = L + 1 - N
  <2>1. Push(s, t).kept = grown \ {Oldest(grown)}
    BY <1>7, <1>17, <1>19, <1>21, MaxSamplesAssumption
  <2>2. PICK i \in D : Oldest(grown) = At[i]
    BY <1>6, <1>13
  <2>3. i <= lo
    <3>1. At[i].n = i /\ At[lo].n = lo
      BY <1>12, <1>13, <1>16, <2>2
    <3>2. At[lo] \in grown
      BY <1>13, <1>16
    <3>3. At[i].n <= At[lo].n
      BY <1>6, <2>2, <3>2
    <3>. QED
      BY <3>1, <3>3
  <2>4. i = lo
    BY <1>13, <1>16, <1>17, <2>3
  <2>5. K = D \ {lo}
    <3>1. \A j \in D : j > L + 1 - N <=> j # lo
      BY <1>13, <1>16, <1>17, <1>21, MaxSamplesAssumption
    <3>. QED
      BY <1>14, <3>1
  <2>6. \A k \in D : k # lo => At[k] # At[lo]
    BY <1>12, <1>13
  <2>7. grown \ {At[lo]} = {At[k] : k \in D \ {lo}}
    BY <1>13, <2>6
  <2>. QED
    BY <1>2, <1>15, <2>1, <2>2, <2>4, <2>5, <2>7
<1>. QED
  BY <1>17, <1>20, <1>21, MaxSamplesAssumption

\* A prune moves the window's cutoff.
LEMMA PruneWindow ==
  ASSUME NEW times, NEW time \in Nat, History(times, time), NEW c \in Nat, NEW d \in Nat, c <= d,
         NEW s \in Rolling, s.kept = Window(times, c)
  PROVE  Prune(s, d).kept = Window(times, d)
<1>1. \A i \in 1 .. Len(times) : times[i] \in Nat
  BY DEF History
<1>2. Prune(s, d).kept = {x \in Window(times, c) : x.t >= d}
  BY DEF Prune, Rolling
<1>. QED
  BY <1>1, <1>2 DEF Window

\* A cutoff before the first moment forgets nothing.
LEMMA PruneNothing ==
  ASSUME NEW s \in Rolling, NEW d \in Int, NEW c \in Nat, d <= c, Since(s, c)
  PROVE  Prune(s, d) = s
<1>1. \A x \in s.kept : x.t \in Nat /\ x.t >= c
  BY DEF Rolling, Sample, Since
<1>2. {x \in s.kept : x.t >= d} = s.kept
  BY <1>1
<1>. QED
  BY <1>2 DEF Prune, Rolling

LEMMA HistoryGrows ==
  ASSUME NEW times, NEW t \in Nat, History(times, t)
  PROVE  /\ History(Append(times, t), t)
         /\ Len(Append(times, t)) = Len(times) + 1
         /\ \A later \in Nat : t <= later => History(times, later)
<1>1. PICK L \in Nat : L = Len(times)
  BY DEF History
<1>2. PICK more : more = Append(times, t)
  OBVIOUS
<1>3. /\ Len(more) = L + 1 /\ more[L + 1] = t /\ more \in Seq(Nat)
      /\ \A i \in 1 .. L : more[i] = times[i] /\ times[i] \in Nat
  BY <1>1, <1>2 DEF History
<1>4. \A i \in 1 .. L + 1 : more[i] <= t
  BY <1>1, <1>3 DEF History
<1>5. ASSUME NEW i \in 1 .. L + 1, NEW j \in 1 .. L + 1, i <= j
      PROVE  more[i] <= more[j]
  <2>1. CASE j = L + 1
    BY <1>3, <1>4, <2>1
  <2>2. CASE j # L + 1
    <3>1. i \in 1 .. L /\ j \in 1 .. L
      BY <1>5, <2>2
    <3>2. times[i] <= times[j]
      BY <1>1, <1>5, <3>1 DEF History
    <3>. QED
      BY <1>3, <3>1, <3>2
  <2>. QED
    BY <2>1, <2>2
<1>6. History(more, t)
  BY <1>3, <1>4, <1>5 DEF History
<1>7. \A later \in Nat : t <= later => History(times, later)
  BY DEF History
<1>. QED
  BY <1>1, <1>2, <1>3, <1>6, <1>7

LEMMA NoHistory ==
  /\ History(<<>>, 0) /\ Window(<<>>, 0) = {} /\ Len(<<>>) = 0
BY DEF History, Window

-----------------------------------------------------------------------------
(***************************************************************************)
(* One buffer against the history of its key.                              *)
(***************************************************************************)

Fits(s, times, c, time) ==
  /\ s \in Rolling /\ History(times, time)
  /\ s.pushed = Len(times) /\ s.kept = Window(times, c)

LEMMA FitsPush ==
  ASSUME NEW s, NEW times, NEW a \in Nat, NEW b \in Nat, a <= b, NEW c \in Nat, c <= a,
         Fits(s, times, c, a)
  PROVE  /\ Push(s, a).pushed > s.pushed
         /\ Fits(Push(s, a), Append(times, a), c, b)
<1>1. Push(s, a).pushed = s.pushed + 1 /\ s.pushed \in Nat
  BY DEF Push, Fits, Rolling
<1>2. Push(s, a) \in Rolling /\ Push(s, a).kept = Window(Append(times, a), c)
  BY PushType, PushWindow DEF Fits
<1>3. History(Append(times, a), a) /\ Len(Append(times, a)) = Len(times) + 1
  BY HistoryGrows DEF Fits
<1>4. History(Append(times, a), b)
  BY <1>3, HistoryGrows
<1>. QED
  BY <1>1, <1>2, <1>3, <1>4 DEF Fits

LEMMA FitsPrune ==
  ASSUME NEW s, NEW times, NEW a \in Nat, NEW c \in Nat, NEW d \in Int, Fits(s, times, c, a)
  PROVE  /\ Prune(s, d).pushed = s.pushed
         /\ Fits(Prune(s, d), times, IF d > c THEN d ELSE c, a)
<1>1. Prune(s, d).pushed = s.pushed /\ Prune(s, d) \in Rolling
  BY PruneKeeps DEF Fits
<1>2. CASE d > c
  BY <1>1, <1>2, PruneWindow DEF Fits
<1>3. CASE d <= c
  <2>1. Since(s, c)
    BY DEF Fits, Window, Since
  <2>. QED
    BY <1>3, <2>1, PruneNothing DEF Fits
<1>. QED
  BY <1>1, <1>2, <1>3

LEMMA FitsLater ==
  ASSUME NEW s, NEW times, NEW a \in Nat, NEW b \in Nat, a <= b, NEW c, Fits(s, times, c, a)
  PROVE  Fits(s, times, c, b)
BY HistoryGrows DEF Fits

\* Every arrival is at a time the clock can show.
LEMMA HistoryBounded ==
  ASSUME NEW times, NEW time \in Nat, time <= MaxTime, History(times, time)
  PROVE  times \in Seq(0 .. MaxTime)
<1>1. Len(times) \in Nat /\ \A i \in 1 .. Len(times) : times[i] \in Nat /\ times[i] <= time
  BY DEF History
<1>2. \A i \in 1 .. Len(times) : times[i] \in 0 .. MaxTime
  BY <1>1, BoundsAssumption
<1>3. times \in [1 .. Len(times) -> 0 .. MaxTime]
  BY <1>2 DEF History
<1>. QED
  BY <1>1, <1>3, SeqDef

-----------------------------------------------------------------------------
(***************************************************************************)
(* The buffers of the aggregator, all at once.                             *)
(***************************************************************************)

\* A key names one buffer, before and after a step.
LEMMA KeyNames ==
  /\ \A k \in Keys :
       \/ \E r \in AnyRoute, v \in Vitals : Buffer(k) = vitals[r][v] /\ Buffer(k)' = vitals'[r][v]
       \/ \E r \in AnyRoute, q \in Phases : Buffer(k) = nav[r][q] /\ Buffer(k)' = nav'[r][q]
       \/ \E u \in Urls : Buffer(k) = resources[u].times /\ Buffer(k)' = resources'[u].times
  /\ \A k \in ViewKeys : \E r \in Routes :
       Buffer(k) = views[r].durations /\ Buffer(k)' = views'[r].durations
<1>1. ASSUME NEW k \in Keys
      PROVE  \/ \E r \in AnyRoute, v \in Vitals : Buffer(k) = vitals[r][v] /\ Buffer(k)' = vitals'[r][v]
             \/ \E r \in AnyRoute, q \in Phases : Buffer(k) = nav[r][q] /\ Buffer(k)' = nav'[r][q]
             \/ \E u \in Urls : Buffer(k) = resources[u].times /\ Buffer(k)' = resources'[u].times
  <2>1. \/ k.map = "vital" /\ k.route \in AnyRoute /\ k.name \in Vitals
        \/ k.map = "nav" /\ k.route \in AnyRoute /\ k.name \in Phases
        \/ k.map = "resource" /\ k.url \in Urls
    BY <1>1 DEF Keys
  <2>2. /\ k.map = "vital" => Buffer(k) = vitals[k.route][k.name] /\ Buffer(k)' = vitals'[k.route][k.name]
        /\ k.map = "nav" => Buffer(k) = nav[k.route][k.name] /\ Buffer(k)' = nav'[k.route][k.name]
        /\ k.map = "resource" => Buffer(k) = resources[k.url].times /\ Buffer(k)' = resources'[k.url].times
    BY DEF Buffer
  <2>. QED
    BY <2>1, <2>2
<1>2. ASSUME NEW k \in ViewKeys
      PROVE  \E r \in Routes : Buffer(k) = views[r].durations /\ Buffer(k)' = views'[r].durations
  <2>1. k.map = "view" /\ k.route \in Routes
    BY <1>2 DEF ViewKeys
  <2>2. Buffer(k) = views[k.route].durations /\ Buffer(k)' = views'[k.route].durations
    BY <2>1 DEF Buffer
  <2>. QED
    BY <2>1, <2>2
<1>. QED
  BY <1>1, <1>2

\* A step pushes to buffers at the current time, or is a prune of all but the
\* durations of views.
LEMMA BuffersMove ==
  ASSUME TypeOK, [Next]_vars
  PROVE  \/ /\ \A k \in Keys \cup ViewKeys : Grows(Buffer(k), Buffer(k)')
            /\ lastPrune' = lastPrune /\ now' \in {now, now + 1}
         \/ /\ \A k \in Keys : Buffer(k)' = Prune(Buffer(k), now - RETENTION)
            /\ \A k \in ViewKeys : Buffer(k)' = Buffer(k)
            /\ lastPrune' # lastPrune /\ now' = now
<1>1. CASE GrowsOnly
  BY <1>1, KeyNames DEF GrowsOnly
<1>2. CASE Return /\ PrunesAll
  <2>1. now \in Nat /\ lastPrune \in Nat
    BY DEF TypeOK
  <2>2. CASE now - lastPrune > PRUNE_PERIOD
    <3>1. lastPrune' = now /\ now' = now /\ lastPrune' # lastPrune
      BY <1>2, <2>1, <2>2, Times DEF PrunesAll
    <3>. QED
      BY <1>2, <3>1, KeyNames DEF PrunesAll
  <2>3. CASE ~(now - lastPrune > PRUNE_PERIOD)
    <3>1. GrowsOnly
      BY <1>2, <2>3, Unmoved DEF Return, maps
    <3>. QED
      BY <1>1, <3>1
  <2>. QED
    BY <2>2, <2>3
<1>. QED
  BY <1>1, <1>2, StepShape

\* The inductive invariant of the refinement.
WindowInv ==
  /\ TypeOK
  /\ now <= MaxTime
  /\ horizon \in Nat /\ horizon <= now
  /\ log = [k \in Keys \cup ViewKeys |-> log[k]]
  /\ \A k \in Keys : Fits(Buffer(k), log[k], horizon, now)
  /\ \A k \in ViewKeys : Fits(Buffer(k), log[k], 0, now)

LEMMA WindowInitial == WindowInit => WindowInv
<1>. SUFFICES ASSUME WindowInit
              PROVE  WindowInv
  OBVIOUS
<1>1. TypeOK /\ now = 0 /\ horizon = 0 /\ now <= MaxTime
  BY InitType, BoundsAssumption DEF WindowInit, Init
<1>2. log = [k \in Keys \cup ViewKeys |-> <<>>]
  BY DEF WindowInit
<1>3. ASSUME NEW k \in Keys \cup ViewKeys
      PROVE  Buffer(k) = Empty /\ log[k] = <<>>
  BY <1>2, KeyNames DEF WindowInit, Init, NoView, NoResource
<1>4. Fits(Empty, <<>>, 0, 0)
  BY EmptyGood, NoHistory DEF Fits, Empty
<1>. QED
  BY <1>1, <1>2, <1>3, <1>4 DEF WindowInv

\* What a step of the aggregator does to one key, its history and the horizon.
LEMMA WindowMoves ==
  ASSUME WindowInv, [WindowNext]_windowVars
  PROVE  /\ TypeOK' /\ now' \in Nat /\ now <= now' /\ now' <= MaxTime
         /\ log' = [k \in Keys \cup ViewKeys |-> log'[k]]
         /\ \/ /\ horizon' = horizon
               /\ \A k \in Keys \cup ViewKeys :
                    \/ Buffer(k)' = Buffer(k) /\ log'[k] = log[k]
                    \/ Buffer(k)' = Push(Buffer(k), now) /\ log'[k] = Append(log[k], now)
            \/ /\ horizon' = IF now - RETENTION > horizon THEN now - RETENTION ELSE horizon
               /\ \A k \in Keys \cup ViewKeys : log'[k] = log[k]
               /\ \A k \in Keys : Buffer(k)' = Prune(Buffer(k), now - RETENTION)
               /\ \A k \in ViewKeys : Buffer(k)' = Buffer(k)
<1>. DEFINE All == Keys \cup ViewKeys
<1>0. TypeOK /\ now \in Nat /\ horizon \in Nat /\ horizon <= now /\ now <= MaxTime
  BY DEF WindowInv, TypeOK
<1>1. [Next]_vars
  BY DEF WindowNext, windowVars
<1>2. TypeOK' /\ now' \in Nat
  BY <1>0, <1>1, NextType DEF TypeOK
<1>3. now <= now' /\ now' <= MaxTime
  <2>1. CASE Tick
    BY <1>0, <2>1, BoundsAssumption DEF Tick
  <2>2. CASE ~Tick
    <3>1. Iteration => now' = now
      BY <1>0, IterationTurns DEF Turned
    <3>2. now' = now
      BY <1>1, <2>2, <3>1, NextSplits DEF Malformed, Return, Receive, vars
    <3>. QED
      BY <1>0, <3>2
  <2>. QED
    BY <2>1, <2>2
<1>4. \A k \in All : Buffer(k).pushed \in Nat
  BY DEF WindowInv, Fits, Rolling
<1>5. CASE UNCHANGED windowVars
  <2>1. UNCHANGED vars /\ log' = log /\ horizon' = horizon
    BY <1>5 DEF windowVars
  <2>2. \A k \in All : Buffer(k)' = Buffer(k)
    BY <2>1 DEF vars, Buffer
  <2>. QED
    BY <1>2, <1>3, <2>1, <2>2 DEF WindowInv
<1>6. CASE WindowNext
  <2>1. log' = [k \in All |-> Logged(k)]
    BY <1>6 DEF WindowNext
  <2>2. \A k \in All : log'[k] = Logged(k)
    BY <2>1
  <2>3. CASE /\ \A k \in All : Grows(Buffer(k), Buffer(k)')
             /\ lastPrune' = lastPrune
    <3>1. horizon' = horizon
      BY <1>6, <2>3 DEF WindowNext
    <3>2. ASSUME NEW k \in All
          PROVE  \/ Buffer(k)' = Buffer(k) /\ log'[k] = log[k]
                 \/ Buffer(k)' = Push(Buffer(k), now) /\ log'[k] = Append(log[k], now)
      <4>1. CASE Buffer(k)' = Buffer(k)
        BY <1>4, <2>2, <4>1 DEF Logged
      <4>2. CASE Buffer(k)' = Push(Buffer(k), now)
        <5>1. Push(Buffer(k), now).pushed > Buffer(k).pushed
          BY <1>4 DEF Push
        <5>. QED
          BY <2>2, <4>2, <5>1 DEF Logged
      <4>. QED
        BY <2>3, <4>1, <4>2 DEF Grows
    <3>. QED
      BY <1>2, <1>3, <2>1, <2>2, <3>1, <3>2
  <2>4. CASE /\ \A k \in Keys : Buffer(k)' = Prune(Buffer(k), now - RETENTION)
             /\ \A k \in ViewKeys : Buffer(k)' = Buffer(k)
             /\ lastPrune' # lastPrune
    <3>1. horizon' = IF now - RETENTION > horizon THEN now - RETENTION ELSE horizon
      BY <1>6, <2>4 DEF WindowNext
    <3>2. \A k \in All : Buffer(k)'.pushed = Buffer(k).pushed
      BY <2>4 DEF Prune, WindowInv, Fits, Rolling
    <3>3. \A k \in All : log'[k] = log[k]
      BY <1>4, <2>2, <3>2 DEF Logged
    <3>. QED
      BY <1>2, <1>3, <2>1, <2>2, <2>4, <3>1, <3>3
  <2>. QED
    BY <1>0, <1>1, <2>3, <2>4, BuffersMove
<1>. QED
  BY <1>5, <1>6

LEMMA WindowStep == WindowInv /\ [WindowNext]_windowVars => WindowInv'
<1>. SUFFICES ASSUME WindowInv, [WindowNext]_windowVars
              PROVE  WindowInv'
  OBVIOUS
<1>1. /\ TypeOK' /\ now' \in Nat /\ now <= now' /\ now' <= MaxTime
      /\ log' = [k \in Keys \cup ViewKeys |-> log'[k]]
  BY WindowMoves
<1>2. now \in Nat /\ now - RETENTION \in Int /\ now - RETENTION <= now
      /\ horizon \in Nat /\ horizon <= now
  BY Times DEF WindowInv, TypeOK
<1>3. horizon' \in Nat /\ horizon' <= now'
  BY <1>1, <1>2, WindowMoves
<1>4. \A k \in Keys : Fits(Buffer(k), log[k], horizon, now)
  BY DEF WindowInv
<1>5. \A k \in ViewKeys : Fits(Buffer(k), log[k], 0, now)
  BY DEF WindowInv
<1>6. ASSUME NEW k \in Keys
      PROVE  Fits(Buffer(k)', log'[k], horizon', now')
  <2>1. CASE horizon' = horizon /\ Buffer(k)' = Buffer(k) /\ log'[k] = log[k]
    BY <1>1, <1>2, <1>4, <2>1, FitsLater
  <2>2. CASE /\ horizon' = horizon
             /\ Buffer(k)' = Push(Buffer(k), now) /\ log'[k] = Append(log[k], now)
    BY <1>1, <1>2, <1>4, <2>2, FitsPush
  <2>3. CASE /\ horizon' = IF now - RETENTION > horizon THEN now - RETENTION ELSE horizon
             /\ Buffer(k)' = Prune(Buffer(k), now - RETENTION) /\ log'[k] = log[k]
    <3>1. Fits(Buffer(k)', log[k], horizon', now)
      BY <1>2, <1>4, <2>3, FitsPrune
    <3>. QED
      BY <1>1, <1>2, <2>3, <3>1, FitsLater
  <2>. QED
    BY <2>1, <2>2, <2>3, WindowMoves
<1>7. ASSUME NEW k \in ViewKeys
      PROVE  Fits(Buffer(k)', log'[k], 0, now')
  <2>1. CASE Buffer(k)' = Buffer(k) /\ log'[k] = log[k]
    BY <1>1, <1>2, <1>5, <2>1, FitsLater
  <2>2. CASE Buffer(k)' = Push(Buffer(k), now) /\ log'[k] = Append(log[k], now)
    BY <1>1, <1>2, <1>5, <2>2, FitsPush
  <2>. QED
    BY <2>1, <2>2, WindowMoves
<1>. QED
  BY <1>1, <1>3, <1>6, <1>7 DEF WindowInv

LEMMA WindowInvariant == WindowSpec => []WindowInv
BY WindowInitial, WindowStep, PTL DEF WindowSpec

-----------------------------------------------------------------------------
LEMMA LatestIsWindow ==
  ASSUME NEW times, NEW c
  PROVE  Pruned!Latest(times, c) = Window(times, c) /\ Durations!Latest(times, c) = Window(times, c)
BY DEF Pruned!Latest, Durations!Latest, Window

\* The buffers show what the invariant says.
LEMMA PrunedShown == WindowInv => Pruned!Shown
BY LatestIsWindow DEF WindowInv, Fits, Pruned!Shown

LEMMA DurationsShown == WindowInv => Durations!Shown
BY LatestIsWindow DEF WindowInv, Fits, Durations!Shown

\* The sample buffers that prune() visits implement bounded, aging windows
\* (rum.ts:26-32, 192-195).
THEOREM PrunedImplemented == WindowSpec => PrunedWindows
<1>1. WindowInit => Pruned!Init
  <2>. SUFFICES ASSUME WindowInit
                PROVE  Pruned!Init
    OBVIOUS
  <2>1. Pruned!Shown
    BY WindowInitial, PrunedShown
  <2>2. horizon = 0 /\ [k \in Keys |-> log[k]] = [k \in Keys |-> <<>>]
    BY DEF WindowInit
  <2>. QED
    BY <2>1, <2>2 DEF Pruned!Init
<1>2. WindowInv /\ WindowInv' /\ [WindowNext]_windowVars
        => [Pruned!Next]_<<[k \in Keys |-> log[k]], horizon, [k \in Keys |-> Buffer(k).kept]>>
  <2>. SUFFICES ASSUME WindowInv, WindowInv', [WindowNext]_windowVars
                PROVE  Pruned!Next
    OBVIOUS
  <2>. DEFINE arr == [k \in Keys |-> log[k]]
  <2>1. Pruned!Shown'
    BY PrunedShown, PTL
  <2>2. CASE horizon' = horizon
    <3>1. \A k \in Keys : log'[k] = log[k] \/ log'[k] = Append(log[k], now)
      BY WindowMoves
    <3>2. \A k \in Keys : log'[k] \in Seq(0 .. MaxTime)
      BY HistoryBounded DEF WindowInv, Fits, TypeOK
    <3>3. PICK time \in 0 .. MaxTime : time = now
      BY BoundsAssumption DEF WindowInv, TypeOK
    <3>4. Pruned!Arrive(time)
      BY <2>2, <3>1, <3>2, <3>3 DEF Pruned!Arrive
    <3>5. \E a \in 0 .. MaxTime : Pruned!Arrive(a)
      BY <3>3, <3>4
    <3>. QED
      BY <2>1, <3>5, Zenon DEF Pruned!Next
  <2>3. CASE horizon' # horizon
    <3>1. horizon' > horizon /\ \A k \in Keys : log'[k] = log[k]
      BY <2>3, WindowMoves, Times DEF WindowInv, TypeOK
    <3>2. Pruned!Forget
      BY <3>1 DEF Pruned!Forget
    <3>. QED
      BY <2>1, <3>2 DEF Pruned!Next
  <2>. QED
    BY <2>2, <2>3
<1>. QED
  BY <1>1, <1>2, WindowInvariant, PTL DEF WindowSpec, PrunedWindows, Pruned!Spec

\* The durations of views implement windows that never age (rum.ts:26-29, 121).
THEOREM DurationsImplemented == WindowSpec => DurationWindows
<1>1. WindowInit => Durations!Init
  <2>. SUFFICES ASSUME WindowInit
                PROVE  Durations!Init
    OBVIOUS
  <2>1. Durations!Shown
    BY WindowInitial, DurationsShown
  <2>2. [k \in ViewKeys |-> log[k]] = [k \in ViewKeys |-> <<>>]
    BY DEF WindowInit
  <2>. QED
    BY <2>1, <2>2 DEF Durations!Init
<1>2. WindowInv /\ WindowInv' /\ [WindowNext]_windowVars
        => [Durations!Next]_<<[k \in ViewKeys |-> log[k]], 0, [k \in ViewKeys |-> Buffer(k).kept]>>
  <2>. SUFFICES ASSUME WindowInv, WindowInv', [WindowNext]_windowVars
                PROVE  Durations!Next
    OBVIOUS
  <2>1. Durations!Shown'
    BY DurationsShown, PTL
  <2>2. \A k \in ViewKeys : log'[k] = log[k] \/ log'[k] = Append(log[k], now)
    BY WindowMoves
  <2>3. \A k \in ViewKeys : log'[k] \in Seq(0 .. MaxTime)
    BY HistoryBounded DEF WindowInv, Fits, TypeOK
  <2>4. PICK time \in 0 .. MaxTime : time = now
    BY BoundsAssumption DEF WindowInv, TypeOK
  <2>5. Durations!Arrive(time)
    BY <2>2, <2>3, <2>4 DEF Durations!Arrive
  <2>6. \E a \in 0 .. MaxTime : Durations!Arrive(a)
    BY <2>4, <2>5
  <2>. QED
    BY <2>1, <2>6, Zenon DEF Durations!Next
<1>. QED
  BY <1>1, <1>2, WindowInvariant, PTL DEF WindowSpec, DurationWindows, Durations!Spec
-----------------------------------------------------------------------------
(***************************************************************************)
(* What the reports say of errors and resources.                           *)
(***************************************************************************)

\* An entry of errors, and one of resources; there is nothing in an entry that
\* is not in its Map.
Sighted(e, time) ==
  /\ e.count = 0 => e = NoError
  /\ e.count > 0 => /\ e.first <= e.last /\ e.last <= time
                    /\ e.count = 1 => e.first = e.last
                    /\ IsFiniteSet(e.routes) /\ Cardinality(e.routes) \in 1 .. e.count

Fetched(r) ==
  /\ IsFiniteSet(r.times.kept) /\ Cardinality(r.times.kept) <= r.count
  /\ r.errors <= r.count
  /\ r.count = 0 => r.routes = {}
  /\ r.count > 0 => IsFiniteSet(r.routes) /\ Cardinality(r.routes) \in 1 .. r.count

EntriesInv ==
  /\ TypeOK
  /\ \A g \in Sigs : Sighted(errors[g], now)
  /\ \A u \in Urls : Fetched(resources[u])

\* A route more, but never more routes than sightings.
LEMMA RoutesCounted ==
  ASSUME NEW S, NEW n \in Nat, NEW r,
         n = 0 => S = {},
         n > 0 => IsFiniteSet(S) /\ Cardinality(S) \in 1 .. n
  PROVE  IsFiniteSet(AddRoute(S, r)) /\ Cardinality(AddRoute(S, r)) \in 1 .. n + 1
<1>1. IsFiniteSet(S) /\ Cardinality(S) \in 0 .. n
  BY FS_EmptySet
<1>2. IsFiniteSet(S \cup {r}) /\ Cardinality(S \cup {r}) \in 1 .. n + 1
  <2>1. CASE r \in S
    <3>1. S \cup {r} = S /\ n > 0
      BY <2>1
    <3>. QED
      BY <3>1
  <2>2. CASE r \notin S
    BY <1>1, <2>2, FS_AddElement
  <2>. QED
    BY <2>1, <2>2
<1>3. CASE Cardinality(S) < MAX_ENTRY_ROUTES
  BY <1>2, <1>3 DEF AddRoute
<1>4. CASE ~(Cardinality(S) < MAX_ENTRY_ROUTES)
  <2>1. n > 0
    BY <1>4, FS_EmptySet, Times
  <2>. QED
    BY <1>1, <1>4, <2>1 DEF AddRoute
<1>. QED
  BY <1>3, <1>4

\* A push adds one sample at most, a prune none.
LEMMA PushCounted ==
  ASSUME NEW s \in Rolling, NEW t \in Nat, NEW n \in Nat, IsFiniteSet(s.kept), Cardinality(s.kept) <= n
  PROVE  IsFiniteSet(Push(s, t).kept) /\ Cardinality(Push(s, t).kept) <= n + 1
<1>1. PICK x : x = [n |-> s.pushed + 1, t |-> t]
  OBVIOUS
<1>2. PICK grown : grown = s.kept \cup {x}
  OBVIOUS
<1>3. IsFiniteSet(grown) /\ Cardinality(grown) <= n + 1 /\ Cardinality(grown) \in Nat
  <2>1. Cardinality(s.kept) \in Nat
    BY FS_CardinalityType
  <2>2. IsFiniteSet(grown) /\ Cardinality(grown) \in {Cardinality(s.kept), Cardinality(s.kept) + 1}
    BY <1>2, FS_AddElement
  <2>. QED
    BY <2>1, <2>2
<1>4. \A y : IsFiniteSet(grown \ {y}) /\ Cardinality(grown \ {y}) <= n + 1
  BY <1>3, FS_Subset, FS_CardinalityType
<1>5. Push(s, t).kept = IF Cardinality(grown) > MAX_SAMPLES_PER_KEY
                        THEN grown \ {Oldest(grown)} ELSE grown
  BY <1>1, <1>2 DEF Push
<1>. QED
  BY <1>3, <1>4, <1>5

LEMMA PruneCounted ==
  ASSUME NEW s \in Rolling, NEW c \in Int, NEW n \in Nat, IsFiniteSet(s.kept), Cardinality(s.kept) <= n
  PROVE  IsFiniteSet(Prune(s, c).kept) /\ Cardinality(Prune(s, c).kept) <= n
<1>1. Prune(s, c).kept \subseteq s.kept
  BY DEF Prune, Rolling
<1>. QED
  BY <1>1, FS_Subset, FS_CardinalityType

LEMMA EntriesInit == Init => EntriesInv
<1>. SUFFICES ASSUME Init
              PROVE  EntriesInv
  OBVIOUS
<1>1. \A g \in Sigs : Sighted(errors[g], now)
  BY DEF Init, Sighted, NoError
<1>2. \A u \in Urls : Fetched(resources[u])
  <2>1. /\ NoResource.count = 0 /\ NoResource.errors = 0 /\ NoResource.routes = {}
        /\ NoResource.times.kept = {}
    BY DEF NoResource, Empty
  <2>2. Fetched(NoResource)
    BY <2>1, FS_EmptySet DEF Fetched
  <2>. QED
    BY <2>2 DEF Init
<1>. QED
  BY <1>1, <1>2, InitType DEF EntriesInv

LEMMA ErrorEntries ==
  ASSUME EntriesInv, NEW g \in Sigs, NEW r \in Routes, Error(g, r), now' = now
  PROVE  \A h \in Sigs : Sighted(errors'[h], now')
<1>1. PICK e : e = [count  |-> errors[g].count + 1,
                    first  |-> IF g \in Raised THEN errors[g].first ELSE now,
                    last   |-> now,
                    routes |-> AddRoute(errors[g].routes, r)]
  OBVIOUS
<1>2. errors' = [errors EXCEPT ![g] = e] /\ errors \in [Sigs -> ErrorEntry]
  BY <1>1 DEF Error, EntriesInv, TypeOK
<1>3. errors[g].count \in Nat /\ errors[g].first \in Nat /\ errors[g].last \in Nat /\ now \in Nat
  BY <1>2 DEF ErrorEntry, EntriesInv, TypeOK
<1>4. /\ IsFiniteSet(AddRoute(errors[g].routes, r))
      /\ Cardinality(AddRoute(errors[g].routes, r)) \in 1 .. errors[g].count + 1
  <2>1. Sighted(errors[g], now)
    BY DEF EntriesInv
  <2>2. errors[g].count = 0 => errors[g].routes = {}
    BY <2>1 DEF Sighted, NoError
  <2>3. errors[g].count > 0 => /\ IsFiniteSet(errors[g].routes)
                               /\ Cardinality(errors[g].routes) \in 1 .. errors[g].count
    BY <2>1 DEF Sighted
  <2>. QED
    BY <1>3, <2>2, <2>3, RoutesCounted
<1>5. e.first <= now /\ (e.count = 1 => e.first = now) /\ e.last = now
  BY <1>1, <1>3 DEF Raised, EntriesInv, Sighted
<1>6. Sighted(e, now)
  BY <1>1, <1>3, <1>4, <1>5 DEF Sighted
<1>. QED
  BY <1>2, <1>6 DEF EntriesInv

LEMMA ResourceEntries ==
  ASSUME EntriesInv, NEW u \in Urls, NEW f \in BOOLEAN, NEW S,
         RecordResource(u, f, S), ResourceFits(u) \/ u \in Loaded,
         \/ S = resources[u].routes /\ u \in Loaded
         \/ \E r \in Routes : S = AddRoute(resources[u].routes, r)
  PROVE  \A v \in Urls : Fetched(resources'[v])
<1>1. PICK e : e = [count  |-> resources[u].count + 1,
                    errors |-> IF f THEN resources[u].errors + 1 ELSE resources[u].errors,
                    times  |-> Push(resources[u].times, now),
                    routes |-> S]
  OBVIOUS
<1>2. resources' = [resources EXCEPT ![u] = e] /\ resources \in [Urls -> ResourceEntry]
  BY <1>1 DEF RecordResource, EntriesInv, TypeOK
<1>3. /\ resources[u].count \in Nat /\ resources[u].errors \in Nat /\ resources[u].times \in Rolling
      /\ now \in Nat /\ Fetched(resources[u])
  BY <1>2 DEF ResourceEntry, EntriesInv, TypeOK
<1>4. IsFiniteSet(S) /\ Cardinality(S) \in 1 .. resources[u].count + 1
  <2>1. CASE S = resources[u].routes /\ u \in Loaded
    BY <1>3, <2>1 DEF Fetched, Loaded
  <2>2. CASE \E r \in Routes : S = AddRoute(resources[u].routes, r)
    <3>1. resources[u].count = 0 => resources[u].routes = {}
      BY <1>3 DEF Fetched
    <3>2. resources[u].count > 0 => /\ IsFiniteSet(resources[u].routes)
                                    /\ Cardinality(resources[u].routes) \in 1 .. resources[u].count
      BY <1>3 DEF Fetched
    <3>3. PICK r \in Routes : S = AddRoute(resources[u].routes, r)
      BY <2>2
    <3>. QED
      BY <1>3, <3>1, <3>2, <3>3, RoutesCounted
  <2>. QED
    BY <2>1, <2>2
<1>5. IsFiniteSet(e.times.kept) /\ Cardinality(e.times.kept) <= e.count
  BY <1>1, <1>3, PushCounted DEF Fetched
<1>6. Fetched(e)
  BY <1>1, <1>3, <1>4, <1>5 DEF Fetched
<1>. QED
  BY <1>2, <1>6 DEF EntriesInv

LEMMA PruneEntries ==
  ASSUME EntriesInv, PruneAll, now' = now
  PROVE  /\ \A g \in Sigs : Sighted(errors'[g], now')
         /\ \A u \in Urls : Fetched(resources'[u])
<1>1. now - RETENTION \in Int
  BY Times DEF EntriesInv, TypeOK
<1>2. ASSUME NEW g \in Sigs
      PROVE  Sighted(errors'[g], now')
  BY DEF PruneAll, Sighted, NoError, EntriesInv
<1>3. ASSUME NEW u \in Urls
      PROVE  Fetched(resources'[u])
  <2>1. resources[u] \in ResourceEntry /\ Fetched(resources[u])
    BY DEF EntriesInv, TypeOK
  <2>2. /\ resources'[u].times = Prune(resources[u].times, now - RETENTION)
        /\ resources'[u].count = resources[u].count /\ resources'[u].errors = resources[u].errors
        /\ resources'[u].routes = resources[u].routes
    BY <2>1 DEF PruneAll, ResourceEntry
  <2>. QED
    BY <1>1, <2>1, <2>2, PruneCounted DEF Fetched, ResourceEntry
<1>. QED
  BY <1>2, <1>3

LEMMA EntriesStep == EntriesInv /\ [Next]_vars => EntriesInv'
<1>. SUFFICES ASSUME EntriesInv, [Next]_vars
              PROVE  EntriesInv'
  OBVIOUS
<1>1. TypeOK /\ TypeOK'
  BY NextType DEF EntriesInv
<1>2. ASSUME errors' = errors, now' \in {now, now + 1}
      PROVE  \A g \in Sigs : Sighted(errors'[g], now')
  BY <1>1, <1>2 DEF EntriesInv, Sighted, TypeOK, ErrorEntry
<1>3. ASSUME resources' = resources
      PROVE  \A u \in Urls : Fetched(resources'[u])
  BY <1>3 DEF EntriesInv
<1>4. CASE Malformed \/ Tick \/ UNCHANGED vars
  BY <1>1, <1>2, <1>3, <1>4 DEF Malformed, Tick, vars, maps, EntriesInv
<1>5. CASE \E d \in Devices, s \in Sessions \cup {NoSession}, n \in 0 .. MaxLength : Receive(d, s, n)
  BY <1>1, <1>2, <1>3, <1>5 DEF Receive, maps, EntriesInv
<1>6. CASE Return
  BY <1>1, <1>2, <1>3, <1>6, PruneEntries DEF Return, maps, EntriesInv
<1>7. CASE Iteration
  <2>1. now' = now
    BY <1>1, <1>7, IterationTurns DEF Turned
  <2>2. \/ errors' = errors
        \/ \E g \in Sigs, r \in Routes : Error(g, r) /\ resources' = resources
    BY <1>7 DEF Iteration, Skip, Full, Throw, Vital, Nav, NavThrows, View, ViewThrows, RecordNav, RecordView,
                Resource, ResourceThrows, RecordResource, Error, maps
  <2>3. \/ resources' = resources
        \/ \E u \in Urls, r \in Routes, f \in BOOLEAN : Resource(u, r, f)
        \/ \E u \in Urls : ResourceThrows(u)
    BY <1>7 DEF Iteration, Skip, Full, Throw, Vital, Nav, NavThrows, View, ViewThrows, RecordNav, RecordView, Error, maps
  <2>4. \A g \in Sigs : Sighted(errors'[g], now')
    BY <1>2, <2>1, <2>2, ErrorEntries
  <2>5. ASSUME NEW u \in Urls, NEW r \in Routes, NEW f \in BOOLEAN, Resource(u, r, f)
        PROVE  \A v \in Urls : Fetched(resources'[v])
    BY <2>5, ResourceEntries DEF Resource
  <2>6. ASSUME NEW u \in Urls, ResourceThrows(u)
        PROVE  \A v \in Urls : Fetched(resources'[v])
    <3>1. FALSE \in BOOLEAN
      OBVIOUS
    <3>. QED
      BY <2>6, <3>1, ResourceEntries DEF ResourceThrows
  <2>7. \A u \in Urls : Fetched(resources'[u])
    BY <1>3, <2>3, <2>5, <2>6
  <2>. QED
    BY <1>1, <2>4, <2>7 DEF EntriesInv
<1>. QED
  BY <1>4, <1>5, <1>6, <1>7, NextSplits

LEMMA EntriesInvariant == Spec => []EntriesInv
BY EntriesInit, EntriesStep, PTL DEF Spec

\* What the reports say hangs together (rum.ts:127-156).
THEOREM ReportsCohere == Spec => []ReportCoherent
<1>1. EntriesInv => ReportCoherent
  <2>. SUFFICES ASSUME EntriesInv
                PROVE  ReportCoherent
    OBVIOUS
  <2>1. \A g \in Raised : errors[g].count > 0 /\ Sighted(errors[g], now)
    BY DEF EntriesInv, Raised
  <2>2. \A u \in Urls : Fetched(resources[u]) /\ (u \in Loaded => resources[u].count > 0)
    BY DEF EntriesInv, Loaded
  <2>. QED
    BY <2>1, <2>2 DEF ReportCoherent, Sighted, Fetched
<1>. QED
  BY <1>1, EntriesInvariant, PTL

-----------------------------------------------------------------------------
\* RumReport adds to the aggregator what nothing of it looks at.
LEMMA ReportRuns == ReportSpec => Spec
<1>1. ReportInit => Init
  BY DEF ReportInit
<1>2. [ReportNext]_reportVars => [Next]_vars
  <2>. SUFFICES ASSUME [ReportNext]_reportVars
                PROVE  [Next]_vars
    OBVIOUS
  <2>1. CASE Scrape \/ UNCHANGED reportVars
    BY <2>1 DEF Scrape, reportVars
  <2>2. CASE \E u \in Urls, r \in Routes, f \in BOOLEAN : Hit(u, r, f)
    BY <2>2, Zenon DEF Hit, Next
  <2>3. CASE \E g \in Sigs, r \in Routes : Raise(g, r)
    BY <2>3, Zenon DEF Raise, Next
  <2>4. CASE \E u \in Urls : HitThrows(u)
    BY <2>4, Zenon DEF HitThrows, Next
  <2>5. CASE Answer
    BY <2>5, Zenon DEF Answer, Next
  <2>6. CASE Elsewhere
    BY <2>6 DEF Elsewhere
  <2>. QED
    BY <2>1, <2>2, <2>3, <2>4, <2>5, <2>6 DEF ReportNext
<1>. QED
  BY <1>1, <1>2, PTL DEF ReportSpec, Spec

\* The routes an entry remembers, against all that made it.
Remembers(S, all) == S \subseteq all /\ (Cardinality(S) < MAX_ENTRY_ROUTES => all \subseteq S)

FilterInv ==
  /\ \A u \in Urls : Remembers(resources[u].routes, hits[u])
  /\ \A g \in Sigs : Remembers(errors[g].routes, raisers[g])
  /\ hits \in [Urls -> SUBSET Routes] /\ raisers \in [Sigs -> SUBSET Routes]

LEMMA RememberMore ==
  ASSUME NEW S, NEW all, NEW r, Remembers(S, all)
  PROVE  Remembers(AddRoute(S, r), all \cup {r})
BY DEF Remembers, AddRoute

LEMMA FilterInit == ReportInit => FilterInv
BY DEF ReportInit, Init, FilterInv, Remembers, NoResource, NoError

LEMMA HitFilter ==
  ASSUME TypeOK, FilterInv, NEW u \in Urls, NEW r \in Routes, NEW f \in BOOLEAN, Hit(u, r, f)
  PROVE  FilterInv'
<1>1. /\ errors' = errors /\ raisers' = raisers
      /\ hits' = [hits EXCEPT ![u] = @ \cup {r}]
      /\ RecordResource(u, f, AddRoute(resources[u].routes, r))
  BY DEF Hit, Resource, RecordResource
<1>2. \A v \in Urls : resources'[v].routes = IF v = u THEN AddRoute(resources[u].routes, r) ELSE resources[v].routes
  BY <1>1 DEF RecordResource, TypeOK, ResourceEntry
<1>3. \A v \in Urls : hits'[v] = IF v = u THEN hits[u] \cup {r} ELSE hits[v]
  BY <1>1 DEF FilterInv
<1>4. \A v \in Urls : Remembers(resources'[v].routes, hits'[v])
  BY <1>2, <1>3, RememberMore DEF FilterInv
<1>5. hits' \in [Urls -> SUBSET Routes]
  BY <1>1 DEF FilterInv
<1>. QED
  BY <1>1, <1>4, <1>5 DEF FilterInv

LEMMA RaiseFilter ==
  ASSUME TypeOK, FilterInv, NEW g \in Sigs, NEW r \in Routes, Raise(g, r)
  PROVE  FilterInv'
<1>1. /\ resources' = resources /\ hits' = hits
      /\ raisers' = [raisers EXCEPT ![g] = @ \cup {r}]
  BY DEF Raise, Error
<1>2. \A h \in Sigs : errors'[h].routes = IF h = g THEN AddRoute(errors[g].routes, r) ELSE errors[h].routes
  BY DEF Raise, Error, TypeOK, ErrorEntry
<1>3. \A h \in Sigs : raisers'[h] = IF h = g THEN raisers[g] \cup {r} ELSE raisers[h]
  BY <1>1 DEF FilterInv
<1>4. \A h \in Sigs : Remembers(errors'[h].routes, raisers'[h])
  BY <1>2, <1>3, RememberMore DEF FilterInv
<1>5. raisers' \in [Sigs -> SUBSET Routes]
  BY <1>1 DEF FilterInv
<1>. QED
  BY <1>1, <1>4, <1>5 DEF FilterInv

\* A deleted error forgets its routes together with those that raised it.
LEMMA AnswerFilter ==
  ASSUME EntriesInv, FilterInv, Answer
  PROVE  FilterInv'
<1>1. Return /\ hits' = hits
  BY DEF Answer
<1>2. \A u \in Urls : resources'[u].routes = resources[u].routes
  BY <1>1 DEF Return, PruneAll, maps, EntriesInv, TypeOK, ResourceEntry
<1>3. \A g \in Sigs : errors'[g] = NoError \/ errors'[g] = errors[g]
  BY <1>1 DEF Return, PruneAll, maps
<1>4. raisers' = [g \in Sigs |-> IF errors'[g].count = 0 THEN {} ELSE raisers[g]]
  BY DEF Answer
<1>5. ASSUME NEW g \in Sigs
      PROVE  Remembers(errors'[g].routes, raisers'[g])
  <2>1. CASE errors'[g] = NoError
    BY <1>4, <2>1 DEF Remembers, NoError
  <2>2. CASE errors'[g] # NoError
    <3>1. errors'[g] = errors[g] /\ errors[g].count # 0
      BY <1>3, <2>2 DEF EntriesInv, Sighted
    <3>. QED
      BY <1>4, <3>1 DEF FilterInv
  <2>. QED
    BY <2>1, <2>2
<1>6. raisers' \in [Sigs -> SUBSET Routes]
  BY <1>4 DEF FilterInv
<1>. QED
  BY <1>1, <1>2, <1>5, <1>6 DEF FilterInv

LEMMA FilterStep == EntriesInv /\ FilterInv /\ [ReportNext]_reportVars => FilterInv'
<1>. SUFFICES ASSUME EntriesInv, FilterInv, [ReportNext]_reportVars
              PROVE  FilterInv'
  OBVIOUS
<1>1. CASE Scrape \/ Elsewhere \/ UNCHANGED reportVars
  <2>1. /\ resources' = resources /\ errors' = errors /\ hits' = hits /\ raisers' = raisers
    BY <1>1 DEF Scrape, Elsewhere, reportVars, vars
  <2>. QED
    BY <2>1 DEF FilterInv
<1>2. CASE \E u \in Urls : HitThrows(u)
  <2>1. PICK u \in Urls : HitThrows(u)
    BY <1>2
  <2>2. /\ errors' = errors /\ hits' = hits /\ raisers' = raisers
        /\ RecordResource(u, FALSE, resources[u].routes)
    BY <2>1 DEF HitThrows, ResourceThrows, RecordResource
  <2>3. \A v \in Urls : resources'[v].routes = resources[v].routes
    BY <2>2 DEF RecordResource, EntriesInv, TypeOK, ResourceEntry
  <2>. QED
    BY <2>2, <2>3 DEF FilterInv
<1>. QED
  BY <1>1, <1>2, HitFilter, RaiseFilter, AnswerFilter DEF ReportNext, EntriesInv

LEMMA FilterInvariant == ReportSpec => []FilterInv
BY ReportRuns, EntriesInvariant, FilterInit, FilterStep, PTL DEF ReportSpec

\* A summary for one route lists exactly what that route's events made, until the
\* entry's list of routes is full (rum.ts:138, 151, 197, 226, 234).
THEOREM FiltersAreExact == ReportSpec => []FilterExact
<1>1. FilterInv => FilterExact
  BY NoFilterAssumption DEF FilterInv, Remembers, FilterExact, SummaryResources, SummaryErrors, Loaded, Raised
<1>. QED
  BY <1>1, FilterInvariant, PTL
=============================================================================
