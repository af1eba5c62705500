---------------------------- MODULE HubToolsProofs ----------------------------
(***************************************************************************)
(* Safety of the hub's tools: the search for deadlocks reports cycles only *)
(* and all cycles within its cap, for every dump and every cap; a list of  *)
(* the Kubernetes client is whole, for every set of namespaces, allow-list *)
(* and change of the cluster; the merge of the replicas' summaries is      *)
(* borne out by them, for every set of replicas and of samples; a history  *)
(* of a deployment is one, for every rollout in between and every limit;   *)
(* the summary of pods' logs counts each line once, for all pods and logs; *)
(* no golden signal counts more errors than requests beyond what came in   *)
(* during the call, and an undisturbed one says what the meters say; what  *)
(* a trace lists is all that matters in it, for every tree of spans.       *)
(***************************************************************************)
EXTENDS HubTools, FunctionTheorems, FiniteSetTheorems, SequenceTheorems, WellFoundedInduction, TLAPS

-----------------------------------------------------------------------------
(***************************************************************************)
(* The search for deadlocks.                                               *)
(***************************************************************************)

\* The chain is a path of waiting threads that meets no thread twice.
Path ==
  /\ chain = <<>> => cur = NoName
  /\ chain # <<>> => cur = waits[chain[Len(chain)]]
  /\ \A j \in 1 .. Len(chain) - 1 : waits[chain[j]] = chain[j + 1]
  /\ \A j, k \in DOMAIN chain : chain[j] = chain[k] => j = k

\* A chain that enters a knot stays in it.
Enters(C) == \A i, j \in DOMAIN chain : chain[i] \in C /\ i <= j => chain[j] \in C /\ cur \in C
Drawn == \A C \in SUBSET Names : Knot(C) => Enters(C)

\* A reported cycle that meets a knot is the knot.
Meets(d, C) == (\E n \in Range(d) : n \in C) => Range(d) = C
Exact == \A C \in SUBSET Names : Knot(C) => \A i \in DOMAIN deadlocks : Meets(deadlocks[i], C)

SeenReported == \A n \in seen : \E i \in DOMAIN deadlocks : n \in Range(deadlocks[i])

\* A thread of a knot that is not reported is still to be a start, or is one.
Reported(C) == \E i \in DOMAIN deadlocks : Range(deadlocks[i]) = C
Pending(n)  == n \in todo \/ (chain # <<>> /\ chain[1] = n)
Awaited ==
  \A C \in SUBSET Names : Knot(C) /\ Cardinality(C) <= CAP =>
    Reported(C) \/ \A n \in C : Pending(n)

DumpInv == TypeOK /\ Path /\ Drawn /\ Exact /\ SeenReported /\ Sound /\ Awaited

-----------------------------------------------------------------------------
\* The cycle is the end of the chain, from the thread the chain comes back to.
LEMMA CycleShape ==
  ASSUME TypeOK, cur \in Range(chain)
  PROVE  \E p \in 1 .. Len(chain) :
           /\ chain[p] = cur
           /\ Cycle \in Seq(Names)
           /\ Len(Cycle) = Len(chain) - p + 1
           /\ \A j \in 1 .. Len(Cycle) : Cycle[j] = chain[p + j - 1]
<1>. DEFINE p == CHOOSE i \in DOMAIN chain : chain[i] = cur
<1>1. chain \in Seq(Names) /\ Len(chain) \in Nat /\ DOMAIN chain = 1 .. Len(chain)
  BY DEF TypeOK
<1>2. p \in 1 .. Len(chain) /\ chain[p] = cur
  BY <1>1 DEF Range
<1>3. Cycle = SubSeq(chain, p, Len(chain))
  BY DEF Cycle
<1>4. Cycle \in Seq(Names) /\ Len(Cycle) = Len(chain) - p + 1
  BY <1>1, <1>2, <1>3
<1>5. \A j \in 1 .. Len(Cycle) : Cycle[j] = chain[p + j - 1]
  BY <1>1, <1>2, <1>3, <1>4
<1>. QED
  BY <1>2, <1>4, <1>5

\* A chain without repetitions holds as many threads as its length.
LEMMA ChainSize ==
  ASSUME TypeOK, Path
  PROVE  IsFiniteSet(Range(chain)) /\ Cardinality(Range(chain)) = Len(chain)
<1>1. chain \in Seq(Names) /\ Len(chain) \in Nat /\ DOMAIN chain = 1 .. Len(chain)
  BY DEF TypeOK
<1>2. IsFiniteSet(1 .. Len(chain)) /\ Cardinality(1 .. Len(chain)) = Len(chain)
  BY <1>1, FS_Interval
<1>3. chain \in [1 .. Len(chain) -> Range(chain)]
  BY <1>1 DEF Range
<1>4. chain \in Bijection(1 .. Len(chain), Range(chain))
  <2>1. \A j, k \in 1 .. Len(chain) : chain[j] = chain[k] => j = k
    BY <1>1 DEF Path
  <2>2. \A n \in Range(chain) : \E j \in 1 .. Len(chain) : chain[j] = n
    BY <1>1 DEF Range
  <2>. QED
    BY <1>3, <2>1, <2>2, Fun_IsBij
<1>5. ExistsBijection(1 .. Len(chain), Range(chain))
  BY <1>4 DEF ExistsBijection
<1>. QED
  BY <1>2, <1>5, FS_Bijection

\* A chain that has entered a knot no larger than the cap comes back to itself.
LEMMA ChainReturns ==
  ASSUME TypeOK, Path, DumpAssumption, chain # <<>>, ~Follows,
         NEW C \in SUBSET Names, Cardinality(C) <= CAP,
         Range(chain) \subseteq C, cur \in C
  PROVE  cur \in Range(chain)
<1>. SUFFICES ASSUME cur \notin Range(chain) PROVE FALSE
  OBVIOUS
<1>1. cur # NoName
  BY DEF DumpAssumption
<1>2. Len(chain) = CAP
  BY <1>1 DEF Follows, TypeOK, DumpAssumption
<1>3. IsFiniteSet(Range(chain)) /\ Cardinality(Range(chain)) = CAP
  BY <1>2, ChainSize
<1>4. IsFiniteSet(Range(chain) \cup {cur}) /\ Cardinality(Range(chain) \cup {cur}) = CAP + 1
  BY <1>3, FS_AddElement
<1>5. IsFiniteSet(C)
  BY FS_Subset DEF DumpAssumption
<1>6. Cardinality(Range(chain) \cup {cur}) <= Cardinality(C)
  <2>1. Range(chain) \cup {cur} \subseteq C
    OBVIOUS
  <2>. QED
    BY <1>5, <2>1, FS_Subset
<1>7. Cardinality(C) \in Nat /\ CAP \in Nat
  BY <1>5, FS_CardinalityType DEF DumpAssumption
<1>. QED
  BY <1>4, <1>6, <1>7

-----------------------------------------------------------------------------
\* The initial state has nothing reported and every blocked thread to start from.
LEMMA InitDump ==
  ASSUME DumpAssumption, Init PROVE DumpInv
<1>1. TypeOK
  BY DEF Init, TypeOK, Blocked, DumpAssumption
<1>2. chain = <<>> /\ DOMAIN chain = {} /\ Len(chain) = 0
  BY DEF Init
<1>3. deadlocks = <<>> /\ DOMAIN deadlocks = {} /\ seen = {}
  BY DEF Init
<1>4. Path
  BY <1>2 DEF Init, Path
<1>5. Drawn
  BY <1>2 DEF Drawn, Enters
<1>6. Exact /\ SeenReported /\ Sound
  BY <1>3 DEF Exact, SeenReported, Sound
<1>7. Awaited
  <2>. SUFFICES ASSUME NEW C \in SUBSET Names, Knot(C), NEW n \in C PROVE Pending(n)
    BY DEF Awaited
  <2>1. waits[n] \in C
    BY DEF Knot, Closed
  <2>2. n \in todo
    BY <2>1 DEF Init, Blocked, DumpAssumption
  <2>. QED
    BY <2>2 DEF Pending
<1>. QED
  BY <1>1, <1>4, <1>5, <1>6, <1>7 DEF DumpInv

\* The Map does not change, so neither do its knots.
LEMMA KnotsStay ==
  ASSUME waits' = waits, NEW C PROVE Knot(C)' <=> Knot(C)
BY DEF Knot, Closed

\* A new start: its chain is the thread itself.
LEMMA BeginStep ==
  ASSUME DumpAssumption, DumpInv, NEW start \in todo, Begin(start)
  PROVE  DumpInv'
<1>0. TypeOK /\ Path /\ Drawn /\ Exact /\ SeenReported /\ Sound /\ Awaited
  BY DEF DumpInv
<1>1. /\ waits' = waits /\ seen' = seen /\ deadlocks' = deadlocks
      /\ todo' = todo \ {start} /\ chain = <<>> /\ start \in Names
  BY <1>0 DEF Begin, TypeOK
<1>2. CASE start \in seen
  <2>1. chain' = chain /\ cur' = cur
    BY <1>2 DEF Begin
  <2>2. TypeOK' /\ Path' /\ Sound' /\ SeenReported'
    BY <1>0, <1>1, <2>1 DEF TypeOK, Path, Sound, SeenReported
  <2>3. Drawn' /\ Exact'
    BY <1>0, <1>1, <2>1, KnotsStay DEF Drawn, Enters, Exact, Meets
  <2>4. Awaited'
    <3>. SUFFICES ASSUME NEW C \in SUBSET Names, Knot(C)', Cardinality(C) <= CAP, ~Reported(C)'
                  PROVE  \A n \in C : Pending(n)'
      BY DEF Awaited
    <3>0. Knot(C) /\ ~Reported(C)
      BY <1>1, KnotsStay DEF Reported
    <3>1. \A n \in C : n \in todo
      BY <1>0, <1>1, <3>0 DEF Awaited, Pending
    <3>2. start \notin C
      <4>. SUFFICES ASSUME start \in C PROVE FALSE
        OBVIOUS
      <4>1. PICK i \in DOMAIN deadlocks : start \in Range(deadlocks[i])
        BY <1>0, <1>2 DEF SeenReported
      <4>2. Range(deadlocks[i]) = C
        BY <1>0, <3>0, <4>1 DEF Exact, Meets
      <4>. QED
        BY <3>0, <4>2 DEF Reported
    <3>. QED
      BY <1>1, <3>1, <3>2 DEF Pending
  <2>. QED
    BY <2>2, <2>3, <2>4 DEF DumpInv
<1>3. CASE start \notin seen
  <2>1. chain' = <<start>> /\ cur' = waits[start]
    BY <1>3 DEF Begin
  <2>2. DOMAIN chain' = {1} /\ Len(chain') = 1 /\ chain'[1] = start /\ chain' # <<>>
    BY <2>1
  <2>3. TypeOK'
    BY <1>0, <1>1, <2>1, <2>2 DEF TypeOK, DumpAssumption
  <2>4. Path'
    BY <1>1, <2>1, <2>2 DEF Path
  <2>5. Drawn'
    BY <1>1, <2>1, <2>2, KnotsStay DEF Drawn, Enters, Knot, Closed
  <2>6. Exact' /\ SeenReported' /\ Sound'
    BY <1>0, <1>1, KnotsStay DEF Exact, Meets, SeenReported, Sound
  <2>7. Awaited'
    <3>. SUFFICES ASSUME NEW C \in SUBSET Names, Knot(C)', Cardinality(C) <= CAP, ~Reported(C)',
                         NEW n \in C
                  PROVE  Pending(n)'
      BY DEF Awaited
    <3>0. Knot(C) /\ ~Reported(C)
      BY <1>1, KnotsStay DEF Reported
    <3>1. n \in todo
      BY <1>0, <1>1, <3>0 DEF Awaited, Pending
    <3>. QED
      BY <1>1, <2>2, <3>1 DEF Pending
  <2>. QED
    BY <2>3, <2>4, <2>5, <2>6, <2>7 DEF DumpInv
<1>. QED
  BY <1>2, <1>3

\* One thread more on the chain.
LEMMA FollowStep ==
  ASSUME DumpAssumption, DumpInv, Follow
  PROVE  DumpInv'
<1>0. TypeOK /\ Path /\ Drawn /\ Exact /\ SeenReported /\ Sound /\ Awaited
  BY DEF DumpInv
<1>1. /\ waits' = waits /\ seen' = seen /\ deadlocks' = deadlocks /\ todo' = todo
      /\ chain # <<>> /\ chain' = Append(chain, cur) /\ cur' = waits[cur]
      /\ cur \in Names /\ cur \notin Range(chain) /\ Len(chain) < CAP
  BY <1>0 DEF Follow, Follows, TypeOK
<1>2. chain \in Seq(Names) /\ Len(chain) \in Nat \ {0} /\ DOMAIN chain = 1 .. Len(chain)
  BY <1>0, <1>1 DEF TypeOK
<1>3. /\ chain' \in Seq(Names) /\ Len(chain') = Len(chain) + 1
      /\ DOMAIN chain' = 1 .. Len(chain) + 1
      /\ chain'[Len(chain) + 1] = cur
      /\ \A j \in 1 .. Len(chain) : chain'[j] = chain[j]
  BY <1>1, <1>2
<1>4. chain' # <<>> /\ chain'[1] = chain[1]
  BY <1>2, <1>3
<1>5. \A j \in 1 .. Len(chain) : chain[j] # cur
  BY <1>1, <1>2 DEF Range
<1>6. TypeOK'
  BY <1>0, <1>1, <1>3 DEF TypeOK, DumpAssumption
<1>7. Path'
  <2>1. cur' = waits'[chain'[Len(chain')]]
    BY <1>1, <1>2, <1>3
  <2>2. \A j \in 1 .. Len(chain') - 1 : waits'[chain'[j]] = chain'[j + 1]
    <3>. SUFFICES ASSUME NEW j \in 1 .. Len(chain) PROVE waits[chain[j]] = chain'[j + 1]
      BY <1>1, <1>2, <1>3
    <3>1. CASE j = Len(chain)
      BY <1>0, <1>1, <1>2, <1>3, <3>1 DEF Path
    <3>2. CASE j # Len(chain)
      BY <1>0, <1>2, <1>3, <3>2 DEF Path
    <3>. QED
      BY <3>1, <3>2
  <2>3. \A j, k \in DOMAIN chain' : chain'[j] = chain'[k] => j = k
    <3>. SUFFICES ASSUME NEW j \in 1 .. Len(chain) + 1, NEW k \in 1 .. Len(chain) + 1,
                         chain'[j] = chain'[k]
                  PROVE  j = k
      BY <1>3
    <3>. QED
      BY SMTT(20), <1>0, <1>2, <1>3, <1>5 DEF Path
  <2>. QED
    BY <1>4, <2>1, <2>2, <2>3 DEF Path
<1>8. Drawn'
  <2>. SUFFICES ASSUME NEW C \in SUBSET Names, Knot(C),
                       NEW i \in 1 .. Len(chain) + 1, NEW j \in 1 .. Len(chain) + 1,
                       chain'[i] \in C, i <= j
                PROVE  chain'[j] \in C /\ cur' \in C
    BY <1>1, <1>3, KnotsStay DEF Drawn, Enters
  <2>1. cur \in C
    <3>1. CASE i = Len(chain) + 1
      BY <1>3, <3>1
    <3>2. CASE i \in 1 .. Len(chain)
      BY <1>0, <1>2, <1>3, <3>2 DEF Drawn, Enters
    <3>. QED
      BY <1>2, <3>1, <3>2
  <2>2. cur' \in C
    BY <1>1, <2>1 DEF Knot, Closed
  <2>3. chain'[j] \in C
    <3>1. CASE j = Len(chain) + 1
      BY <1>3, <2>1, <3>1
    <3>2. CASE j \in 1 .. Len(chain)
      <4>1. i \in 1 .. Len(chain)
        BY <1>2, <3>2
      <4>. QED
        BY <1>0, <1>2, <1>3, <3>2, <4>1 DEF Drawn, Enters
    <3>. QED
      BY <1>2, <3>1, <3>2
  <2>. QED
    BY <2>2, <2>3
<1>9. Exact' /\ SeenReported' /\ Sound'
  BY <1>0, <1>1, KnotsStay DEF Exact, Meets, SeenReported, Sound
<1>10. Awaited'
  BY <1>0, <1>1, <1>4, KnotsStay DEF Awaited, Reported, Pending
<1>. QED
  BY <1>6, <1>7, <1>8, <1>9, <1>10 DEF DumpInv

\* The chain ends: its cycle, if it has one, is reported.
LEMMA CloseStep ==
  ASSUME DumpAssumption, DumpInv, Close
  PROVE  DumpInv'
<1>0. TypeOK /\ Path /\ Drawn /\ Exact /\ SeenReported /\ Sound /\ Awaited
  BY DEF DumpInv
<1>1. /\ waits' = waits /\ todo' = todo /\ chain' = <<>> /\ cur' = NoName
      /\ chain # <<>> /\ ~Follows
  BY DEF Close
<1>2. chain \in Seq(Names) /\ Len(chain) \in Nat \ {0} /\ DOMAIN chain = 1 .. Len(chain)
  BY <1>0, <1>1 DEF TypeOK
<1>3. DOMAIN chain' = {} /\ Len(chain') = 0
  BY <1>1
<1>4. Path' /\ Drawn'
  BY <1>1, <1>3 DEF Path, Drawn, Enters
\* A knot the chain starts in holds all of it.
<1>5. ASSUME NEW C \in SUBSET Names, Knot(C), Cardinality(C) <= CAP, chain[1] \in C
      PROVE  cur \in Range(chain) /\ cur \in C
  <2>1. Range(chain) \subseteq C /\ cur \in C
    BY <1>0, <1>2, <1>5 DEF Drawn, Enters, Range
  <2>. QED
    BY <1>0, <1>1, <1>5, <2>1, ChainReturns
<1>6. CASE cur \notin Range(chain)
  <2>1. seen' = seen /\ deadlocks' = deadlocks
    BY <1>6 DEF Close
  <2>2. TypeOK'
    BY <1>0, <1>1, <1>3, <2>1 DEF TypeOK, DumpAssumption
  <2>3. Exact' /\ SeenReported' /\ Sound'
    BY <1>0, <1>1, <2>1, KnotsStay DEF Exact, Meets, SeenReported, Sound
  <2>4. Awaited'
    <3>. SUFFICES ASSUME NEW C \in SUBSET Names, Knot(C)', Cardinality(C) <= CAP, ~Reported(C)',
                         NEW n \in C
                  PROVE  Pending(n)'
      BY DEF Awaited
    <3>0. Knot(C) /\ ~Reported(C)
      BY <1>1, <2>1, KnotsStay DEF Reported
    <3>1. Pending(n)
      BY <1>0, <3>0 DEF Awaited
    <3>2. chain[1] # n
      BY <1>5, <1>6, <3>0
    <3>. QED
      BY <1>1, <3>1, <3>2 DEF Pending
  <2>. QED
    BY <1>4, <2>2, <2>3, <2>4 DEF DumpInv
<1>7. CASE cur \in Range(chain)
  <2>1. seen' = seen \cup Range(Cycle) /\ deadlocks' = Append(deadlocks, Cycle)
    BY <1>7 DEF Close
  <2>2. PICK p \in 1 .. Len(chain) :
          /\ chain[p] = cur
          /\ Cycle \in Seq(Names)
          /\ Len(Cycle) = Len(chain) - p + 1
          /\ \A j \in 1 .. Len(Cycle) : Cycle[j] = chain[p + j - 1]
    BY <1>0, <1>7, CycleShape
  <2>3. PICK c : c = Cycle
    OBVIOUS
  <2>4. /\ c \in Seq(Names) /\ Len(c) = Len(chain) - p + 1 /\ DOMAIN c = 1 .. Len(c)
        /\ Len(c) \in Nat \ {0}
        /\ \A j \in 1 .. Len(c) : c[j] = chain[p + j - 1]
    <3>1. c \in Seq(Names) /\ Len(c) = Len(chain) - p + 1
      BY <2>2, <2>3
    <3>2. DOMAIN c = 1 .. Len(c) /\ Len(c) \in Nat \ {0}
      BY <1>2, <3>1
    <3>3. \A j \in 1 .. Len(c) : c[j] = chain[p + j - 1]
      BY <2>2, <2>3
    <3>. QED
      BY <3>1, <3>2, <3>3
  <2>5. deadlocks \in Seq(Seq(Names)) /\ Len(deadlocks) \in Nat /\ DOMAIN deadlocks = 1 .. Len(deadlocks)
    BY <1>0 DEF TypeOK
  <2>6. /\ deadlocks' \in Seq(Seq(Names)) /\ DOMAIN deadlocks' = 1 .. Len(deadlocks) + 1
        /\ deadlocks'[Len(deadlocks) + 1] = c
        /\ \A i \in 1 .. Len(deadlocks) : deadlocks'[i] = deadlocks[i]
    BY <2>1, <2>3, <2>4, <2>5
  <2>7. Range(c) \subseteq Names /\ cur \in Range(c)
    <3>1. c[1] = cur /\ 1 \in DOMAIN c
      BY <1>2, <2>2, <2>4
    <3>. QED
      BY <2>4, <3>1 DEF Range
  <2>8. TypeOK'
    BY <1>0, <1>1, <1>3, <2>1, <2>3, <2>6, <2>7 DEF TypeOK, DumpAssumption
  \* Every thread of the cycle waits for one of it.
  <2>9. Closed(Range(c))
    <3>. SUFFICES ASSUME NEW j \in 1 .. Len(c) PROVE waits[c[j]] \in Range(c)
      BY <2>4, <2>7 DEF Closed, Range
    <3>1. CASE j = Len(c)
      <4>1. c[j] = chain[Len(chain)]
        BY <1>2, <2>2, <2>4, <3>1
      <4>. QED
        BY <1>0, <1>1, <2>7, <4>1 DEF Path
    <3>2. CASE j # Len(c)
      <4>0. j \in 1 .. Len(c) - 1
        <5>1. Len(c) \in Nat
          BY <2>4
        <5>. QED
          BY <3>2, <5>1
      <4>1. j + 1 \in DOMAIN c /\ c[j + 1] = chain[p + j]
        BY <1>2, <2>2, <2>4, <4>0
      <4>2. p + j - 1 \in 1 .. Len(chain) - 1 /\ (p + j - 1) + 1 = p + j
        BY <1>2, <2>2, <2>4, <4>0
      <4>3. waits[chain[p + j - 1]] = chain[p + j]
        BY <1>0, <4>2 DEF Path
      <4>. QED
        BY <2>4, <4>1, <4>3 DEF Range
    <3>. QED
      BY <3>1, <3>2
  <2>10. \A C \in SUBSET Names : Knot(C) => Meets(c, C)
    <3>. SUFFICES ASSUME NEW C \in SUBSET Names, Knot(C), NEW j \in 1 .. Len(c), c[j] \in C
                  PROVE  Range(c) = C
      BY <2>4 DEF Meets, Range
    <3>1. p + j - 1 \in DOMAIN chain /\ chain[p + j - 1] \in C
      BY <1>2, <2>2, <2>4
    <3>2. cur \in C
      BY <1>0, <3>1 DEF Drawn, Enters
    <3>3. \A i \in DOMAIN chain : p <= i => chain[i] \in C
      <4>1. p \in DOMAIN chain /\ chain[p] \in C
        BY <1>2, <2>2, <3>2
      <4>. QED
        BY <1>0, <4>1 DEF Drawn, Enters
    <3>4. Range(c) \subseteq C
      <4>. SUFFICES ASSUME NEW i \in 1 .. Len(c) PROVE c[i] \in C
        BY <2>4 DEF Range
      <4>1. p + i - 1 \in DOMAIN chain /\ p <= p + i - 1
        BY <1>2, <2>2, <2>4
      <4>. QED
        BY <2>4, <3>3, <4>1
    <3>. QED
      BY <2>9, <3>4 DEF Knot
  <2>11. Exact'
    <3>. SUFFICES ASSUME NEW C \in SUBSET Names, Knot(C), NEW i \in 1 .. Len(deadlocks) + 1
                  PROVE  Meets(deadlocks'[i], C)
      BY <1>1, <2>6, KnotsStay DEF Exact, Meets
    <3>1. CASE i = Len(deadlocks) + 1
      BY <2>6, <2>10, <3>1
    <3>2. CASE i \in 1 .. Len(deadlocks)
      <4>1. Meets(deadlocks[i], C)
        BY <1>0, <2>5, <3>2 DEF Exact
      <4>. QED
        BY <2>6, <3>2, <4>1
    <3>. QED
      BY <2>5, <3>1, <3>2
  <2>12. SeenReported'
    <3>. SUFFICES ASSUME NEW n \in seen'
                  PROVE  \E i \in 1 .. Len(deadlocks) + 1 : n \in Range(deadlocks'[i])
      BY <2>6 DEF SeenReported
    <3>1. CASE n \in seen
      <4>1. PICK i \in 1 .. Len(deadlocks) : n \in Range(deadlocks[i])
        BY <1>0, <2>5, <3>1 DEF SeenReported
      <4>2. i \in 1 .. Len(deadlocks) + 1 /\ deadlocks'[i] = deadlocks[i]
        BY <2>5, <2>6
      <4>. QED
        BY <4>1, <4>2
    <3>2. CASE n \in Range(c)
      BY <2>5, <2>6, <3>2
    <3>. QED
      BY <2>1, <2>3, <3>1, <3>2
  <2>13. /\ c # <<>> /\ waits[c[Len(c)]] = c[1]
         /\ \A j \in 1 .. Len(c) - 1 : waits[c[j]] = c[j + 1]
         /\ \A j, k \in DOMAIN c : c[j] = c[k] => j = k
    <3>1. c # <<>> /\ c[1] = cur /\ c[Len(c)] = chain[Len(chain)]
      BY <1>2, <2>2, <2>4
    <3>2. waits[c[Len(c)]] = c[1]
      BY <1>0, <1>1, <3>1 DEF Path
    <3>3. \A j \in 1 .. Len(c) - 1 : waits[c[j]] = c[j + 1]
      <4>. SUFFICES ASSUME NEW j \in 1 .. Len(c) - 1 PROVE waits[c[j]] = c[j + 1]
        OBVIOUS
      <4>1. p + j - 1 \in 1 .. Len(chain) - 1 /\ (p + j - 1) + 1 = p + j
        BY <1>2, <2>2, <2>4
      <4>2. waits[chain[p + j - 1]] = chain[p + j]
        BY <1>0, <4>1 DEF Path
      <4>3. c[j] = chain[p + j - 1] /\ c[j + 1] = chain[p + j]
        BY <1>2, <2>2, <2>4
      <4>. QED
        BY <4>2, <4>3
    <3>4. \A j, k \in DOMAIN c : c[j] = c[k] => j = k
      <4>. SUFFICES ASSUME NEW j \in 1 .. Len(c), NEW k \in 1 .. Len(c), c[j] = c[k] PROVE j = k
        BY <2>4
      <4>1. /\ p + j - 1 \in DOMAIN chain /\ p + k - 1 \in DOMAIN chain
            /\ chain[p + j - 1] = chain[p + k - 1]
        BY <1>2, <2>2, <2>4
      <4>2. p + j - 1 = p + k - 1
        BY <1>0, <4>1 DEF Path
      <4>. QED
        BY <1>2, <4>2
    <3>. QED
      BY <3>1, <3>2, <3>3, <3>4
  <2>14. Sound'
    <3>. SUFFICES ASSUME NEW i \in 1 .. Len(deadlocks) + 1
                  PROVE  /\ deadlocks'[i] # <<>>
                         /\ waits[deadlocks'[i][Len(deadlocks'[i])]] = deadlocks'[i][1]
                         /\ \A j \in 1 .. Len(deadlocks'[i]) - 1 :
                              waits[deadlocks'[i][j]] = deadlocks'[i][j + 1]
                         /\ \A j, k \in DOMAIN deadlocks'[i] :
                              deadlocks'[i][j] = deadlocks'[i][k] => j = k
      BY <1>1, <2>6 DEF Sound
    <3>1. CASE i = Len(deadlocks) + 1
      BY <2>6, <2>13, <3>1
    <3>2. CASE i \in 1 .. Len(deadlocks)
      <4>1. deadlocks'[i] = deadlocks[i]
        BY <2>6, <3>2
      <4>. QED
        BY <1>0, <2>5, <3>2, <4>1 DEF Sound
    <3>. QED
      BY <2>5, <3>1, <3>2
  <2>15. Awaited'
    <3>. SUFFICES ASSUME NEW C \in SUBSET Names, Knot(C)', Cardinality(C) <= CAP, ~Reported(C)',
                         NEW n \in C
                  PROVE  Pending(n)'
      BY DEF Awaited
    <3>0. Knot(C)
      BY <1>1, KnotsStay
    <3>1. ~Reported(C)
      BY <2>5, <2>6 DEF Reported
    <3>2. Pending(n)
      BY <1>0, <3>0, <3>1 DEF Awaited
    <3>3. chain[1] # n
      <4>. SUFFICES ASSUME chain[1] \in C PROVE FALSE
        OBVIOUS
      <4>1. cur \in C
        BY <1>5, <3>0
      <4>2. Range(c) = C
        BY <2>7, <2>10, <3>0, <4>1 DEF Meets
      <4>. QED
        BY SMTT(20), <2>5, <2>6, <4>2 DEF Reported
    <3>. QED
      BY <1>1, <3>2, <3>3 DEF Pending
  <2>. QED
    BY <1>4, <2>8, <2>11, <2>12, <2>14, <2>15 DEF DumpInv
<1>. QED
  BY <1>6, <1>7

\* The invariant the theorems follow from.
LEMMA DumpInvariant == Spec => []DumpInv
<1>1. Init => DumpInv
  BY InitDump, DumpAssumption
<1>2. DumpInv /\ [Next]_vars => DumpInv'
  <2>. SUFFICES ASSUME DumpInv, [Next]_vars PROVE DumpInv'
    OBVIOUS
  <2>1. ASSUME NEW start \in todo, Begin(start) PROVE DumpInv'
    BY <2>1, BeginStep, DumpAssumption
  <2>2. CASE Follow
    BY <2>2, FollowStep, DumpAssumption
  <2>3. CASE Close
    BY <2>3, CloseStep, DumpAssumption
  <2>4. CASE UNCHANGED vars
    <3>1. /\ waits' = waits /\ todo' = todo /\ seen' = seen /\ chain' = chain /\ cur' = cur
          /\ deadlocks' = deadlocks
      BY <2>4 DEF vars
    <3>2. TypeOK' /\ Path' /\ SeenReported' /\ Sound'
      BY <3>1 DEF DumpInv, TypeOK, Path, SeenReported, Sound
    <3>3. Drawn' /\ Exact'
      BY <3>1, KnotsStay DEF DumpInv, Drawn, Enters, Exact, Meets
    <3>4. Awaited'
      BY <3>1, KnotsStay DEF DumpInv, Awaited, Reported, Pending
    <3>. QED
      BY <3>2, <3>3, <3>4 DEF DumpInv
  <2>. QED
    BY <2>1, <2>2, <2>3, <2>4 DEF Next, Returned
<1>. QED
  BY <1>1, <1>2, PTL DEF Spec

\* The hub runs the search as it is; other tools leave it alone.
LEMMA SearchRuns == ToolsSpec => Spec
<1>1. ToolsInit => Init
  BY DEF ToolsInit, DumpIdle
<1>2. [ToolsNext]_toolVars => [Next]_vars
  BY DEF ToolsNext, toolVars
<1>. QED
  BY <1>1, <1>2, PTL DEF ToolsSpec, Spec

\* The types of the search's state; chains keep to the cap (java.ts:143).
THEOREM TypeCorrect == ToolsSpec => []TypeOK
BY SearchRuns, DumpInvariant, PTL DEF DumpInv

\* Whatever the dump, what is reported as a deadlock is a cycle of threads that
\* wait for each other (java.ts:142-151).
THEOREM OnlyCycles == ToolsSpec => []Sound
BY SearchRuns, DumpInvariant, PTL DEF DumpInv

\* Whatever the dump, every deadlock of at most CAP threads has been reported when
\* the search returns (java.ts:139-152).
THEOREM AllCycles == ToolsSpec => []Complete
<1>1. DumpInv => Complete
  <2>. SUFFICES ASSUME DumpInv, Done, NEW C \in SUBSET Names, Knot(C), Cardinality(C) <= CAP
                PROVE  Reported(C)
    BY DEF Complete, Reported
  <2>1. PICK n : n \in C
    BY DEF Knot, Closed
  <2>2. ~Pending(n)
    BY DEF Done, Pending
  <2>. QED
    BY <2>1, <2>2 DEF DumpInv, Awaited
<1>. QED
  BY <1>1, SearchRuns, DumpInvariant, PTL

-----------------------------------------------------------------------------
(***************************************************************************)
(* The Kubernetes client.                                                  *)
(***************************************************************************)

\* The targets of a call are those of its method.
Targets ==
  \/ method \in {"namespace", "metrics"} /\ \E n \in Namespaces : Allowed(n) /\ asked = {n}
  \/ method = "across" /\ asked = IF allow = {} THEN {Cluster} ELSE allow
  \/ method = "namespaces" /\ asked = {Cluster}

\* What a target answered is what it held at some moment of the call.
Held(t, answer) == \E w \in moments : answer = IF t = Cluster THEN w ELSE {o \in w : o[1] = t}

KubeInv ==
  /\ allow \subseteq Namespaces
  /\ present \in moments
  /\ reply = "none" => DOMAIN taken = {}
  /\ DOMAIN taken \subseteq asked
  /\ \A t \in DOMAIN taken : Held(t, taken[t])
  /\ reply \in {"pending", "ok"} => Targets
  /\ ListWhole

LEMMA KubeStart == KubeInit => KubeInv
BY DEF KubeInit, KubeInv, Unasked, ListWhole

\* A call's requests go out for the targets of its method.
LEMMA CallStep ==
  ASSUME KubeInv, NEW how, NEW targets, Call(how, targets), Targets'
  PROVE  KubeInv'
<1>1. /\ allow' = allow /\ present' = present /\ taken' = taken /\ moments' = moments
      /\ reply' = "pending" /\ DOMAIN taken = {}
  BY DEF Call, KubeInv
<1>. QED
  BY <1>1 DEF KubeInv, Held, ListWhole

LEMMA AskStep ==
  ASSUME KubeInv,
         \/ \E n \in Namespaces : ListIn(n) \/ ReadIn(n) \/ RefuseIn(n) \/ Metrics(n)
         \/ Across \/ ListNamespaces
  PROVE  KubeInv'
<1>1. ASSUME NEW n \in Namespaces, NEW how \in {"namespace", "metrics"}, Allowed(n), Call(how, {n})
      PROVE  KubeInv'
  <2>1. Targets'
    BY <1>1 DEF Call, Targets, Allowed
  <2>. QED
    BY <1>1, <2>1, CallStep
<1>2. ASSUME NEW n \in Namespaces, RefuseIn(n)
      PROVE  KubeInv'
  <2>1. /\ allow' = allow /\ present' = present /\ taken' = taken /\ moments' = moments
        /\ asked' = asked /\ reply' = "refused"
    BY <1>2 DEF RefuseIn
  <2>. QED
    BY <2>1 DEF KubeInv, Held, ListWhole
<1>3. CASE Across
  <2>1. Targets'
    BY <1>3 DEF Across, Call, Targets
  <2>. QED
    BY <1>3, <2>1, CallStep DEF Across
<1>4. CASE ListNamespaces
  <2>1. Targets'
    BY <1>4 DEF ListNamespaces, Call, Targets
  <2>. QED
    BY <1>4, <2>1, CallStep DEF ListNamespaces
<1>. QED
  BY <1>1, <1>2, <1>3, <1>4 DEF ListIn, ReadIn, Metrics

\* An answer is what there is when it is given.
LEMMA ServedStep ==
  ASSUME KubeInv, NEW t \in asked, Served(t)
  PROVE  KubeInv'
<1>1. /\ allow' = allow /\ present' = present /\ moments' = moments /\ asked' = asked
      /\ reply' = "pending" /\ method' = method /\ reply = "pending"
      /\ taken' = [u \in DOMAIN taken \cup {t} |->
                     IF u # t THEN taken[u] ELSE IF t = Cluster THEN present ELSE Within(t)]
  BY DEF Served, Waiting
<1>2. ASSUME NEW u \in DOMAIN taken'
      PROVE  Held(u, taken'[u])
  <2>1. CASE u # t
    BY <1>1, <2>1 DEF KubeInv
  <2>2. CASE u = t
    BY <1>1, <2>2 DEF KubeInv, Held, Within
  <2>. QED
    BY <2>1, <2>2
<1>3. DOMAIN taken' \subseteq asked'
  BY <1>1 DEF KubeInv
<1>4. Targets'
  BY <1>1 DEF KubeInv, Targets, Allowed
<1>5. (\A u \in DOMAIN taken : Held(u, taken[u]))'
  BY <1>1, <1>2 DEF Held
<1>. QED
  BY <1>1, <1>3, <1>4, <1>5 DEF KubeInv, ListWhole

\* All answers are in: what they hold together is whole.
LEMMA SettleStep ==
  ASSUME KubeInv, Settle
  PROVE  KubeInv'
<1>. DEFINE all == UNION {taken[t] : t \in asked}
<1>1. /\ allow' = allow /\ present' = present /\ moments' = moments /\ asked' = asked
      /\ reply' = "ok" /\ method' = method /\ taken' = taken
      /\ DOMAIN taken = asked
      /\ items' = IF method = "namespaces" THEN {o \in all : Allowed(o[1])} ELSE all
  BY DEF Settle
<1>2. Targets /\ \A t \in asked : Held(t, taken[t])
  BY <1>1 DEF KubeInv, Settle, Waiting
<1>3. Targets' /\ \A n : Allowed(n)' = Allowed(n)
  BY <1>1, <1>2 DEF Targets, Allowed
<1>4. ASSUME \E n \in Namespaces : Allowed(n) /\ asked = {n}, method \in {"namespace", "metrics"}
      PROVE  ListWhole'
  <2>1. PICK n \in Namespaces : Allowed(n) /\ asked = {n}
    BY <1>4
  <2>2. PICK w \in moments : taken[n] = {o \in w : o[1] = n}
    BY <1>2, <2>1, KubeAssumption DEF Held
  <2>3. items' = {o \in w : o[1] = n}
    BY <1>1, <1>4, <2>1, <2>2
  <2>4. {o \in items' : o[1] = n} = {o \in w : o[1] = n}
    BY <2>3
  <2>. QED
    BY <1>1, <1>3, <1>4, <2>1, <2>3, <2>4 DEF ListWhole
<1>5. ASSUME method \in {"across", "namespaces"}, asked = {Cluster}, method = "across" => allow = {}
      PROVE  ListWhole'
  <2>1. PICK w \in moments : taken[Cluster] = w
    BY <1>2, <1>5 DEF Held
  <2>2. all = w
    BY <1>5, <2>1
  <2>3. items' = {o \in w : Allowed(o[1])}
    BY <1>1, <1>5, <2>2 DEF Allowed
  <2>4. \A n \in Namespaces : Allowed(n) => {o \in items' : o[1] = n} = {o \in w : o[1] = n}
    BY <2>3
  <2>. QED
    BY <1>1, <1>3, <1>5, <2>3, <2>4 DEF ListWhole
<1>6. ASSUME method = "across", allow # {}, asked = allow
      PROVE  ListWhole'
  <2>1. items' = all
    BY <1>1, <1>6
  <2>2. ASSUME NEW o \in items'
        PROVE  Allowed(o[1])
    <3>1. PICK t \in asked : o \in taken[t]
      BY <2>1
    <3>2. t # Cluster
      BY <1>6, KubeAssumption DEF KubeInv
    <3>3. o[1] = t
      BY <1>2, <3>1, <3>2 DEF Held
    <3>. QED
      BY <1>6, <3>3 DEF Allowed
  <2>3. ASSUME NEW n \in Namespaces, Allowed(n)
        PROVE  \E w \in moments : {o \in items' : o[1] = n} = {o \in w : o[1] = n}
    <3>1. n \in asked
      BY <1>6, <2>3 DEF Allowed
    <3>2. PICK w \in moments : taken[n] = {o \in w : o[1] = n}
      BY <1>2, <3>1, KubeAssumption DEF Held
    <3>3. ASSUME NEW t \in asked, NEW o \in taken[t]
          PROVE  o[1] = t
      <4>1. t # Cluster
        BY <1>6, KubeAssumption DEF KubeInv
      <4>. QED
        BY <1>2, <4>1 DEF Held
    <3>4. {o \in items' : o[1] = n} = taken[n]
      BY <2>1, <3>1, <3>3
    <3>. QED
      BY <3>2, <3>4
  <2>. QED
    BY <1>1, <1>3, <1>6, <2>2, <2>3 DEF ListWhole
<1>7. ListWhole'
  BY <1>2, <1>4, <1>5, <1>6 DEF Targets
<1>. QED
  BY <1>1, <1>3, <1>7 DEF KubeInv, Held

\* A request that fails, the timer and the changes of the cluster leave what
\* has been answered.
LEMMA OtherStep ==
  ASSUME KubeInv,
         \/ TimesOut \/ \E absent \in BOOLEAN : RequestFails(absent)
         \/ \E o \in Namespaces \X Objects : Churn(o)
  PROVE  KubeInv'
<1>1. /\ allow' = allow /\ asked' = asked /\ method' = method /\ taken' = taken
      /\ moments \subseteq moments' /\ present' \in moments'
      /\ reply' \in {"absent", "error", "timeout", "pending"} /\ reply = "pending"
  BY DEF TimesOut, RequestFails, Churn, Waiting, KubeInv
<1>2. (\A t \in DOMAIN taken : Held(t, taken[t]))'
  BY <1>1 DEF KubeInv, Held
<1>3. Targets'
  BY <1>1 DEF KubeInv, Targets, Allowed
<1>. QED
  BY <1>1, <1>2, <1>3 DEF KubeInv, ListWhole

LEMMA KubeStep == KubeInv /\ KubeNext => KubeInv'
BY AskStep, ServedStep, SettleStep, OtherStep DEF KubeNext

LEMMA KubeStays == KubeInv /\ UNCHANGED kubeVars => KubeInv'
<1>. SUFFICES ASSUME KubeInv, UNCHANGED kubeVars
              PROVE  KubeInv'
  OBVIOUS
<1>1. /\ allow' = allow /\ present' = present /\ method' = method /\ asked' = asked /\ taken' = taken
      /\ reply' = reply /\ items' = items /\ moments' = moments
  BY DEF kubeVars
<1>. QED
  BY <1>1 DEF KubeInv, Held, Targets, Allowed, ListWhole

\* A call that is no list asks nothing of the client.
ListsInv == IF called = "lists" THEN KubeInv ELSE reply = "none"

\* A list is the whole of every namespace it speaks for, whatever the allow-list and
\* whichever requests fail or meet a change (k8s/client.ts 160-193, 204-208).
THEOREM ListsAreWhole == ToolsSpec => []ListWhole
<1>1. ToolsInit => ListsInv
  BY KubeStart DEF ToolsInit, ListsInv, KubeIdle
<1>2. ListsInv /\ [ToolsNext]_toolVars => ListsInv'
  <2>. SUFFICES ASSUME ListsInv, [ToolsNext]_toolVars
                PROVE  ListsInv'
    OBVIOUS
  <2>1. CASE called = "lists" /\ KubeNext /\ UNCHANGED called
    BY <2>1, KubeStep DEF ListsInv
  <2>2. CASE UNCHANGED <<called, kubeVars>>
    BY <2>2, KubeStays DEF ListsInv, kubeVars
  <2>. QED
    BY <2>1, <2>2 DEF ToolsNext, toolVars
<1>3. ListsInv => ListWhole
  BY DEF ListsInv, KubeInv, ListWhole
<1>. QED
  BY <1>1, <1>2, <1>3, PTL DEF ToolsSpec

-----------------------------------------------------------------------------
(***************************************************************************)
(* The merge of the replicas' summaries. Its samples are a sum of products,*)
(* so the invariant speaks of their bounds: whatever bounds the p75 of     *)
(* every replica that has samples bounds their mean.                       *)
(***************************************************************************)

\* Division of naturals, as the solvers know it.
LEMMA Quotient ==
  ASSUME NEW a \in Nat, NEW b \in Nat, b > 0
  PROVE  /\ a \div b \in Nat
         /\ b * (a \div b) <= a
         /\ a < b * (a \div b) + b
BY SMTT(20)

LEMMA Product ==
  ASSUME NEW x \in Nat, NEW y \in Nat, NEW t \in Nat
  PROVE  /\ x * t \in Nat /\ t * x \in Nat
         /\ x <= y => x * t <= y * t
         /\ (x + y) * t = x * t + y * t
         /\ t * (x + y) = t * x + t * y
BY SMTT(20)

\* A mean of w over t, rounded half up, keeps to the bounds of what it is made of.
LEMMA Rounded ==
  ASSUME NEW w \in Nat, NEW t \in Nat, t > 0, NEW b \in Nat
  PROVE  /\ w <= b * t => (2 * w + t) \div (2 * t) <= b
         /\ w >= b * t => (2 * w + t) \div (2 * t) >= b
<1>. DEFINE q == (2 * w + t) \div (2 * t)
<1>1. q \in Nat /\ (2 * t) * q <= 2 * w + t /\ 2 * w + t < (2 * t) * q + 2 * t
  BY Quotient
<1>. HIDE DEF q
<1>2. (2 * t) * q = 2 * (q * t) /\ q * t \in Nat
  BY <1>1, SMTT(20)
<1>3. ASSUME w <= b * t, ~(q <= b)
      PROVE  FALSE
  <2>1. q * t >= (b + 1) * t
    BY <1>1, <1>3, Product
  <2>2. (b + 1) * t = b * t + t /\ b * t \in Nat
    BY Product
  <2>. QED
    BY <1>1, <1>2, <1>3, <2>1, <2>2
<1>4. ASSUME w >= b * t, ~(q >= b)
      PROVE  FALSE
  <2>1. (q + 1) * t <= b * t
    BY <1>1, <1>4, Product
  <2>2. (q + 1) * t = q * t + t /\ b * t \in Nat
    BY <1>1, Product
  <2>. QED
    BY <1>1, <1>2, <1>4, <2>1, <2>2
<1>. QED
  BY <1>3, <1>4 DEF q

LEMMA SmallerOf ==
  ASSUME NEW a \in Nat, NEW b \in Nat
  PROVE  Min({a, b}) \in Nat /\ Min({a, b}) <= a
<1>1. \E x \in {a, b} : \A y \in {a, b} : x <= y
  OBVIOUS
<1>. QED
  BY <1>1 DEF Min

LEMMA AskedType ==
  ASSUME NEW pods \in Seq(STRING)
  PROVE  Asked(pods) \in Seq(STRING) /\ Len(Asked(pods)) <= Len(pods)
<1>. DEFINE m == Min({Len(pods), MAX_PODS})
<1>1. m \in Nat /\ m <= Len(pods)
  BY SmallerOf, RumToolsAssumption
<1>. HIDE DEF m
<1>2. SubSeq(pods, 1, m) \in Seq(STRING) /\ Len(SubSeq(pods, 1, m)) = m
  BY <1>1, SubSeqProperties
<1>. QED
  BY <1>1, <1>2 DEF Asked, m

LEMMA SummaryFields ==
  ASSUME NEW s \in Summaries
  PROVE  s.count \in Nat /\ s.p75 \in Nat /\ s.raised \in Nat /\ s.first \in Nat /\ s.last \in Nat
BY RumToolsAssumption DEF Summaries

\* The samples of the merge lie within any bounds of its parts.
Weighed ==
  /\ merged.count > 0 <=> \E i \in DOMAIN read : read[i].count > 0
  /\ \A b \in Nat :
       /\ (\A i \in DOMAIN read : read[i].count > 0 => read[i].p75 <= b) => merged.weighted <= b * merged.count
       /\ (\A i \in DOMAIN read : read[i].count > 0 => read[i].p75 >= b) => merged.weighted >= b * merged.count

\* The times of its error are those of the replicas.
Timed ==
  /\ merged.raised > 0 <=> Raisers # {}
  /\ Raisers # {} =>
       /\ \E i \in Raisers : read[i].first = merged.first
       /\ \E i \in Raisers : read[i].last = merged.last
       /\ \A i \in Raisers : merged.first <= read[i].first /\ read[i].last <= merged.last

MergeInv ==
  /\ toAsk \in Seq(STRING) /\ rumPods \in Seq(STRING) /\ read \in Seq(Summaries) /\ notes \in Nat
  /\ merged \in [count : Nat, weighted : Nat, raised : Nat, first : Nat, last : Nat]
  /\ pass \notin {"summary", "told"} => read = <<>> /\ notes = 0
  /\ pass \in {"summary", "told"} => Len(toAsk) + Len(read) + notes <= Len(rumPods)
  /\ pass = "provider" => Len(toAsk) <= Len(rumPods)
  /\ told # "none" => pass = "told"
  /\ Weighed /\ Timed

LEMMA IdleMerge == RumToolsIdle => MergeInv
<1>. SUFFICES ASSUME RumToolsIdle
              PROVE  MergeInv
  OBVIOUS
<1>1. /\ toAsk = <<>> /\ pass = "idle" /\ rumPods = <<>> /\ read = <<>> /\ notes = 0
      /\ merged.count = 0 /\ merged.weighted = 0 /\ merged.raised = 0
      /\ merged \in [count : Nat, weighted : Nat, raised : Nat, first : Nat, last : Nat]
  BY DEF RumToolsIdle, Zero
<1>2. toAsk \in Seq(STRING) /\ read \in Seq(Summaries) /\ DOMAIN read = {} /\ Raisers = {}
  BY <1>1 DEF Raisers
<1>3. \A b \in Nat : b * 0 = 0
  OBVIOUS
<1>4. Weighed /\ Timed
  BY <1>1, <1>2, <1>3 DEF Weighed, Timed
<1>. QED
  BY <1>1, <1>2, <1>4 DEF MergeInv, RumToolsIdle

\* One summary more.
LEMMA SummaryStep ==
  ASSUME MergeInv, NEW s \in Summaries, Summary(s)
  PROVE  MergeInv'
<1>1. /\ read \in Seq(Summaries) /\ toAsk \in Seq(STRING) /\ notes \in Nat /\ rumPods \in Seq(STRING)
      /\ merged \in [count : Nat, weighted : Nat, raised : Nat, first : Nat, last : Nat]
      /\ pass = "summary" /\ toAsk # <<>>
      /\ read' = Append(read, s) /\ toAsk' = Tail(toAsk)
      /\ pass' = pass /\ rumPods' = rumPods /\ notes' = notes
      /\ Len(toAsk) + Len(read) + notes <= Len(rumPods)
  BY DEF Summary, MergeInv
<1>2. s.count \in Nat /\ s.p75 \in Nat /\ s.raised \in Nat /\ s.first \in Nat /\ s.last \in Nat /\ s.p75 * s.count \in Nat
  BY SummaryFields, Product
<1>3. /\ merged' = Plus(merged, s, s.p75 * s.count)
      /\ merged'.count = merged.count + s.count
      /\ merged'.weighted = merged.weighted + s.p75 * s.count
      /\ merged'.raised = merged.raised + s.raised
      /\ merged'.first = IF s.raised > 0 /\ (~(merged.raised > 0) \/ s.first < merged.first) THEN s.first ELSE merged.first
      /\ merged'.last = IF s.raised > 0 /\ (~(merged.raised > 0) \/ s.last > merged.last) THEN s.last ELSE merged.last
  BY DEF Summary, Add, Plus
<1>4. merged' \in [count : Nat, weighted : Nat, raised : Nat, first : Nat, last : Nat]
  <2>1. /\ merged.count \in Nat /\ merged.weighted \in Nat /\ merged.raised \in Nat
        /\ merged.first \in Nat /\ merged.last \in Nat
    BY <1>1
  <2>. QED
    BY <1>2, <1>3, <2>1 DEF Plus
<1>5. /\ read' \in Seq(Summaries) /\ Len(read') = Len(read) + 1
      /\ DOMAIN read' = DOMAIN read \cup {Len(read) + 1}
      /\ \A i \in DOMAIN read : read'[i] = read[i] /\ read[i] \in Summaries
      /\ read'[Len(read) + 1] = s
  BY <1>1
<1>6. toAsk' \in Seq(STRING) /\ Len(toAsk') = Len(toAsk) - 1
  BY <1>1
<1>7. Weighed'
  <2>1. merged'.count > 0 <=> \E i \in DOMAIN read' : read'[i].count > 0
    <3>1. merged.count > 0 <=> \E i \in DOMAIN read : read[i].count > 0
      BY DEF MergeInv, Weighed
    <3>2. merged.count \in Nat
      BY <1>1
    <3>3. (\E i \in DOMAIN read' : read'[i].count > 0) <=> (\E i \in DOMAIN read : read[i].count > 0) \/ s.count > 0
      BY <1>5
    <3>. QED
      BY <1>2, <1>3, <3>1, <3>2, <3>3
  <2>2. ASSUME NEW b \in Nat, \A i \in DOMAIN read' : read'[i].count > 0 => read'[i].p75 <= b
        PROVE  merged'.weighted <= b * merged'.count
    <3>1. \A i \in DOMAIN read : read[i].count > 0 => read[i].p75 <= b
      BY <1>5, <2>2
    <3>2. merged.weighted <= b * merged.count
      BY <3>1 DEF MergeInv, Weighed
    <3>3. s.p75 * s.count <= b * s.count
      <4>1. CASE s.count > 0
        BY <1>2, <1>5, <2>2, <4>1, Product
      <4>2. CASE s.count = 0
        BY <1>2, <4>2
      <4>. QED
        BY <1>2, <4>1, <4>2
    <3>4. b * merged'.count = b * merged.count + b * s.count /\ b * merged.count \in Nat /\ b * s.count \in Nat
      <4>1. merged.count \in Nat
        BY <1>1
      <4>2. b * (merged.count + s.count) = b * merged.count + b * s.count /\ b * merged.count \in Nat /\ b * s.count \in Nat
        BY <1>2, <4>1, Product
      <4>. QED
        BY <1>3, <4>2
    <3>5. merged.weighted \in Nat
      BY <1>1
    <3>. QED
      BY <1>2, <1>3, <3>2, <3>3, <3>4, <3>5
  <2>3. ASSUME NEW b \in Nat, \A i \in DOMAIN read' : read'[i].count > 0 => read'[i].p75 >= b
        PROVE  merged'.weighted >= b * merged'.count
    <3>1. \A i \in DOMAIN read : read[i].count > 0 => read[i].p75 >= b
      BY <1>5, <2>3
    <3>2. merged.weighted >= b * merged.count
      BY <3>1 DEF MergeInv, Weighed
    <3>3. s.p75 * s.count >= b * s.count
      <4>1. CASE s.count > 0
        BY <1>2, <1>5, <2>3, <4>1, Product
      <4>2. CASE s.count = 0
        BY <1>2, <4>2
      <4>. QED
        BY <1>2, <4>1, <4>2
    <3>4. b * merged'.count = b * merged.count + b * s.count /\ b * merged.count \in Nat /\ b * s.count \in Nat
      <4>1. merged.count \in Nat
        BY <1>1
      <4>2. b * (merged.count + s.count) = b * merged.count + b * s.count /\ b * merged.count \in Nat /\ b * s.count \in Nat
        BY <1>2, <4>1, Product
      <4>. QED
        BY <1>3, <4>2
    <3>5. merged.weighted \in Nat
      BY <1>1
    <3>. QED
      BY <1>2, <1>3, <3>2, <3>3, <3>4, <3>5
  <2>. QED
    BY <2>1, <2>2, <2>3 DEF Weighed
<1>8. Timed'
  <2>1. Raisers' = IF s.raised > 0 THEN Raisers \cup {Len(read) + 1} ELSE Raisers
    BY <1>5 DEF Raisers
  <2>2. \A i \in Raisers : i \in DOMAIN read /\ read'[i] = read[i] /\ read[i].first \in Nat /\ read[i].last \in Nat
    BY <1>5, SummaryFields DEF Raisers
  <2>3. /\ merged.raised > 0 <=> Raisers # {}
        /\ Raisers # {} =>
             /\ \E i \in Raisers : read[i].first = merged.first
             /\ \E i \in Raisers : read[i].last = merged.last
             /\ \A i \in Raisers : merged.first <= read[i].first /\ read[i].last <= merged.last
    BY DEF MergeInv, Timed
  <2>4. merged.raised \in Nat /\ merged.first \in Nat /\ merged.last \in Nat
    BY <1>1
  <2>5. CASE ~(s.raised > 0)
    <3>1. Raisers' = Raisers /\ merged'.raised = merged.raised /\ merged'.first = merged.first /\ merged'.last = merged.last
      BY <1>2, <1>3, <2>1, <2>4, <2>5
    <3>. QED
      BY <2>2, <2>3, <3>1 DEF Timed
  <2>6. CASE s.raised > 0 /\ Raisers = {}
    <3>1. Raisers' = {Len(read) + 1} /\ merged'.first = s.first /\ merged'.last = s.last /\ merged'.raised > 0
      BY <1>2, <1>3, <2>1, <2>3, <2>4, <2>6
    <3>. QED
      BY <1>2, <1>5, <3>1 DEF Timed
  <2>7. CASE s.raised > 0 /\ Raisers # {}
    <3>1. /\ Raisers' = Raisers \cup {Len(read) + 1} /\ merged'.raised > 0
          /\ merged'.first = IF s.first < merged.first THEN s.first ELSE merged.first
          /\ merged'.last = IF s.last > merged.last THEN s.last ELSE merged.last
      BY <1>2, <1>3, <2>1, <2>3, <2>4, <2>7
    <3>2. \A i \in Raisers' : merged'.first <= read'[i].first /\ read'[i].last <= merged'.last
      BY SMTT(20), <1>2, <1>5, <2>2, <2>3, <2>4, <2>7, <3>1
    <3>3. \E i \in Raisers' : read'[i].first = merged'.first
      BY <1>2, <1>5, <2>2, <2>3, <2>7, <3>1
    <3>4. \E i \in Raisers' : read'[i].last = merged'.last
      BY <1>2, <1>5, <2>2, <2>3, <2>7, <3>1
    <3>. QED
      BY <3>1, <3>2, <3>3, <3>4 DEF Timed
  <2>. QED
    BY <2>5, <2>6, <2>7
<1>9. Len(toAsk') + Len(read') + notes' <= Len(rumPods')
  <2>1. Len(toAsk) \in Nat /\ Len(read) \in Nat /\ Len(rumPods) \in Nat
    BY <1>1
  <2>. QED
    BY <1>1, <1>5, <1>6, <2>1
<1>. QED
  BY <1>1, <1>4, <1>5, <1>6, <1>7, <1>8, <1>9 DEF MergeInv, Summary

\* Whatever else happens leaves the merge as it is.
LEMMA AroundMerge ==
  ASSUME MergeInv,
         \/ \E b \in BOOLEAN : RumStart(b) \/ Info(b) \/ NoSummary(b)
         \/ Found \/ WebVitals \/ RumTell \/ UNCHANGED rumToolVars
  PROVE  MergeInv'
<1>1. /\ read \in Seq(Summaries) /\ toAsk \in Seq(STRING) /\ notes \in Nat /\ rumPods \in Seq(STRING)
      /\ merged \in [count : Nat, weighted : Nat, raised : Nat, first : Nat, last : Nat]
  BY DEF MergeInv
<1>2. read' = read /\ merged' = merged
  BY DEF RumStart, Info, NoSummary, Found, WebVitals, RumTell, rumToolVars
<1>3. Weighed' /\ Timed'
  BY <1>2 DEF MergeInv, Weighed, Timed, Raisers
<1>4. /\ toAsk' \in Seq(STRING) /\ rumPods' \in Seq(STRING) /\ notes' \in Nat
      /\ pass' \notin {"summary", "told"} => read' = <<>> /\ notes' = 0
      /\ pass' \in {"summary", "told"} => Len(toAsk') + Len(read') + notes' <= Len(rumPods')
      /\ pass' = "provider" => Len(toAsk') <= Len(rumPods')
  <2>0. Len(read) \in Nat /\ Len(toAsk) \in Nat /\ Len(rumPods) \in Nat /\ Len(<<>>) = 0
    BY <1>1
  <2>1. ASSUME NEW b \in BOOLEAN, RumStart(b)
        PROVE  <1>4!:
    <3>1. Asked(Replicas) \in Seq(STRING) /\ Len(Asked(Replicas)) <= Len(Replicas) /\ Replicas \in Seq(STRING)
      BY AskedType, RumToolsAssumption
    <3>2. read = <<>> /\ notes = 0 /\ notes' = notes
      BY <2>1 DEF RumStart, MergeInv
    <3>3. CASE b
      BY <1>1, <1>2, <2>1, <3>1, <3>2, <3>3 DEF RumStart
    <3>4. CASE ~b
      BY <1>1, <1>2, <2>1, <3>1, <3>2, <3>4 DEF RumStart
    <3>. QED
      BY <3>3, <3>4
  <2>2. ASSUME NEW b \in BOOLEAN, Info(b)
        PROVE  <1>4!:
    <3>1. pass = "info" /\ pass' = pass /\ notes' = notes /\ toAsk' = Tail(toAsk) /\ toAsk # <<>>
      BY <2>2 DEF Info
    <3>2. rumPods' \in Seq(STRING)
      <4>1. Head(toAsk) \in STRING
        BY <1>1, <3>1
      <4>2. rumPods' = rumPods \/ rumPods' = Append(rumPods, Head(toAsk))
        BY <2>2 DEF Info
      <4>3. Append(rumPods, Head(toAsk)) \in Seq(STRING)
        BY <1>1, <4>1, AppendProperties
      <4>. QED
        BY <1>1, <4>2, <4>3
    <3>. QED
      BY <1>1, <1>2, <3>1, <3>2 DEF MergeInv
  <2>3. ASSUME NEW b \in BOOLEAN, NoSummary(b)
        PROVE  <1>4!:
    <3>1. /\ pass = "summary" /\ pass' = pass /\ rumPods' = rumPods /\ toAsk' = Tail(toAsk) /\ toAsk # <<>>
          /\ notes' \in {notes, notes + 1}
      BY <2>3 DEF NoSummary
    <3>2. toAsk' \in Seq(STRING) /\ Len(toAsk') = Len(toAsk) - 1
      BY <1>1, <3>1
    <3>3. Len(toAsk) + Len(read) + notes <= Len(rumPods)
      BY <3>1 DEF MergeInv
    <3>. QED
      BY <1>1, <1>2, <2>0, <3>1, <3>2, <3>3
  <2>4. CASE Found
    <3>1. Asked(rumPods) \in Seq(STRING) /\ Len(Asked(rumPods)) <= Len(rumPods) /\ Len(Asked(rumPods)) \in Nat
      BY <1>1, AskedType
    <3>2. read = <<>> /\ notes = 0
      BY <2>4 DEF Found, MergeInv
    <3>. QED
      BY <1>1, <1>2, <2>0, <2>4, <3>1, <3>2 DEF Found
  <2>5. CASE WebVitals
    <3>1. read = <<>> /\ notes = 0 /\ notes' = notes /\ toAsk' = toAsk /\ rumPods' = rumPods /\
               pass' = "told" /\ pass = "provider"
      BY <2>5 DEF WebVitals, MergeInv
    <3>. QED
      BY <1>1, <1>2, <2>0, <3>1 DEF MergeInv
  <2>6. CASE RumTell \/ UNCHANGED rumToolVars
    BY <1>1, <1>2, <2>6 DEF RumTell, rumToolVars, MergeInv
  <2>. QED
    BY <2>1, <2>2, <2>3, <2>4, <2>5, <2>6
<1>5. told' # "none" => pass' = "told"
  BY DEF MergeInv, RumStart, Info, NoSummary, Found, WebVitals, RumTell, rumToolVars
<1>. QED
  BY <1>1, <1>2, <1>3, <1>4, <1>5 DEF MergeInv

\* The bounds of the parts are those of the mean, and the mean those of the finding.
LEMMA MergeBorneOut == MergeInv => MergeExact
<1>. SUFFICES ASSUME MergeInv, told = "merged"
              PROVE  MergeExact
  BY DEF MergeExact
<1>. DEFINE sampled == {i \in DOMAIN read : read[i].count > 0}
<1>1. /\ read \in Seq(Summaries)
      /\ \A i \in DOMAIN read : read[i].p75 \in Nat /\ read[i].first \in Nat /\ read[i].last \in Nat
      /\ merged.count \in Nat /\ merged.weighted \in Nat
  BY SummaryFields DEF MergeInv
<1>2. ASSUME sampled # {}
      PROVE  /\ P75 \in Nat
             /\ \E i \in sampled : read[i].p75 <= P75
             /\ \E i \in sampled : read[i].p75 >= P75
  <2>1. merged.count > 0 /\ Total = merged.count
    BY <1>1, <1>2 DEF MergeInv, Weighed, Total
  <2>2. P75 \in Nat
    <3>1. 2 * merged.weighted + Total \in Nat /\ 2 * Total \in Nat /\ 2 * Total > 0
      BY <1>1, <2>1
    <3>2. \A a, b \in Nat : b > 0 => a \div b \in Nat
      BY Quotient
    <3>. QED
      BY <3>1, <3>2 DEF P75
  <2>3. \A b \in Nat : /\ merged.weighted <= b * merged.count => P75 <= b
                       /\ merged.weighted >= b * merged.count => P75 >= b
    BY <1>1, <2>1, Rounded DEF P75
  <2>4. ASSUME \A i \in sampled : ~(read[i].p75 <= P75)
        PROVE  FALSE
    <3>1. \A i \in DOMAIN read : read[i].count > 0 => read[i].p75 >= P75 + 1
      BY <1>1, <2>2, <2>4
    <3>2. PICK b \in Nat : b = P75 + 1
      BY <2>2
    <3>3. merged.weighted >= b * merged.count
      BY <3>1, <3>2 DEF MergeInv, Weighed
    <3>. QED
      BY <2>2, <2>3, <3>2, <3>3
  <2>5. ASSUME \A i \in sampled : ~(read[i].p75 >= P75)
        PROVE  FALSE
    <3>1. P75 > 0
      BY <1>1, <1>2, <2>2, <2>5
    <3>2. \A i \in DOMAIN read : read[i].count > 0 => read[i].p75 <= P75 - 1
      BY <1>1, <2>2, <2>5
    <3>3. P75 - 1 \in Nat
      BY <2>2, <3>1
    <3>4. merged.weighted <= (P75 - 1) * merged.count
      BY <3>2, <3>3 DEF MergeInv, Weighed
    <3>. QED
      BY <2>2, <2>3, <3>3, <3>4
  <2>. QED
    BY <2>2, <2>4, <2>5
<1>3. Finding => \E i \in sampled : read[i].p75 > POOR
  <2>. SUFFICES ASSUME Finding
                PROVE  \E i \in sampled : read[i].p75 > POOR
    OBVIOUS
  <2>1. merged.count > 0
    BY <1>1, RumToolsAssumption DEF Finding
  <2>2. sampled # {}
    BY <2>1 DEF MergeInv, Weighed
  <2>3. PICK i \in sampled : read[i].p75 >= P75
    BY <1>2, <2>2
  <2>4. P75 \in Nat /\ read[i].p75 \in Nat /\ POOR \in Nat
    BY <1>1, <1>2, <2>2, RumToolsAssumption
  <2>. QED
    BY <2>3, <2>4 DEF Finding
<1>4. ASSUME Raisers # {}
      PROVE  /\ merged.first = Min({read[i].first : i \in Raisers})
             /\ merged.last = Max({read[i].last : i \in Raisers})
  <2>1. /\ merged.first \in {read[i].first : i \in Raisers}
        /\ merged.last \in {read[i].last : i \in Raisers}
        /\ \A t \in {read[i].first : i \in Raisers} : t \in Nat /\ merged.first <= t
        /\ \A t \in {read[i].last : i \in Raisers} : t \in Nat /\ t <= merged.last
    BY <1>1, <1>4 DEF MergeInv, Timed, Raisers
  <2>. QED
    BY <2>1 DEF Min, Max
<1>5. Len(read) + notes <= Len(rumPods)
  <2>1. toAsk \in Seq(STRING) /\ rumPods \in Seq(STRING) /\ notes \in Nat /\ Len(toAsk) + Len(read) + notes <= Len(rumPods)
    BY DEF MergeInv
  <2>2. Len(toAsk) \in Nat /\ Len(read) \in Nat /\ Len(rumPods) \in Nat
    BY <1>1, <2>1
  <2>. QED
    BY <2>1, <2>2
<1>. QED
  BY <1>2, <1>3, <1>4, <1>5 DEF MergeExact

LEMMA MergeStep == MergeInv /\ [RumToolsNext]_rumToolVars => MergeInv'
BY SummaryStep, AroundMerge DEF RumToolsNext

\* What the RUM tools say of all replicas is borne out by those they could read: the
\* p75 lies between theirs, a finding has a replica that is poor, an error's times are
\* theirs, and no replica is counted twice (hub/tools/rum.ts 66-128, 145-186).
THEOREM MergesAreBorneOut == ToolsSpec => []MergeExact
<1>1. ToolsInit => MergeInv
  BY IdleMerge DEF ToolsInit
<1>2. MergeInv /\ [ToolsNext]_toolVars => MergeInv'
  BY MergeStep DEF ToolsNext, toolVars
<1>. QED
  BY <1>1, <1>2, MergeBorneOut, PTL DEF ToolsSpec
-----------------------------------------------------------------------------
(***************************************************************************)
(* The history of a deployment.                                            *)
(***************************************************************************)

AboveIn(S, f, r) == {s \in S : f[s] > f[r]}

\* Of a finite set with distinct values, for each place there is one element
\* that many others are above of.
LEMMA PlacesFilled ==
  ASSUME NEW S, IsFiniteSet(S), NEW f \in [S -> Int],
         \A r, s \in S : f[r] = f[s] => r = s
  PROVE  \A i \in 1 .. Cardinality(S) : \E r \in S : Cardinality(AboveIn(S, f, r)) = i - 1
<1>. DEFINE n == Cardinality(S)
            place == [r \in S |-> Cardinality(AboveIn(S, f, r)) + 1]
<1>1. n \in Nat /\ IsFiniteSet(1 .. n) /\ Cardinality(1 .. n) = n
  BY FS_CardinalityType, FS_Interval
<1>2. ASSUME NEW r \in S
      PROVE  /\ IsFiniteSet(AboveIn(S, f, r)) /\ Cardinality(AboveIn(S, f, r)) \in Nat
             /\ Cardinality(AboveIn(S, f, r)) < n
  <2>1. AboveIn(S, f, r) \in SUBSET S /\ AboveIn(S, f, r) # S
    BY DEF AboveIn
  <2>2. IsFiniteSet(AboveIn(S, f, r)) /\ Cardinality(AboveIn(S, f, r)) <= n /\ Cardinality(AboveIn(S, f, r)) # n
    BY <2>1, FS_Subset
  <2>3. Cardinality(AboveIn(S, f, r)) \in Nat
    BY <2>2, FS_CardinalityType
  <2>. QED
    BY <1>1, <2>2, <2>3
<1>3. place \in [S -> 1 .. n]
  BY <1>1, <1>2
<1>4. ASSUME NEW r \in S, NEW s \in S, f[r] > f[s]
      PROVE  place[r] # place[s]
  <2>1. AboveIn(S, f, r) \in SUBSET AboveIn(S, f, s) /\ AboveIn(S, f, r) # AboveIn(S, f, s)
    BY <1>4 DEF AboveIn
  <2>2. Cardinality(AboveIn(S, f, r)) # Cardinality(AboveIn(S, f, s))
    BY <1>2, <2>1, FS_Subset
  <2>. QED
    BY <1>2, <2>2
<1>5. place \in Injection(S, 1 .. n)
  BY <1>3, <1>4 DEF Injection, IsInjective
<1>6. place \in Surjection(S, 1 .. n)
  BY <1>1, <1>5, FS_Injection
<1>7. ASSUME NEW i \in 1 .. n
      PROVE  \E r \in S : Cardinality(AboveIn(S, f, r)) = i - 1
  <2>1. PICK r \in S : place[r] = i
    BY <1>6 DEF Surjection
  <2>2. Cardinality(AboveIn(S, f, r)) + 1 = i
    BY <2>1
  <2>. QED
    BY <1>2, <2>2
<1>. QED
  BY <1>7

\* A finite set of numbers has a greatest one.
LEMMA Greatest ==
  ASSUME NEW S \in SUBSET Nat, IsFiniteSet(S), S # {}
  PROVE  Max(S) \in S /\ \A x \in S : x <= Max(S)
<1>. DEFINE f == [x \in S |-> x]
<1>1. Cardinality(S) \in Nat /\ Cardinality(S) # 0
  BY FS_CardinalityType, FS_EmptySet
<1>2. f \in [S -> Int] /\ \A r, s \in S : f[r] = f[s] => r = s
  OBVIOUS
<1>3. PICK m \in S : Cardinality(AboveIn(S, f, m)) = 0
  <2>1. \A i \in 1 .. Cardinality(S) : \E r \in S : Cardinality(AboveIn(S, f, r)) = i - 1
    BY <1>2, PlacesFilled
  <2>2. 1 \in 1 .. Cardinality(S)
    BY <1>1
  <2>. QED
    BY <2>1, <2>2
<1>4. AboveIn(S, f, m) = {}
  BY <1>3, FS_EmptySet, FS_Subset DEF AboveIn
<1>5. \A x \in S : x <= m
  <2>1. \A x \in S : ~(f[x] > f[m])
    BY <1>4 DEF AboveIn
  <2>. QED
    BY <2>1
<1>. QED
  BY <1>5 DEF Max

ReplicaSets == [owner : Nat, template : Templates, revision : Nat]

\* A deployment has one replica set of a revision.
Lawful(S) ==
  /\ IsFiniteSet(S) /\ S \subseteq ReplicaSets
  /\ \A r, s \in S : r.owner = s.owner /\ r.revision = s.revision => r = s

Reaches(S, u, n) == n > 0 => \E r \in OwnedBy(u, S) : r.revision >= n

\* The deployment as listed is the one there is, further on, or one that is gone.
Listed(d) == d \in [uid : Nat, revision : Nat] /\ d.uid <= uid /\ (d.uid = uid => d.revision <= annotated)

ListedToo(S, d) ==
  Lawful(S) /\ d \in [uid : Nat, revision : Nat] /\ d.uid <= uid /\ (d.uid = uid => Reaches(S, d.uid, d.revision))

HistoryInv ==
  /\ uid \in Nat /\ annotated \in Nat /\ Lawful(replicaSets)
  /\ Reaches(replicaSets, uid, annotated)
  /\ history \in {"none", "told", "error"}
  /\ history # "error" =>
       \/ results = <<>> /\ history = "none"
       \/ \E d : results = <<d>> /\ Listed(d) /\ history = "none"
       \/ \E d, S : results = <<d, S>> /\ ListedToo(S, d)
  /\ HistoryExact

-----------------------------------------------------------------------------
\* The newest first: all of them, once each.
LEMMA Sorting ==
  ASSUME NEW S, IsFiniteSet(S), S \subseteq ReplicaSets,
         \A r, s \in S : r.revision = s.revision => r = s
  PROVE  /\ NewestFirst(S) \in Seq(S) /\ Len(NewestFirst(S)) = Cardinality(S)
         /\ \A i, j \in 1 .. Cardinality(S) :
              i < j => NewestFirst(S)[i].revision > NewestFirst(S)[j].revision
         /\ \A r \in S : NewestFirst(S)[1].revision >= r.revision
<1>. DEFINE n == Cardinality(S)
            f == [r \in S |-> r.revision]
            q == NewestFirst(S)
<1>1. n \in Nat
  BY FS_CardinalityType
<1>2. f \in [S -> Int] /\ \A r, s \in S : f[r] = f[s] => r = s
  BY DEF ReplicaSets
<1>3. \A r \in S : AboveIn(S, f, r) = Newer(r, S)
  BY DEF AboveIn, Newer
<1>4. \A i \in 1 .. n : \E r \in S : Cardinality(AboveIn(S, f, r)) = i - 1
  BY <1>2, PlacesFilled
<1>5. \A i \in 1 .. n : \E r \in S : Cardinality(Newer(r, S)) = i - 1
  BY <1>3, <1>4
<1>6. q = [i \in 1 .. n |-> CHOOSE r \in S : Cardinality(Newer(r, S)) = i - 1]
  BY DEF NewestFirst
<1>7. \A i \in 1 .. n : q[i] \in S /\ Cardinality(Newer(q[i], S)) = i - 1
  BY <1>5, <1>6
<1>8. q \in [1 .. n -> S]
  BY <1>6, <1>7
<1>9. q \in Seq(S) /\ Len(q) = n
  BY <1>1, <1>8
<1>10. ASSUME NEW i \in 1 .. n, NEW j \in 1 .. n, i < j
       PROVE  q[i].revision > q[j].revision
  <2>1. SUFFICES ASSUME q[i].revision <= q[j].revision
                 PROVE  FALSE
    BY <1>7 DEF ReplicaSets
  <2>2. Newer(q[j], S) \in SUBSET Newer(q[i], S)
    <3>1. q[i].revision \in Nat /\ q[j].revision \in Nat /\ \A s \in S : s.revision \in Nat
      BY <1>7 DEF ReplicaSets
    <3>2. \A s \in S : s.revision > q[j].revision => s.revision > q[i].revision
      BY <2>1, <3>1
    <3>. QED
      BY <3>2 DEF Newer
  <2>3. IsFiniteSet(Newer(q[i], S))
    BY FS_Subset DEF Newer
  <2>4. Cardinality(Newer(q[j], S)) <= Cardinality(Newer(q[i], S))
    BY <2>2, <2>3, FS_Subset
  <2>. QED
    BY <1>7, <1>10, <2>4
<1>11. ASSUME NEW r \in S
       PROVE  q[1].revision >= r.revision
  <2>1. 1 \in 1 .. n
    BY <1>1, FS_EmptySet
  <2>2. q[1] \in S /\ Cardinality(Newer(q[1], S)) = 0
    BY <1>7, <2>1
  <2>3. Newer(q[1], S) = {}
    BY <2>2, FS_Subset, FS_EmptySet DEF Newer
  <2>. QED
    BY <2>2, <2>3 DEF Newer, ReplicaSets
<1>. QED
  BY <1>9, <1>10, <1>11

\* What a slice keeps of a sequence is a beginning of it, all of it or some for a
\* limit above zero.
LEMMA Slicing ==
  ASSUME NEW T, NEW q \in Seq(T), NEW limit \in Int
  PROVE  /\ Sliced(q, limit) \in Seq(T)
         /\ Len(Sliced(q, limit)) \in 0 .. Len(q)
         /\ \A i \in 1 .. Len(Sliced(q, limit)) : Sliced(q, limit)[i] = q[i]
         /\ limit > 0 /\ Len(q) > 0 => Len(Sliced(q, limit)) > 0
<1>. DEFINE kept == IF limit < 0 THEN Max({0, Len(q) + limit}) ELSE Min({Len(q), limit})
<1>1. kept \in 0 .. Len(q) /\ (limit > 0 /\ Len(q) > 0 => kept > 0)
  <2>1. CASE limit < 0
    <3>1. \E x \in {0, Len(q) + limit} : \A y \in {0, Len(q) + limit} : x >= y
      OBVIOUS
    <3>2. kept \in {0, Len(q) + limit} /\ kept >= 0
      BY <2>1, <3>1 DEF Max
    <3>. QED
      BY <2>1, <3>2
  <2>2. CASE limit >= 0
    <3>1. \E x \in {Len(q), limit} : \A y \in {Len(q), limit} : x <= y
      BY <2>2
    <3>2. kept \in {Len(q), limit} /\ kept <= Len(q)
      BY <2>2, <3>1 DEF Min
    <3>. QED
      BY <2>2, <3>2
  <2>. QED
    BY <2>1, <2>2
<1>2. Sliced(q, limit) = SubSeq(q, 1, kept)
  BY DEF Sliced
<1>. HIDE DEF kept
<1>. QED
  BY <1>1, <1>2

-----------------------------------------------------------------------------
LEMMA HistoryStart == RolloutsIdle => HistoryInv
<1>. SUFFICES ASSUME RolloutsIdle
              PROVE  HistoryInv
  OBVIOUS
<1>1. uid = 0 /\ annotated = 0 /\ replicaSets = {} /\ results = <<>> /\ history = "none"
  BY DEF RolloutsIdle
<1>2. Lawful(replicaSets)
  BY <1>1, FS_EmptySet DEF Lawful
<1>3. Reaches(replicaSets, uid, annotated)
  BY <1>1 DEF Reaches
<1>. QED
  BY <1>1, <1>2, <1>3 DEF HistoryInv, HistoryExact

\* What is latest of a deployment's replica sets.
LEMMA LatestGreatest ==
  ASSUME Lawful(replicaSets)
  PROVE  /\ Latest \in Nat
         /\ \A r \in OwnedBy(uid, replicaSets) : r.revision <= Latest
         /\ Latest > 0 => \E r \in OwnedBy(uid, replicaSets) : r.revision = Latest
<1>. DEFINE own == OwnedBy(uid, replicaSets)
            all == {r.revision : r \in own} \cup {0}
            f   == [r \in own |-> r.revision]
<1>1. IsFiniteSet(own) /\ own \subseteq ReplicaSets
  BY FS_Subset DEF OwnedBy, Lawful
<1>2. f \in Surjection(own, {r.revision : r \in own})
  BY DEF Surjection
<1>3. IsFiniteSet({r.revision : r \in own})
  BY <1>1, <1>2, FS_Surjection
<1>4. IsFiniteSet(all) /\ all \in SUBSET Nat
  BY <1>1, <1>3, FS_AddElement DEF ReplicaSets
<1>5. Max(all) \in all /\ \A x \in all : x <= Max(all)
  BY <1>4, Greatest
<1>6. Latest = Max(all)
  BY DEF Latest
<1>7. Latest \in Nat
  BY <1>4, <1>5, <1>6
<1>8. \A r \in own : r.revision <= Latest
  <2>1. \A r \in own : r.revision \in all
    OBVIOUS
  <2>. QED
    BY <1>5, <1>6, <2>1
<1>9. Latest > 0 => \E r \in own : r.revision = Latest
  <2>1. Latest = 0 \/ \E r \in own : r.revision = Latest
    BY <1>5, <1>6
  <2>. QED
    BY <1>7, <2>1
<1>. QED
  BY <1>7, <1>8, <1>9

\* The deployment controller, and whoever deletes and creates.
LEMMA ChangesGood ==
  ASSUME HistoryInv, Changes
  PROVE  /\ uid' \in Nat /\ annotated' \in Nat /\ Lawful(replicaSets')
         /\ Reaches(replicaSets', uid', annotated')
         /\ uid' >= uid /\ (uid' = uid => annotated' >= annotated)
<1>. USE DEF HistoryInv
<1>1. /\ Latest \in Nat
      /\ \A r \in OwnedBy(uid, replicaSets) : r.revision <= Latest
      /\ Latest > 0 => \E r \in OwnedBy(uid, replicaSets) : r.revision = Latest
  BY LatestGreatest
<1>2. annotated <= Latest
  BY <1>1 DEF Reaches, OwnedBy, Lawful, ReplicaSets
<1>3. ASSUME NEW t \in Templates, Rollout(t)
      PROVE  /\ uid' \in Nat /\ annotated' \in Nat /\ Lawful(replicaSets')
             /\ Reaches(replicaSets', uid', annotated') /\ uid' = uid /\ annotated' = annotated
  <2>. DEFINE new  == [owner |-> uid, template |-> t, revision |-> Latest + 1]
              rest == {r \in replicaSets : r.owner # uid \/ r.template # t}
  <2>1. uid' = uid /\ annotated' = annotated /\ replicaSets' = rest \cup {new}
    BY <1>3 DEF Rollout
  <2>2. new \in ReplicaSets
    BY <1>1 DEF ReplicaSets
  <2>3. IsFiniteSet(rest) /\ rest \subseteq replicaSets
    BY FS_Subset DEF Lawful
  <2>4. IsFiniteSet(replicaSets')
    BY <2>1, <2>3, FS_AddElement
  <2>5. \A r \in rest : r.owner = uid => r.revision # Latest + 1
    BY <1>1, <2>3 DEF OwnedBy
  <2>6. Lawful(replicaSets')
    BY <2>1, <2>2, <2>3, <2>4, <2>5 DEF Lawful
  <2>7. new \in OwnedBy(uid', replicaSets') /\ new.revision >= annotated'
    BY <1>1, <1>2, <2>1 DEF OwnedBy
  <2>. QED
    BY <2>1, <2>6, <2>7 DEF Reaches
<1>4. ASSUME NEW r \in replicaSets, Collect(r)
      PROVE  /\ uid' \in Nat /\ annotated' \in Nat /\ Lawful(replicaSets')
             /\ Reaches(replicaSets', uid', annotated') /\ uid' = uid /\ annotated' = annotated
  <2>1. uid' = uid /\ annotated' = annotated /\ replicaSets' = replicaSets \ {r}
    BY <1>4 DEF Collect
  <2>2. Lawful(replicaSets')
    BY <2>1, FS_RemoveElement DEF Lawful
  <2>3. r.revision \in Nat /\ (r.owner # uid \/ r.revision < annotated)
    BY <1>4 DEF Collect, Lawful, ReplicaSets
  <2>4. \A s \in OwnedBy(uid, replicaSets) : s.revision >= annotated => s \in OwnedBy(uid, replicaSets')
    BY <2>1, <2>3 DEF OwnedBy
  <2>. QED
    BY <2>1, <2>2, <2>4 DEF Reaches
<1>5. CASE Annotate
  <2>1. uid' = uid /\ replicaSets' = replicaSets /\ annotated' = Latest
    BY <1>5 DEF Annotate
  <2>. QED
    BY <1>1, <1>2, <2>1 DEF Reaches
<1>6. CASE Recreate
  BY <1>6 DEF Recreate, Reaches
<1>. QED
  BY <1>3, <1>4, <1>5, <1>6 DEF Changes

LEMMA ChangesStep ==
  ASSUME HistoryInv, Changes
  PROVE  HistoryInv'
<1>1. /\ uid' \in Nat /\ annotated' \in Nat /\ Lawful(replicaSets')
      /\ Reaches(replicaSets', uid', annotated')
      /\ uid' >= uid /\ (uid' = uid => annotated' >= annotated)
  BY ChangesGood
<1>2. history = "none" /\ history' = "none" /\ results' = results
  BY DEF Changes
<1>3. uid \in Nat /\ annotated \in Nat
  BY DEF HistoryInv
<1>4. ASSUME NEW d, Listed(d)
      PROVE  Listed(d)'
  BY <1>1, <1>3, <1>4 DEF Listed
<1>5. ASSUME NEW d, NEW S, ListedToo(S, d)
      PROVE  ListedToo(S, d)'
  BY <1>1, <1>3, <1>5 DEF ListedToo, Lawful, Reaches, OwnedBy
<1>. QED
  BY <1>1, <1>2, <1>4, <1>5 DEF HistoryInv, HistoryExact

LEMMA Lengths ==
  ASSUME NEW x, NEW y
  PROVE  Len(<<x>>) = 1 /\ Len(<<x, y>>) = 2 /\ Append(<<x>>, y) = <<x, y>>
<1>1. Len(<<x>>) = 1
  OBVIOUS
<1>2. Len(<<x, y>>) = 2
  OBVIOUS
<1>3. Append(<<x>>, y) = <<x, y>>
  <2>1. <<x>> \in Seq({x, y}) /\ y \in {x, y} /\ <<x, y>> \in Seq({x, y})
    OBVIOUS
  <2>2. Append(<<x>>, y) \in Seq({x, y}) /\ Len(Append(<<x>>, y)) = 2
    BY <1>1, <2>1, AppendProperties
  <2>3. Append(<<x>>, y)[1] = x /\ Append(<<x>>, y)[2] = y
    BY <1>1, <2>1, AppendProperties
  <2>4. <<x, y>>[1] = x /\ <<x, y>>[2] = y
    OBVIOUS
  <2>5. \A i \in 1 .. 2 : i = 1 \/ i = 2
    OBVIOUS
  <2>6. \A i \in 1 .. 2 : Append(<<x>>, y)[i] = <<x, y>>[i]
    BY <2>3, <2>4, <2>5
  <2>. QED
    BY <1>2, <2>1, <2>2, <2>6, SeqEqual
<1>. QED
  BY <1>1, <1>2, <1>3

LEMMA TakeListStep ==
  ASSUME HistoryInv, TakeList
  PROVE  HistoryInv'
<1>1. /\ UNCHANGED clusterVars /\ history = "none"
      /\ Len(results) < 2 /\ history' \in {"none", "error"}
      /\ results' = Append(results, IF Lists[Len(results) + 1] = "replicaSets" THEN replicaSets
                                    ELSE [uid |-> uid, revision |-> annotated])
  BY DEF TakeList, Lists
<1>2. /\ uid' \in Nat /\ annotated' \in Nat /\ Lawful(replicaSets')
      /\ Reaches(replicaSets', uid', annotated')
  BY <1>1 DEF HistoryInv, clusterVars, Lawful, Reaches, OwnedBy
<1>3. CASE results = <<>>
  <2>1. PICK d : d = [uid |-> uid, revision |-> annotated]
    OBVIOUS
  <2>2. results' = <<d>>
    BY <1>1, <1>3, <2>1 DEF Lists
  <2>3. Listed(d)'
    BY <1>1, <2>1 DEF Listed, clusterVars, HistoryInv
  <2>. QED
    BY <1>1, <1>2, <2>2, <2>3 DEF HistoryInv, HistoryExact
<1>4. ASSUME NEW d, results = <<d>>, Listed(d)
      PROVE  HistoryInv'
  <2>1. PICK S : S = replicaSets
    OBVIOUS
  <2>2. results' = <<d, S>>
    <3>1. results' = Append(<<d>>, S)
      BY <1>1, <1>4, <2>1, Lengths DEF Lists
    <3>. QED
      BY <3>1, Lengths
  <2>3. ListedToo(S, d)'
    BY <1>1, <1>4, <2>1 DEF ListedToo, Listed, HistoryInv, Reaches, OwnedBy, Lawful, ReplicaSets, clusterVars
  <2>. QED
    BY <1>1, <1>2, <2>2, <2>3 DEF HistoryInv, HistoryExact
<1>5. ASSUME NEW d, NEW S, results = <<d, S>>
      PROVE  FALSE
  BY <1>1, <1>5, Lengths
<1>. QED
  BY <1>1, <1>3, <1>4, <1>5 DEF HistoryInv

LEMMA ListFailsStep ==
  ASSUME HistoryInv, ListFails
  PROVE  HistoryInv'
BY DEF ListFails, HistoryInv, HistoryExact, clusterVars, Lawful, Reaches, OwnedBy

\* What the environment shows of a template.
LEMMA EnvShows ==
  ASSUME NEW t
  PROVE  /\ \A k, v : <<k, v>> \in EnvOf(t) <=> \E e \in t.env : e[2] = k /\ Shown(e[3]) = v
         /\ \A k : k \in KeysIn(EnvOf(t)) <=> \E e \in t.env : e[2] = k
<1>1. ASSUME NEW k, NEW v
      PROVE  <<k, v>> \in EnvOf(t) <=> \E e \in t.env : e[2] = k /\ Shown(e[3]) = v
  BY DEF EnvOf
<1>2. ASSUME NEW k
      PROVE  k \in KeysIn(EnvOf(t)) <=> \E e \in t.env : e[2] = k
  <2>1. \A x \in EnvOf(t) : \E e \in t.env : x[1] = e[2]
    BY DEF EnvOf
  <2>2. \A e \in t.env : <<e[2], Shown(e[3])>> \in EnvOf(t)
    BY DEF EnvOf
  <2>3. \A e \in t.env : \E x \in EnvOf(t) : x[1] = e[2]
    BY <2>2
  <2>. QED
    BY <2>1, <2>3 DEF KeysIn
<1>. QED
  BY <1>1, <1>2

\* A diff names the keys whose value has changed, of templates that keep them apart.
LEMMA EnvDiff ==
  ASSUME NEW new \in Templates, NEW old \in Templates, Apart(new, old)
  PROVE  Diff(new, old).env = {e[2] : e \in {e \in new.env \cup old.env :
                                              GivenTo(new, e[1], e[2]) # GivenTo(old, e[1], e[2])}}
<1>. DEFINE named == KeysIn(EnvOf(new) \ EnvOf(old)) \cup (KeysIn(EnvOf(old)) \ KeysIn(EnvOf(new)))
            moved == {e \in new.env \cup old.env : GivenTo(new, e[1], e[2]) # GivenTo(old, e[1], e[2])}
<1>1. Diff(new, old).env = named
  BY DEF Diff
<1>2. ASSUME NEW e \in new.env, <<e[2], Shown(e[3])>> \notin EnvOf(old)
      PROVE  e \in moved
  <2>1. Shown(e[3]) \in GivenTo(new, e[1], e[2])
    BY DEF GivenTo
  <2>2. Shown(e[3]) \notin GivenTo(old, e[1], e[2])
    BY <1>2 DEF GivenTo, EnvOf
  <2>. QED
    BY <2>1, <2>2
<1>3. ASSUME NEW e \in old.env, e[2] \notin KeysIn(EnvOf(new))
      PROVE  e \in moved
  <2>1. Shown(e[3]) \in GivenTo(old, e[1], e[2])
    BY DEF GivenTo
  <2>2. \A f \in new.env : f[2] # e[2]
    BY <1>3, EnvShows
  <2>3. Shown(e[3]) \notin GivenTo(new, e[1], e[2])
    BY <2>2 DEF GivenTo
  <2>. QED
    BY <2>1, <2>3
<1>4. ASSUME NEW k \in named
      PROVE  \E e \in moved : e[2] = k
  <2>1. CASE k \in KeysIn(EnvOf(new) \ EnvOf(old))
    <3>1. PICK e \in new.env : <<e[2], Shown(e[3])>> \notin EnvOf(old) /\ e[2] = k
      BY <2>1 DEF KeysIn, EnvOf
    <3>. QED
      BY <1>2, <3>1
  <2>2. CASE k \in KeysIn(EnvOf(old)) /\ k \notin KeysIn(EnvOf(new))
    <3>1. PICK e \in old.env : e[2] = k
      BY <2>2 DEF KeysIn, EnvOf
    <3>. QED
      BY <1>3, <2>2, <3>1
  <2>. QED
    BY <2>1, <2>2
<1>5. ASSUME NEW e \in moved
      PROVE  e[2] \in named
  <2>1. SUFFICES ASSUME e[2] \notin named
                 PROVE  GivenTo(new, e[1], e[2]) = GivenTo(old, e[1], e[2])
    OBVIOUS
  <2>2. ASSUME NEW f \in new.env, f[2] = e[2]
        PROVE  \E g \in old.env : g[2] = e[2] /\ Shown(g[3]) = Shown(f[3])
    <3>1. <<f[2], Shown(f[3])>> \in EnvOf(new)
      BY DEF EnvOf
    <3>2. e[2] \notin KeysIn(EnvOf(new) \ EnvOf(old))
      BY <2>1
    <3>3. <<f[2], Shown(f[3])>> \in EnvOf(old)
      BY <2>2, <3>1, <3>2 DEF KeysIn
    <3>. QED
      BY <2>2, <3>3, EnvShows
  <2>3. ASSUME NEW g \in old.env, g[2] = e[2]
        PROVE  \E f \in new.env : f[2] = e[2]
    BY <2>1, <2>3, EnvShows
  <2>4. \A f \in new.env, g \in old.env : f[2] = e[2] /\ g[2] = e[2] => Shown(f[3]) = Shown(g[3])
    BY <2>2 DEF Apart
  <2>5. \A f \in new.env \cup old.env : f[2] = e[2] => f[1] = e[1]
    BY DEF Apart
  <2>6. ASSUME NEW v \in GivenTo(new, e[1], e[2])
        PROVE  v \in GivenTo(old, e[1], e[2])
    <3>1. PICK f \in new.env : f[1] = e[1] /\ f[2] = e[2] /\ v = Shown(f[3])
      BY DEF GivenTo
    <3>2. PICK g \in old.env : g[2] = e[2] /\ Shown(g[3]) = v
      BY <2>2, <3>1
    <3>. QED
      BY <2>5, <3>2 DEF GivenTo
  <2>7. ASSUME NEW v \in GivenTo(old, e[1], e[2])
        PROVE  v \in GivenTo(new, e[1], e[2])
    <3>1. PICK g \in old.env : g[1] = e[1] /\ g[2] = e[2] /\ v = Shown(g[3])
      BY DEF GivenTo
    <3>2. PICK f \in new.env : f[2] = e[2]
      BY <2>3, <3>1
    <3>3. f[1] = e[1] /\ Shown(f[3]) = v
      BY <2>4, <2>5, <3>1, <3>2
    <3>. QED
      BY <3>2, <3>3 DEF GivenTo
  <2>. QED
    BY <2>6, <2>7
<1>6. named = {e[2] : e \in moved}
  BY <1>4, <1>5
<1>. QED
  BY <1>1, <1>6

\* Templates whose diff has no word of images and resources have the same images.
LEMMA ImageDiff ==
  ASSUME NEW new \in Templates, NEW old \in Templates,
         Diff(new, old).images = {}, ~Diff(new, old).resources
  PROVE  new.images = old.images
<1>1. new.images \subseteq old.images /\ new.resources = old.resources
  BY DEF Diff
<1>2. {x[1] : x \in new.images} = {x[1] : x \in old.images}
  BY <1>1, RolloutsAssumption DEF OneImageEach
<1>3. \A x, y \in old.images : x[1] = y[1] => x = y
  BY RolloutsAssumption DEF OneImageEach
<1>4. ASSUME NEW x \in old.images
      PROVE  x \in new.images
  <2>1. PICK y \in new.images : y[1] = x[1]
    BY <1>2
  <2>. QED
    BY <1>1, <1>3, <2>1
<1>. QED
  BY <1>1, <1>4

LEMMA RolloutTellStep ==
  ASSUME HistoryInv, NEW n \in Limits, RolloutTell(n)
  PROVE  HistoryInv'
<1>. DEFINE own == OwnedBy(ResultOf("deployments").uid, ResultOf("replicaSets"))
            q   == NewestFirst(own)
<1>1. /\ UNCHANGED <<clusterVars, results>> /\ history = "none" /\ history' = "told"
      /\ Len(results) = 2 /\ revisions' = Sliced(q, n)
      /\ diffs' = [i \in 1 .. Len(revisions') - 1 |-> Diff(revisions'[i].template, revisions'[i + 1].template)]
  BY DEF RolloutTell, Lists
<1>2. PICK d, S : results = <<d, S>> /\ ListedToo(S, d)
  <2>0. Len(results) = 2
    BY <1>1
  <2>1. results # <<>>
    BY <2>0
  <2>2. ASSUME NEW d
        PROVE  results # <<d>>
    <3>1. Len(<<d>>) = 1
      BY Lengths
    <3>. QED
      BY <2>0, <3>1
  <2>. QED
    BY <1>1, <2>1, <2>2 DEF HistoryInv
<1>3. ResultOf("deployments") = d /\ ResultOf("replicaSets") = S
  <2>1. ResultOf("deployments") = results[1] /\ ResultOf("replicaSets") = results[2]
    BY DEF ResultOf, Lists
  <2>. QED
    BY <1>2, <2>1
<1>4. /\ IsFiniteSet(own) /\ own \subseteq ReplicaSets
      /\ \A r, s \in own : r.revision = s.revision => r = s
  BY <1>2, <1>3, FS_Subset DEF ListedToo, Lawful, OwnedBy
<1>5. /\ q \in Seq(own) /\ Len(q) = Cardinality(own) /\ Cardinality(own) \in Nat
      /\ \A i, j \in 1 .. Cardinality(own) : i < j => q[i].revision > q[j].revision
      /\ \A r \in own : q[1].revision >= r.revision
  BY <1>4, Sorting, FS_CardinalityType
<1>6. n \in Int
  BY RolloutsAssumption
<1>7. /\ revisions' \in Seq(own) /\ Len(revisions') \in 0 .. Len(q)
      /\ \A i \in 1 .. Len(revisions') : revisions'[i] = q[i]
      /\ n > 0 /\ Len(q) > 0 => Len(revisions') > 0
  BY <1>1, <1>5, <1>6, Slicing
<1>8. \A i \in 1 .. Len(revisions') - 1 : revisions'[i].revision > revisions'[i + 1].revision
  BY <1>5, <1>7
<1>9. ASSUME uid' = d.uid, d.revision > 0
      PROVE  /\ Limits \subseteq Nat \ {0} => revisions' # <<>>
             /\ revisions' # <<>> => revisions'[1].revision >= d.revision
  <2>1. PICK r \in own : r.revision >= d.revision
    BY <1>1, <1>2, <1>3, <1>9 DEF ListedToo, Reaches, clusterVars
  <2>2. Len(q) > 0
    BY <1>4, <1>5, <2>1, FS_EmptySet
  <2>3. q[1].revision >= d.revision
    <3>1. q[1] \in ReplicaSets /\ r \in ReplicaSets /\ d.revision \in Nat
      BY <1>2, <1>4, <1>5, <2>1, <2>2 DEF ListedToo
    <3>. QED
      BY <1>5, <2>1, <3>1 DEF ReplicaSets
  <2>4. revisions' # <<>> => revisions'[1] = q[1]
    BY <1>7
  <2>. QED
    BY <1>7, <2>2, <2>3, <2>4
<1>10. ASSUME NEW i \in DOMAIN diffs'
       PROVE  LET new == revisions'[i].template
                  old == revisions'[i + 1].template
              IN  /\ Apart(new, old) =>
                       diffs'[i].env = {e[2] : e \in {e \in new.env \cup old.env :
                                                       GivenTo(new, e[1], e[2]) # GivenTo(old, e[1], e[2])}}
                  /\ (diffs'[i].images = {} /\ ~diffs'[i].resources) => new.images = old.images
  <2>1. i \in 1 .. Len(revisions') - 1 /\ i \in 1 .. Len(revisions') /\ i + 1 \in 1 .. Len(revisions')
    BY <1>1, <1>7
  <2>2. revisions'[i].template \in Templates /\ revisions'[i + 1].template \in Templates
    <3>1. revisions'[i] \in own /\ revisions'[i + 1] \in own
      BY <1>7, <2>1
    <3>2. revisions'[i] \in ReplicaSets /\ revisions'[i + 1] \in ReplicaSets
      BY <1>4, <3>1
    <3>. QED
      BY <3>2 DEF ReplicaSets
  <2>3. diffs'[i] = Diff(revisions'[i].template, revisions'[i + 1].template)
    BY <1>1, <2>1
  <2>. QED
    BY <2>2, <2>3, EnvDiff, ImageDiff
<1>11. ResultOf("deployments")' = d
  BY <1>1, <1>3 DEF ResultOf
<1>12. HistoryExact'
  BY <1>8, <1>9, <1>10, <1>11 DEF HistoryExact
<1>13. /\ uid' \in Nat /\ annotated' \in Nat /\ Lawful(replicaSets')
       /\ Reaches(replicaSets', uid', annotated') /\ ListedToo(S, d)'
  BY <1>1, <1>2 DEF HistoryInv, clusterVars, Lawful, Reaches, OwnedBy, ListedToo
<1>. QED
  BY <1>1, <1>2, <1>12, <1>13 DEF HistoryInv

LEMMA HistoryStep == HistoryInv /\ [RolloutsNext]_rolloutVars => HistoryInv'
<1>. SUFFICES ASSUME HistoryInv, [RolloutsNext]_rolloutVars
              PROVE  HistoryInv'
  OBVIOUS
<1>1. CASE UNCHANGED rolloutVars
  BY <1>1 DEF rolloutVars, HistoryInv, HistoryExact, Lawful, Reaches, OwnedBy, Listed, ListedToo, ResultOf
<1>. QED
  BY <1>1, ChangesStep, TakeListStep, ListFailsStep, RolloutTellStep DEF RolloutsNext

\* Whatever the cluster does between the two lists, and whatever limit is asked for, a
\* history is of one deployment, in order and up to its current revision, and its diffs
\* name what has changed (health.ts 66-115).
THEOREM HistoriesAreExact == ToolsSpec => []HistoryExact
<1>1. ToolsInit => HistoryInv
  BY HistoryStart DEF ToolsInit
<1>2. HistoryInv /\ [ToolsNext]_toolVars => HistoryInv'
  BY HistoryStep DEF ToolsNext, toolVars
<1>3. HistoryInv => HistoryExact
  BY DEF HistoryInv
<1>. QED
  BY <1>1, <1>2, <1>3, PTL DEF ToolsSpec

-----------------------------------------------------------------------------
(***************************************************************************)
(* Sums over finite sets.  What MapThenSumSet computes is a function on    *)
(* the subsets, each sum that of a set with one element less.              *)
(***************************************************************************)

LEMMA LeastNumber ==
  ASSUME NEW T, T \subseteq Nat, T # {}
  PROVE  \E m \in T : \A k \in T : m <= k
<1>1. PICK m \in T : \A k \in T : ~(<<k, m>> \in OpToRel(<, Nat))
  BY NatLessThanWellFounded, WFMin
<1>2. \A k \in T : ~(k < m)
  BY <1>1 DEF OpToRel
<1>. QED
  BY <1>2

Some(s) == CHOOSE x \in s : TRUE

Adds(g, F, S) == g = [s \in SUBSET S |-> IF s = {} THEN 0 ELSE F[Some(s)] + g[s \ {Some(s)}]]

UpTo(S, n)       == {s \in SUBSET S : Cardinality(s) <= n}
AddsTo(g, F, S, n) ==
  /\ g \in [UpTo(S, n) -> Nat]
  /\ \A s \in UpTo(S, n) : g[s] = IF s = {} THEN 0 ELSE F[Some(s)] + g[s \ {Some(s)}]

\* The sums of the sets of at most n elements exist.
LEMMA SumsOfSmallSets ==
  ASSUME NEW S, IsFiniteSet(S), NEW F \in [S -> Nat], NEW n \in Nat
  PROVE  \E g : AddsTo(g, F, S, n)
<1>. DEFINE bad == {k \in Nat : ~\E g : AddsTo(g, F, S, k)}
<1>0. \A s \in SUBSET S : IsFiniteSet(s) /\ Cardinality(s) \in Nat
  BY FS_Subset, FS_CardinalityType
<1>1. 0 \notin bad
  <2>. DEFINE g == [s \in UpTo(S, 0) |-> 0]
  <2>1. \A s \in UpTo(S, 0) : s = {}
    BY <1>0, FS_EmptySet DEF UpTo
  <2>2. AddsTo(g, F, S, 0)
    BY <2>1 DEF AddsTo
  <2>. QED
    BY <2>2
<1>2. ASSUME NEW k \in Nat, NEW g, AddsTo(g, F, S, k)
      PROVE  \E h : AddsTo(h, F, S, k + 1)
  <2>. DEFINE h == [s \in UpTo(S, k + 1) |-> IF s = {} THEN 0 ELSE F[Some(s)] + g[s \ {Some(s)}]]
  <2>1. ASSUME NEW s \in UpTo(S, k + 1), s # {}
        PROVE  /\ Some(s) \in S /\ s \ {Some(s)} \in UpTo(S, k)
               /\ s \ {Some(s)} \in UpTo(S, k + 1)
    <3>1. Some(s) \in s /\ s \in SUBSET S /\ Cardinality(s) <= k + 1
      BY <2>1 DEF Some, UpTo
    <3>2. Cardinality(s \ {Some(s)}) = Cardinality(s) - 1
      BY <1>0, <3>1, FS_RemoveElement
    <3>. QED
      BY <1>0, <3>1, <3>2 DEF UpTo
  <2>2. \A s \in UpTo(S, k) : s \in UpTo(S, k + 1)
    BY <1>0 DEF UpTo
  <2>3. \A s \in UpTo(S, k) : h[s] = g[s]
    BY <1>2, <2>2 DEF AddsTo
  <2>4. h \in [UpTo(S, k + 1) -> Nat]
    BY <1>2, <2>1 DEF AddsTo
  <2>5. \A s \in UpTo(S, k + 1) : h[s] = IF s = {} THEN 0 ELSE F[Some(s)] + h[s \ {Some(s)}]
    BY <2>1, <2>3
  <2>6. AddsTo(h, F, S, k + 1)
    BY <2>4, <2>5 DEF AddsTo
  <2>. QED
    BY <2>6
<1>3. bad = {}
  <2>1. SUFFICES ASSUME bad # {}
                 PROVE  FALSE
    OBVIOUS
  <2>2. PICK m \in bad : \A k \in bad : m <= k
    BY <2>1, LeastNumber
  <2>3. m - 1 \in Nat /\ m - 1 \notin bad
    BY <1>1, <2>2
  <2>4. PICK g : AddsTo(g, F, S, m - 1)
    BY <2>3
  <2>. QED
    BY <1>2, <2>2, <2>3, <2>4
<1>. QED
  BY <1>3

LEMMA SumsExist ==
  ASSUME NEW S, IsFiniteSet(S), NEW F \in [S -> Nat]
  PROVE  \E g : Adds(g, F, S)
<1>1. Cardinality(S) \in Nat /\ SUBSET S = UpTo(S, Cardinality(S))
  BY FS_Subset, FS_CardinalityType DEF UpTo
<1>2. PICK g : AddsTo(g, F, S, Cardinality(S))
  BY <1>1, SumsOfSmallSets
<1>3. g \in [SUBSET S -> Nat] /\ \A s \in SUBSET S : g[s] = IF s = {} THEN 0 ELSE F[Some(s)] + g[s \ {Some(s)}]
  BY <1>1, <1>2 DEF AddsTo
<1>. QED
  BY <1>3 DEF Adds

\* What sums are does not depend on the set they are taken in.
LEMMA SumsUnique ==
  ASSUME NEW S, IsFiniteSet(S), NEW F \in [S -> Nat], NEW g, Adds(g, F, S),
         NEW T, IsFiniteSet(T), NEW G \in [T -> Nat], NEW h, Adds(h, G, T),
         NEW s, s \subseteq S, s \subseteq T, \A x \in s : F[x] = G[x]
  PROVE  g[s] = h[s] /\ g[s] \in Nat
<1>. DEFINE bad == {k \in Nat : \E t \in SUBSET s : Cardinality(t) = k /\ ~(g[t] = h[t] /\ g[t] \in Nat)}
<1>1. bad = {}
  <2>1. SUFFICES ASSUME bad # {}
                 PROVE  FALSE
    OBVIOUS
  <2>2. PICK m \in bad : \A k \in bad : m <= k
    BY <2>1, LeastNumber
  <2>3. PICK t \in SUBSET s : Cardinality(t) = m /\ ~(g[t] = h[t] /\ g[t] \in Nat)
    BY <2>2
  <2>4. t \in SUBSET S /\ t \in SUBSET T /\ IsFiniteSet(t) /\ m \in Nat
    BY <2>2, <2>3, FS_Subset
  <2>5. t # {}
    BY <2>3, <2>4 DEF Adds
  <2>6. Some(t) \in t
    BY <2>5 DEF Some
  <2>7. t \ {Some(t)} \in SUBSET s /\ Cardinality(t \ {Some(t)}) = m - 1 /\ m - 1 \in Nat
    <3>1. Cardinality(t \ {Some(t)}) = m - 1 /\ IsFiniteSet(t \ {Some(t)})
      BY <2>3, <2>4, <2>6, FS_RemoveElement
    <3>. QED
      BY <3>1, FS_CardinalityType
  <2>8. g[t \ {Some(t)}] = h[t \ {Some(t)}] /\ g[t \ {Some(t)}] \in Nat
    BY <2>2, <2>4, <2>7
  <2>9. g[t] = F[Some(t)] + g[t \ {Some(t)}] /\ h[t] = G[Some(t)] + h[t \ {Some(t)}]
    BY <2>4, <2>5 DEF Adds
  <2>10. F[Some(t)] = G[Some(t)] /\ F[Some(t)] \in Nat
    BY <2>3, <2>4, <2>6
  <2>. QED
    BY <2>3, <2>8, <2>9, <2>10
<1>2. IsFiniteSet(s) /\ Cardinality(s) \in Nat
  BY FS_Subset, FS_CardinalityType
<1>. QED
  BY <1>1, <1>2

\* Any element may be taken out first.
LEMMA SumsCommute ==
  ASSUME NEW S, IsFiniteSet(S), NEW F \in [S -> Nat], NEW g, Adds(g, F, S),
         NEW s \in SUBSET S, NEW y \in s
  PROVE  g[s] = F[y] + g[s \ {y}]
<1>. DEFINE bad == {k \in Nat : \E t \in SUBSET S : \E z \in t :
                                   Cardinality(t) = k /\ g[t] # F[z] + g[t \ {z}]}
<1>0. \A t \in SUBSET S : IsFiniteSet(t) /\ Cardinality(t) \in Nat /\ g[t] \in Nat
  <2>. TAKE t \in SUBSET S
  <2>1. IsFiniteSet(t) /\ Cardinality(t) \in Nat
    BY FS_Subset, FS_CardinalityType
  <2>2. g[t] \in Nat
    BY SumsUnique
  <2>. QED
    BY <2>1, <2>2
<1>1. bad = {}
  <2>1. SUFFICES ASSUME bad # {}
                 PROVE  FALSE
    OBVIOUS
  <2>2. PICK m \in bad : \A k \in bad : m <= k
    BY <2>1, LeastNumber
  <2>0. PICK t \in SUBSET S : \E z \in t : Cardinality(t) = m /\ g[t] # F[z] + g[t \ {z}]
    BY <2>2
  <2>3. PICK z \in t : Cardinality(t) = m /\ g[t] # F[z] + g[t \ {z}]
    BY <2>0
  <2>. DEFINE c == Some(t)
  <2>4. c \in t /\ t # {}
    BY <2>3 DEF Some
  <2>5. g[t] = F[c] + g[t \ {c}]
    BY <2>4 DEF Adds
  <2>6. c # z
    BY <2>3, <2>5
  <2>. HIDE DEF c
  <2>7. /\ Cardinality(t \ {c}) = m - 1 /\ Cardinality(t \ {z}) = m - 1 /\ m - 1 \in Nat
        /\ t \ {c} \in SUBSET S /\ t \ {z} \in SUBSET S
    <3>1. Cardinality(t \ {c}) = m - 1 /\ Cardinality(t \ {z}) = m - 1
      BY <1>0, <2>3, <2>4, FS_RemoveElement
    <3>. QED
      BY <1>0, <3>1
  <2>8. m - 1 \notin bad
    <3>1. m \in Nat /\ \A k \in bad : m <= k
      BY <2>2
    <3>. HIDE DEF bad
    <3>. QED
      BY <2>7, <3>1
  <2>9. g[t \ {c}] = F[z] + g[(t \ {c}) \ {z}]
    BY <2>3, <2>6, <2>7, <2>8
  <2>10. g[t \ {z}] = F[c] + g[(t \ {z}) \ {c}]
    BY <2>4, <2>6, <2>7, <2>8
  <2>11. (t \ {c}) \ {z} = (t \ {z}) \ {c}
    OBVIOUS
  <2>12. F[c] \in Nat /\ F[z] \in Nat /\ g[(t \ {z}) \ {c}] \in Nat
    BY <1>0, <2>3, <2>4, <2>7
  <2>13. g[t] = F[c] + (F[z] + g[(t \ {z}) \ {c}])
    BY <2>5, <2>9, <2>11
  <2>14. F[z] + g[t \ {z}] = F[z] + (F[c] + g[(t \ {z}) \ {c}])
    BY <2>10
  <2>. QED
    BY <2>3, <2>12, <2>13, <2>14
<1>. QED
  BY <1>0, <1>1

\* The sum of the values of a function on a finite set.
SumOf(F, S) == (CHOOSE g : Adds(g, F, S))[S]

LEMMA SumOfIs ==
  ASSUME NEW S, IsFiniteSet(S), NEW F \in [S -> Nat], NEW g, Adds(g, F, S)
  PROVE  SumOf(F, S) = g[S] /\ g[S] \in Nat
<1>1. Adds(CHOOSE h : Adds(h, F, S), F, S)
  OBVIOUS
<1>. DEFINE h == CHOOSE h : Adds(h, F, S)
<1>2. Adds(h, F, S) /\ SumOf(F, S) = h[S]
  BY <1>1 DEF SumOf
<1>. HIDE DEF h
<1>3. h[S] = g[S] /\ g[S] \in Nat
  BY <1>2, SumsUnique
<1>. QED
  BY <1>2, <1>3

\* A sum over a set with one element more is larger by what the element counts.
LEMMA SumOfMore ==
  ASSUME NEW S, IsFiniteSet(S), NEW F \in [S -> Nat], NEW y, y \notin S,
         NEW G \in [S \cup {y} -> Nat], \A x \in S : F[x] = G[x]
  PROVE  SumOf(G, S \cup {y}) = SumOf(F, S) + G[y] /\ SumOf(F, S) \in Nat
<1>1. IsFiniteSet(S \cup {y})
  BY FS_AddElement
<1>2. PICK f : Adds(f, F, S)
  BY SumsExist
<1>3. PICK g : Adds(g, G, S \cup {y})
  BY <1>1, SumsExist
<1>4. SumOf(F, S) = f[S] /\ f[S] \in Nat /\ SumOf(G, S \cup {y}) = g[S \cup {y}]
  BY <1>1, <1>2, <1>3, SumOfIs
<1>5. g[S \cup {y}] = G[y] + g[(S \cup {y}) \ {y}]
  BY <1>1, <1>3, SumsCommute
<1>6. (S \cup {y}) \ {y} = S
  OBVIOUS
<1>7. f[S] = g[S]
  BY <1>1, <1>2, <1>3, SumsUnique
<1>8. G[y] \in Nat
  OBVIOUS
<1>9. g[S \cup {y}] = G[y] + g[S]
  BY <1>5, <1>6
<1>. QED
  BY <1>4, <1>7, <1>8, <1>9

LEMMA SumOfNone ==
  ASSUME NEW F \in [{} -> Nat]
  PROVE  SumOf(F, {}) = 0
<1>1. IsFiniteSet({})
  BY FS_EmptySet
<1>2. PICK g : Adds(g, F, {})
  BY <1>1, SumsExist
<1>3. g[{}] = 0
  BY <1>2 DEF Adds
<1>. QED
  BY <1>1, <1>2, <1>3, SumOfIs

-----------------------------------------------------------------------------
(***************************************************************************)
(* The summary of pods' logs.                                              *)
(***************************************************************************)

Planned == Min({Len(LogPods), POD_CAP})

\* The first k pods have been asked.
ReadUpTo(k) ==
  /\ unread \in Seq(STRING) /\ Len(unread) = Planned - k
  /\ \A i \in 1 .. Planned - k : unread[i] = LogPods[k + i]
  /\ \A h \in heard : \E i \in 1 .. k : h[1] = LogPods[i]
  /\ \A f \in failures : \E i \in 1 .. k : f = LogPods[i]
  /\ tool # "errors" => Cardinality(heard) + Cardinality(failures) = k

\* The lines the summary is through with.
Behind(x) == ~(text # <<>> /\ x[1] = <<pod, text>> /\ x[2] >= line)
Passed(s) == {x \in Bearing(s) : Behind(x)}

Group == [count : Nat, first : Nat, last : Nat, pods : SUBSET STRING]

Tallied(s) ==
  /\ groups[s].count = Cardinality(Passed(s))
  /\ groups[s].pods = {x[1][1] : x \in Passed(s)}
  /\ Passed(s) = {} => groups[s].first = 0 /\ groups[s].last = 0
  /\ Passed(s) # {} => /\ \E x \in Passed(s) : x[2] = groups[s].first
                       /\ \E x \in Passed(s) : x[2] = groups[s].last
  /\ \A x \in Passed(s) : groups[s].first <= x[2] /\ x[2] <= groups[s].last

InHand ==
  \/ text = <<>> /\ line = 1
  \/ tool = "errors" /\ text # <<>> /\ <<pod, text>> \in heard /\ line \in 1 .. Len(text)

Heard ==
  /\ IsFiniteSet(heard) /\ heard \subseteq STRING \X Seq(Lines)
  /\ \A h \in heard : Len(h[2]) <= TAIL

LogsInv ==
  /\ tool = "none" => LogsIdle
  /\ tool # "none" => \E k \in 0 .. Planned : ReadUpTo(k)
  /\ Heard /\ IsFiniteSet(failures) /\ InHand
  /\ scanned = SumOf([h \in heard |-> Len(h[2])], heard)
  /\ groups \in [Signatures -> Group]
  /\ tool = "errors" => \A s \in Signatures : Tallied(s)

-----------------------------------------------------------------------------
LEMMA PlannedPods == Planned \in Nat /\ Planned <= Len(LogPods)
BY LogsAssumption, SmallerOf DEF Planned

\* A line's place and what it bears, in the terms of its text.
LEMMA BearingShape ==
  ASSUME NEW s
  PROVE  \A x : x \in Bearing(s) <=> /\ x \in heard \X (1 .. TAIL)
                                     /\ x[2] \in DOMAIN x[1][2]
                                     /\ CountsAsError(x[1][2][x[2]])
                                     /\ SignatureOf(x[1][2], x[2]) = s
BY DEF Bearing

LEMMA BearingFinite ==
  ASSUME Heard, NEW s
  PROVE  IsFiniteSet(Bearing(s)) /\ IsFiniteSet(Passed(s)) /\ Cardinality(Passed(s)) \in Nat
<1>1. IsFiniteSet(heard \X (1 .. TAIL))
  <2>1. IsFiniteSet(1 .. TAIL)
    BY LogsAssumption, FS_Interval
  <2>. QED
    BY <2>1, FS_Product DEF Heard
<1>2. Bearing(s) \in SUBSET (heard \X (1 .. TAIL)) /\ Passed(s) \in SUBSET (heard \X (1 .. TAIL))
  BY BearingShape DEF Passed
<1>. QED
  BY <1>1, <1>2, FS_Subset, FS_CardinalityType

LEMMA SignatureType ==
  ASSUME NEW t \in Seq(Lines), NEW i \in 1 .. Len(t)
  PROVE  SignatureOf(t, i) \in Signatures
<1>1. t[i] \in Lines
  OBVIOUS
<1>2. FrameOf(t, i) \in Frames \cup {NoFrame}
  BY <1>1 DEF FrameOf, AtBegin, Stamped, Lines
<1>. QED
  BY <1>1, <1>2 DEF SignatureOf, Signatures, Lines

LEMMA LogsStart == LogsIdle => LogsInv
<1>. SUFFICES ASSUME LogsIdle
              PROVE  LogsInv
  OBVIOUS
<1>1. /\ tool = "none" /\ text = <<>> /\ line = 1 /\ scanned = 0 /\ failures = {} /\ heard = {}
      /\ groups = [s \in Signatures |-> NoGroup]
  BY DEF LogsIdle
<1>2. NoGroup \in Group
  BY DEF NoGroup, Group
<1>3. IsFiniteSet({})
  BY FS_EmptySet
<1>4. [h \in heard |-> Len(h[2])] \in [{} -> Nat]
  BY <1>1
<1>5. scanned = SumOf([h \in heard |-> Len(h[2])], heard)
  BY <1>1, <1>4, SumOfNone
<1>. QED
  BY <1>1, <1>2, <1>3, <1>5 DEF LogsInv, Heard, InHand

LEMMA LogCallStep ==
  ASSUME LogsInv, NEW t \in {"get", "errors", "scan"}, NEW w \in BOOLEAN, LogCall(t, w)
  PROVE  LogsInv'
<1>1. /\ tool = "none" /\ tool' = t /\ unread' = SubSeq(LogPods, 1, Planned)
      /\ UNCHANGED <<pod, text, line, groups, scanned, truncated, failures, heard>>
  BY DEF LogCall, Planned
<1>2. LogsIdle
  BY <1>1 DEF LogsInv
<1>3. heard' = {} /\ failures' = {} /\ text' = <<>> /\ line' = 1
  BY <1>1, <1>2 DEF LogsIdle
<1>4. /\ unread' \in Seq(STRING) /\ Len(unread') = Planned
      /\ \A i \in 1 .. Planned : unread'[i] = LogPods[i]
  BY <1>1, PlannedPods, LogsAssumption
<1>5. Cardinality(heard') + Cardinality(failures') = 0
  BY <1>3, FS_EmptySet
<1>6. ReadUpTo(0)'
  BY <1>3, <1>4, <1>5, PlannedPods DEF ReadUpTo
<1>7. ASSUME NEW s \in Signatures
      PROVE  Tallied(s)'
  <2>1. Passed(s)' = {}
    BY <1>3 DEF Passed, Bearing
  <2>2. groups'[s] = NoGroup
    BY <1>1, <1>2 DEF LogsIdle
  <2>3. Cardinality({}) = 0
    BY FS_EmptySet
  <2>. QED
    BY <2>1, <2>2, <2>3 DEF Tallied, NoGroup
<1>8. Heard' /\ InHand' /\ IsFiniteSet(failures')
  BY <1>3, FS_EmptySet DEF Heard, InHand
<1>9. 0 \in 0 .. Planned /\ tool' # "none"
  BY <1>1, PlannedPods
<1>10. scanned' = SumOf([h \in heard' |-> Len(h[2])], heard') /\ groups' \in [Signatures -> Group]
  BY <1>1 DEF LogsInv
<1>. QED
  BY <1>6, <1>7, <1>8, <1>9, <1>10 DEF LogsInv

\* The log in hand is one of those read.
LEMMA LogInHand ==
  ASSUME LogsInv, text # <<>>
  PROVE  /\ tool = "errors" /\ <<pod, text>> \in heard /\ pod \in STRING
         /\ text \in Seq(Lines) /\ Len(text) \in Nat /\ Len(text) <= TAIL
         /\ line \in 1 .. Len(text)
<1>1. tool = "errors" /\ <<pod, text>> \in heard /\ line \in 1 .. Len(text)
  BY DEF LogsInv, InHand
<1>2. <<pod, text>>[2] = text
  OBVIOUS
<1>3. <<pod, text>> \in STRING \X Seq(Lines) /\ Len(text) <= TAIL
  BY <1>1, <1>2 DEF LogsInv, Heard
<1>. QED
  BY <1>1, <1>3

LEMMA BearingStays ==
  ASSUME UNCHANGED <<heard, warnings>>, NEW s
  PROVE  Bearing(s)' = Bearing(s)
<1>1. \A l : CountsAsError(l)' <=> CountsAsError(l)
  BY DEF CountsAsError
<1>. QED
  BY <1>1 DEF Bearing

\* What is left once the next pod has been asked.
LEMMA NextPod ==
  ASSUME unread # <<>>, NEW k \in 0 .. Planned, ReadUpTo(k), unread' = Tail(unread)
  PROVE  /\ k + 1 \in 0 .. Planned /\ k \in Nat /\ Planned \in Nat /\ k + 1 \in 1 .. Len(LogPods)
         /\ Head(unread) = LogPods[k + 1] /\ Head(unread) \in STRING
         /\ unread' \in Seq(STRING) /\ Len(unread') = Planned - (k + 1)
         /\ \A i \in 1 .. Planned - (k + 1) : unread'[i] = LogPods[(k + 1) + i]
<1>1. Len(unread) \in Nat /\ Len(unread) # 0 /\ unread \in Seq(STRING)
  BY DEF ReadUpTo
<1>2. k + 1 \in 0 .. Planned /\ k \in Nat /\ Planned \in Nat /\ k + 1 \in 1 .. Len(LogPods)
  BY <1>1, PlannedPods, LogsAssumption DEF ReadUpTo
<1>3. Head(unread) = unread[1] /\ Head(unread) \in STRING
  BY <1>1
<1>4. unread' \in Seq(STRING) /\ Len(unread') = Planned - (k + 1)
  BY <1>1, <1>2 DEF ReadUpTo
<1>5. \A i \in 1 .. Planned - (k + 1) : unread'[i] = unread[i + 1]
  BY <1>1, <1>2 DEF ReadUpTo
<1>6. ASSUME NEW i \in 1 .. Planned - (k + 1)
      PROVE  unread'[i] = LogPods[(k + 1) + i]
  <2>1. i + 1 \in 1 .. Planned - k /\ k + (i + 1) = (k + 1) + i
    BY <1>2
  <2>2. unread[i + 1] = LogPods[k + (i + 1)]
    BY <2>1 DEF ReadUpTo
  <2>. QED
    BY <1>5, <2>1, <2>2
<1>7. Head(unread) = LogPods[k + 1]
  <2>1. 1 \in 1 .. Planned - k
    BY <1>1, <1>2 DEF ReadUpTo
  <2>. QED
    BY <1>3, <2>1 DEF ReadUpTo
<1>. QED
  BY <1>2, <1>3, <1>4, <1>6, <1>7

LEMMA ReadLogStep ==
  ASSUME LogsInv, NEW lines \in Logs, ReadLog(lines)
  PROVE  LogsInv'
<1>. DEFINE new == <<Head(unread), lines>>
<1>1. /\ tool # "none" /\ text = <<>> /\ line = 1 /\ unread # <<>> /\ Len(lines) <= TAIL
      /\ lines \in Seq(Lines) /\ Len(lines) \in Nat
      /\ heard' = heard \cup {new} /\ unread' = Tail(unread) /\ scanned' = scanned + Len(lines)
      /\ UNCHANGED <<tool, warnings, line, groups, failures>>
  BY LogsAssumption DEF ReadLog, Between, LogsInv, InHand
<1>2. PICK k \in 0 .. Planned : ReadUpTo(k)
  BY <1>1 DEF LogsInv
<1>3. /\ k + 1 \in 0 .. Planned /\ k \in Nat /\ Planned \in Nat /\ k + 1 \in 1 .. Len(LogPods)
      /\ Head(unread) = LogPods[k + 1] /\ Head(unread) \in STRING
      /\ unread' \in Seq(STRING) /\ Len(unread') = Planned - (k + 1)
      /\ \A i \in 1 .. Planned - (k + 1) : unread'[i] = LogPods[(k + 1) + i]
  BY <1>1, <1>2, NextPod
<1>4. ASSUME NEW h \in heard
      PROVE  h[1] # Head(unread)
  <2>1. PICK i \in 1 .. k : h[1] = LogPods[i]
    BY <1>2 DEF ReadUpTo
  <2>2. i \in DOMAIN LogPods /\ k + 1 \in DOMAIN LogPods /\ i # k + 1
    BY <1>3, <2>1, LogsAssumption
  <2>3. LogPods[i] # LogPods[k + 1]
    BY <2>2, LogsAssumption
  <2>. QED
    BY <1>3, <2>1, <2>3
<1>5. new \notin heard
  BY <1>4
<1>6. Heard'
  <2>1. IsFiniteSet(heard')
    BY <1>1, FS_AddElement DEF LogsInv, Heard
  <2>. QED
    BY <1>1, <1>3, <2>1 DEF LogsInv, Heard
<1>7. Cardinality(heard') = Cardinality(heard) + 1 /\ Cardinality(heard) \in Nat
  BY <1>1, <1>5, FS_AddElement, FS_CardinalityType DEF LogsInv, Heard
<1>8. ReadUpTo(k + 1)'
  <2>1. \A h \in heard' : \E i \in 1 .. k + 1 : h[1] = LogPods[i]
    BY <1>1, <1>2, <1>3 DEF ReadUpTo
  <2>2. \A f \in failures' : \E i \in 1 .. k + 1 : f = LogPods[i]
    BY <1>1, <1>2, <1>3 DEF ReadUpTo
  <2>3. tool' # "errors" => Cardinality(heard') + Cardinality(failures') = k + 1
    <3>1. Cardinality(failures) \in Nat
      BY FS_CardinalityType DEF LogsInv
    <3>. QED
      BY <1>1, <1>2, <1>7, <3>1 DEF ReadUpTo
  <2>. QED
    BY <1>3, <2>1, <2>2, <2>3 DEF ReadUpTo
<1>9. scanned' = SumOf([h \in heard' |-> Len(h[2])], heard')
  <2>. DEFINE F == [h \in heard |-> Len(h[2])]
              G == [h \in heard \cup {new} |-> Len(h[2])]
  <2>1. F \in [heard -> Nat]
    BY DEF LogsInv, Heard
  <2>2. G \in [heard \cup {new} -> Nat] /\ G[new] = Len(lines) /\ \A x \in heard : F[x] = G[x]
    BY <1>1 DEF LogsInv, Heard
  <2>3. IsFiniteSet(heard)
    BY DEF LogsInv, Heard
  <2>4. SumOf(G, heard \cup {new}) = SumOf(F, heard) + G[new]
    <3>. HIDE DEF F, G, new
    <3>. QED
      BY <1>5, <2>1, <2>2, <2>3, SumOfMore
  <2>. QED
    BY <1>1, <2>2, <2>4 DEF LogsInv
<1>10. InHand'
  BY <1>1 DEF ReadLog, InHand
<1>11. ASSUME tool = "errors", NEW s \in Signatures
       PROVE  Tallied(s)'
  <2>1. Tallied(s)
    BY <1>11 DEF LogsInv
  <2>2. \A x : x \in Passed(s) <=> x \in Bearing(s)
    BY <1>1 DEF Passed, Behind
  <2>3. (lines = <<>> /\ text' = <<>>) \/ (text' = lines /\ pod' = Head(unread))
    BY <1>1, <1>11 DEF ReadLog
  <2>4. ASSUME NEW x
        PROVE  x \in Passed(s)' <=> x \in Bearing(s)
    <3>1. x \in Bearing(s)' <=> /\ x \in heard' \X (1 .. TAIL)
                                /\ x[2] \in DOMAIN x[1][2]
                                /\ CountsAsError(x[1][2][x[2]])
                                /\ SignatureOf(x[1][2], x[2]) = s
      BY <1>1 DEF Bearing, CountsAsError
    <3>2. x \in Bearing(s) <=> /\ x \in heard \X (1 .. TAIL)
                               /\ x[2] \in DOMAIN x[1][2]
                               /\ CountsAsError(x[1][2][x[2]])
                               /\ SignatureOf(x[1][2], x[2]) = s
      BY BearingShape
    <3>3. ASSUME x \in Bearing(s)
          PROVE  x \in Passed(s)'
      <4>1. x[1] \in heard /\ x \in Bearing(s)'
        BY <1>1, <3>1, <3>2, <3>3
      <4>2. x[1] # new
        BY <1>5, <4>1
      <4>3. Behind(x)'
        BY <2>3, <4>2 DEF Behind
      <4>. QED
        BY <4>1, <4>3 DEF Passed
    <3>4. ASSUME x \in Passed(s)', x \notin Bearing(s)
          PROVE  FALSE
      <4>1. x \in Bearing(s)' /\ Behind(x)'
        BY <3>4 DEF Passed
      <4>2. x[1] = new /\ x[2] \in 1 .. TAIL /\ x[2] \in DOMAIN lines
        BY <1>1, <3>1, <3>2, <3>4, <4>1
      <4>3. lines # <<>>
        BY <4>2
      <4>. QED
        BY <1>1, <2>3, <4>1, <4>2, <4>3 DEF Behind
    <3>. QED
      BY <3>3, <3>4
  <2>5. Passed(s)' = Passed(s)
    BY <2>2, <2>4
  <2>. QED
    BY <1>1, <2>1, <2>5 DEF Tallied
<1>. QED
  BY <1>1, <1>3, <1>6, <1>8, <1>9, <1>10, <1>11 DEF LogsInv

LEMMA LogFailsStep ==
  ASSUME LogsInv, LogFails
  PROVE  LogsInv'
<1>1. /\ tool # "none" /\ text = <<>> /\ line = 1 /\ unread # <<>>
      /\ unread' = Tail(unread)
      /\ failures' = IF tool = "errors" THEN failures ELSE failures \cup {Head(unread)}
      /\ UNCHANGED <<tool, warnings, pod, text, line, groups, scanned, truncated, heard>>
  BY DEF LogFails, Between, LogsInv, InHand
<1>2. PICK k \in 0 .. Planned : ReadUpTo(k)
  BY <1>1 DEF LogsInv
<1>3. /\ k + 1 \in 0 .. Planned /\ k \in Nat
      /\ ReadUpTo(k + 1)'
  <2>1. k + 1 \in 0 .. Planned /\ k \in Nat /\ k + 1 \in 1 .. Len(LogPods) /\ Head(unread) = LogPods[k + 1]
        /\ unread' \in Seq(STRING) /\ Len(unread') = Planned - (k + 1)
        /\ \A i \in 1 .. Planned - (k + 1) : unread'[i] = LogPods[(k + 1) + i]
    BY <1>1, <1>2, NextPod
  <2>2. Head(unread) \notin failures
    <3>1. ASSUME NEW f \in failures
          PROVE  f # Head(unread)
      <4>1. PICK i \in 1 .. k : f = LogPods[i]
        BY <1>2 DEF ReadUpTo
      <4>2. i \in DOMAIN LogPods /\ k + 1 \in DOMAIN LogPods /\ i # k + 1
        BY <2>1, <4>1, LogsAssumption
      <4>3. LogPods[i] # LogPods[k + 1]
        BY <4>2, LogsAssumption
      <4>. QED
        BY <2>1, <4>1, <4>3
    <3>. QED
      BY <3>1
  <2>3. tool' # "errors" => Cardinality(heard') + Cardinality(failures') = k + 1
    <3>1. Cardinality(failures) \in Nat /\ Cardinality(heard) \in Nat
      BY FS_CardinalityType DEF LogsInv, Heard
    <3>2. tool # "errors" => Cardinality(failures') = Cardinality(failures) + 1
      BY <1>1, <2>2, FS_AddElement DEF LogsInv
    <3>. QED
      BY <1>1, <1>2, <3>1, <3>2 DEF ReadUpTo
  <2>4. \A f \in failures' : \E i \in 1 .. k + 1 : f = LogPods[i]
    BY <1>1, <1>2, <2>1 DEF ReadUpTo
  <2>5. \A h \in heard' : \E i \in 1 .. k + 1 : h[1] = LogPods[i]
    BY <1>1, <1>2, <2>1 DEF ReadUpTo
  <2>. QED
    BY <2>1, <2>3, <2>4, <2>5 DEF ReadUpTo
<1>4. IsFiniteSet(failures')
  BY <1>1, FS_AddElement DEF LogsInv
<1>5. ASSUME NEW s \in Signatures, tool = "errors"
      PROVE  Tallied(s)'
  <2>1. Bearing(s)' = Bearing(s)
    BY <1>1, BearingStays
  <2>2. Passed(s)' = Passed(s)
    BY <1>1, <2>1 DEF Passed, Behind
  <2>3. Tallied(s)
    BY <1>1, <1>5 DEF LogsInv
  <2>. QED
    BY <1>1, <2>2, <2>3 DEF Tallied
<1>6. Heard' /\ InHand' /\ scanned' = SumOf([h \in heard' |-> Len(h[2])], heard') /\ groups' \in [Signatures -> Group]
  BY <1>1 DEF LogsInv, Heard, InHand
<1>. QED
  BY <1>1, <1>3, <1>4, <1>5, <1>6 DEF LogsInv

\* A line is gone through: what has been passed is more by that line, if it counts.
LEMMA PassedMoves ==
  ASSUME LogsInv, GroupLine, NEW s
  PROVE  Passed(s)' = IF CountsAsError(text[line]) /\ SignatureOf(text, line) = s
                      THEN Passed(s) \cup {<<<<pod, text>>, line>>} ELSE Passed(s)
<1>. DEFINE here == <<<<pod, text>>, line>>
<1>1. /\ text # <<>> /\ UNCHANGED <<heard, warnings>>
      /\ \/ line < Len(text) /\ line' = line + 1 /\ pod' = pod /\ text' = text
         \/ line = Len(text) /\ text' = <<>>
      /\ <<pod, text>> \in heard /\ line \in 1 .. Len(text) /\ Len(text) \in Nat
      /\ text \in Seq(Lines) /\ Len(text) <= TAIL
  <2>1. /\ text # <<>> /\ heard' = heard /\ warnings' = warnings
        /\ \/ line < Len(text) /\ line' = line + 1 /\ pod' = pod /\ text' = text
           \/ ~(line < Len(text)) /\ text' = <<>>
    BY DEF GroupLine
  <2>2. /\ <<pod, text>> \in heard /\ line \in 1 .. Len(text) /\ Len(text) \in Nat
        /\ text \in Seq(Lines) /\ Len(text) <= TAIL
    BY <2>1, LogInHand
  <2>. QED
    BY <2>1, <2>2
<1>2. ASSUME NEW x
      PROVE  /\ x \in Bearing(s) <=> /\ x \in heard \X (1 .. TAIL)
                                     /\ x[2] \in DOMAIN x[1][2]
                                     /\ CountsAsError(x[1][2][x[2]])
                                     /\ SignatureOf(x[1][2], x[2]) = s
             /\ x \in Bearing(s)' <=> x \in Bearing(s)
  BY <1>1, BearingShape DEF Bearing, CountsAsError
<1>3. here \in Bearing(s) <=> CountsAsError(text[line]) /\ SignatureOf(text, line) = s
  <2>1. here[1] = <<pod, text>> /\ here[1][2] = text /\ here[2] = line
    OBVIOUS
  <2>2. here \in heard \X (1 .. TAIL) /\ line \in DOMAIN text
    <3>1. line \in 1 .. TAIL
      BY <1>1, LogsAssumption
    <3>2. line \in DOMAIN text
      BY <1>1
    <3>. QED
      BY <1>1, <3>1, <3>2
  <2>. QED
    BY <1>2, <2>1, <2>2
<1>4. ASSUME NEW x \in Bearing(s)
      PROVE  Behind(x)' <=> Behind(x) \/ x = here
  <2>1. x \in heard \X (1 .. TAIL) /\ x[2] \in DOMAIN x[1][2]
    BY <1>2
  <2>2. x = here <=> x[1] = <<pod, text>> /\ x[2] = line
    BY <2>1
  <2>3. x[1] = <<pod, text>> => x[2] \in 1 .. Len(text)
    BY <1>1, <2>1
  <2>. QED
    BY <1>1, <2>1, <2>2, <2>3 DEF Behind
<1>5. \A x : x \in Passed(s)' <=> x \in Bearing(s) /\ (Behind(x) \/ x = here)
  BY <1>2, <1>4 DEF Passed
<1>6. CASE CountsAsError(text[line]) /\ SignatureOf(text, line) = s
  <2>1. here \in Bearing(s)
    BY <1>3, <1>6
  <2>2. \A x : x \in Passed(s)' <=> x \in Passed(s) \cup {here}
    BY <1>5, <2>1 DEF Passed
  <2>. QED
    BY <1>6, <2>2
<1>7. CASE ~(CountsAsError(text[line]) /\ SignatureOf(text, line) = s)
  <2>1. here \notin Bearing(s)
    BY <1>3, <1>7
  <2>2. \A x : x \in Passed(s)' <=> x \in Passed(s)
    BY <1>5, <2>1 DEF Passed
  <2>. QED
    BY <1>7, <2>2
<1>. QED
  BY <1>6, <1>7

\* A line joins the group of its signature.
LEMMA JoinedGroup ==
  ASSUME LogsInv, GroupLine, CountsAsError(text[line]),
         NEW s \in Signatures, s = SignatureOf(text, line)
  PROVE  groups'[s] \in Group /\ Tallied(s)'
<1>. DEFINE here == <<<<pod, text>>, line>>
<1>1. /\ text # <<>> /\ tool = "errors" /\ <<pod, text>> \in heard
      /\ line \in 1 .. Len(text) /\ Len(text) \in Nat /\ line \in Nat /\ line > 0 /\ pod \in STRING
      /\ groups' = [groups EXCEPT ![s] = Join(groups[s], line)]
  <2>1. text # <<>> /\ groups' = [groups EXCEPT ![s] = Join(groups[s], line)]
    BY DEF GroupLine
  <2>2. /\ tool = "errors" /\ <<pod, text>> \in heard /\ pod \in STRING
        /\ line \in 1 .. Len(text) /\ Len(text) \in Nat
    BY <2>1, LogInHand
  <2>. QED
    BY <2>1, <2>2
<1>2. groups[s] \in Group /\ Tallied(s) /\ Heard
  BY <1>1 DEF LogsInv
<1>3. groups'[s] = Join(groups[s], line)
  BY <1>1 DEF LogsInv
<1>4. Passed(s)' = Passed(s) \cup {here}
  BY PassedMoves
<1>5. here \notin Passed(s)
  BY <1>1 DEF Passed, Behind
<1>6. IsFiniteSet(Passed(s)) /\ Cardinality(Passed(s)) \in Nat
  BY <1>2, BearingFinite
<1>7. Cardinality(Passed(s)') = Cardinality(Passed(s)) + 1
  BY <1>4, <1>5, <1>6, FS_AddElement
<1>8. here[1][1] = pod /\ here[2] = line
  OBVIOUS
<1>9. \A x \in Passed(s) : x[2] \in Nat /\ x[2] > 0
  BY LogsAssumption, BearingShape DEF Passed
<1>. DEFINE g == groups[s]
            j == groups'[s]
<1>10. /\ j.count = g.count + 1 /\ j.pods = g.pods \cup {pod}
       /\ j.first = IF g.first = 0 \/ line < g.first THEN line ELSE g.first
       /\ j.last = IF line > g.last THEN line ELSE g.last
  BY <1>3 DEF Join
<1>11. j \in Group
  BY <1>1, <1>2, <1>3 DEF Join, Group
<1>12. g.count = Cardinality(Passed(s)) /\ g.pods = {x[1][1] : x \in Passed(s)} /\ g.first \in Nat /\ g.last \in Nat
  BY <1>2 DEF Tallied, Group
<1>13. j.count = Cardinality(Passed(s)')
  BY <1>7, <1>10, <1>12
<1>14. j.pods = {x[1][1] : x \in Passed(s)'}
  BY <1>4, <1>8, <1>10, <1>12
<1>15. /\ \E x \in Passed(s)' : x[2] = j.first
       /\ \E x \in Passed(s)' : x[2] = j.last
       /\ \A x \in Passed(s)' : j.first <= x[2] /\ x[2] <= j.last
  <2>1. here \in Passed(s)' /\ Passed(s) \subseteq Passed(s)'
    BY <1>4
  <2>2. CASE Passed(s) = {}
    <3>1. g.first = 0 /\ g.last = 0 /\ Passed(s)' = {here}
      BY <1>2, <1>4, <2>2 DEF Tallied
    <3>2. j.first = line /\ j.last = line
      BY <1>1, <1>10, <3>1
    <3>. QED
      BY <1>1, <1>8, <3>1, <3>2
  <2>3. CASE Passed(s) # {}
    <3>1. /\ \E x \in Passed(s) : x[2] = g.first
          /\ \E x \in Passed(s) : x[2] = g.last
          /\ \A x \in Passed(s) : g.first <= x[2] /\ x[2] <= g.last
      BY <1>2, <2>3 DEF Tallied
    <3>2. g.first > 0
      BY <1>9, <3>1
    <3>3. j.first \in {line, g.first} /\ j.last \in {line, g.last}
      BY <1>10
    <3>4. j.first <= line /\ j.first <= g.first /\ line <= j.last /\ g.last <= j.last
      BY <1>1, <1>10, <1>12, <3>2
    <3>5. \A x \in Passed(s) : j.first <= x[2] /\ x[2] <= j.last
      BY <1>1, <1>9, <1>12, <3>1, <3>3, <3>4
    <3>6. \A x \in Passed(s)' : j.first <= x[2] /\ x[2] <= j.last
      BY <1>4, <1>8, <3>4, <3>5
    <3>. QED
      BY <1>8, <2>1, <3>1, <3>3, <3>6
  <2>. QED
    BY <2>2, <2>3
<1>16. Passed(s)' # {}
  BY <1>4
<1>. QED
  BY <1>11, <1>13, <1>14, <1>15, <1>16 DEF Tallied

LEMMA GroupLineStep ==
  ASSUME LogsInv, GroupLine
  PROVE  LogsInv'
<1>1. /\ text # <<>> /\ tool = "errors" /\ <<pod, text>> \in heard
      /\ line \in 1 .. Len(text) /\ Len(text) \in Nat /\ text \in Seq(Lines)
      /\ UNCHANGED <<tool, warnings, unread, scanned, truncated, failures, heard>>
      /\ groups' = IF CountsAsError(text[line])
                   THEN [groups EXCEPT ![SignatureOf(text, line)] = Join(@, line)] ELSE groups
  BY LogInHand DEF GroupLine
<1>2. SignatureOf(text, line) \in Signatures
  BY <1>1, SignatureType
<1>3. InHand'
  <2>1. \/ line' = line + 1 /\ line < Len(text) /\ pod' = pod /\ text' = text
        \/ line' = 1 /\ text' = <<>>
    BY DEF GroupLine
  <2>. QED
    BY <1>1, <2>1 DEF InHand
<1>4. ASSUME NEW s \in Signatures
      PROVE  groups'[s] \in Group /\ Tallied(s)'
  <2>1. CASE CountsAsError(text[line]) /\ SignatureOf(text, line) = s
    BY <2>1, JoinedGroup
  <2>2. CASE ~(CountsAsError(text[line]) /\ SignatureOf(text, line) = s)
    <3>1. groups'[s] = groups[s]
      BY <1>1, <2>2 DEF LogsInv
    <3>2. Passed(s)' = Passed(s)
      BY <2>2, PassedMoves
    <3>3. groups[s] \in Group /\ Tallied(s)
      BY <1>1 DEF LogsInv
    <3>. QED
      BY <3>1, <3>2, <3>3 DEF Tallied
  <2>. QED
    BY <2>1, <2>2
<1>5. groups' \in [Signatures -> Group]
  <2>1. groups' = [s \in Signatures |-> groups'[s]]
    BY <1>1 DEF LogsInv
  <2>. QED
    BY <1>4, <2>1
<1>6. Heard' /\ scanned' = SumOf([h \in heard' |-> Len(h[2])], heard') /\ IsFiniteSet(failures')
  BY <1>1 DEF LogsInv, Heard
<1>7. \E k \in 0 .. Planned : ReadUpTo(k)'
  BY <1>1 DEF LogsInv, ReadUpTo
<1>. QED
  BY <1>1, <1>3, <1>4, <1>5, <1>6, <1>7 DEF LogsInv

LEMMA LogsStep == LogsInv /\ [LogsNext]_logVars => LogsInv'
<1>. SUFFICES ASSUME LogsInv, [LogsNext]_logVars
              PROVE  LogsInv'
  OBVIOUS
<1>1. CASE UNCHANGED logVars
  <2>1. \A s : Passed(s)' = Passed(s)
    BY <1>1, BearingStays DEF logVars, Passed, Behind
  <2>2. \A s : Tallied(s)' <=> Tallied(s)
    BY <1>1, <2>1 DEF logVars, Tallied
  <2>. QED
    BY <1>1, <2>2 DEF logVars, LogsInv, LogsIdle, ReadUpTo, Heard, InHand
<1>2. ASSUME NEW w \in BOOLEAN, NEW t \in {"get", "errors", "scan"}, LogCall(t, w)
      PROVE  LogsInv'
  BY <1>2, LogCallStep
<1>. QED
  BY <1>1, <1>2, ReadLogStep, LogFailsStep, GroupLineStep DEF LogsNext

LEMMA LogsBorneOut == LogsInv => LogsExact
<1>. SUFFICES ASSUME LogsInv, LogsTold
              PROVE  /\ tool = "errors" => \A s \in Signatures :
                          LET times == {x[2] : x \in Bearing(s)}
                          IN  /\ groups[s].count = Cardinality(Bearing(s))
                              /\ groups[s].pods = {x[1][1] : x \in Bearing(s)}
                              /\ times # {} => groups[s].first = Min(times) /\ groups[s].last = Max(times)
                     /\ scanned = MapThenSumSet(LAMBDA h : Len(h[2]), heard)
                     /\ tool # "errors" => Cardinality(heard) + Cardinality(failures) = Min({Len(LogPods), POD_CAP})
  BY DEF LogsExact
<1>1. tool # "none" /\ text = <<>> /\ unread = <<>>
  BY DEF LogsTold, Between
<1>2. ASSUME tool = "errors", NEW s \in Signatures
      PROVE  LET times == {x[2] : x \in Bearing(s)}
             IN  /\ groups[s].count = Cardinality(Bearing(s))
                 /\ groups[s].pods = {x[1][1] : x \in Bearing(s)}
                 /\ times # {} => groups[s].first = Min(times) /\ groups[s].last = Max(times)
  <2>. DEFINE times == {x[2] : x \in Bearing(s)}
  <2>1. Tallied(s) /\ Passed(s) = Bearing(s)
    BY <1>1, <1>2 DEF LogsInv, Passed, Behind
  <2>2. times \subseteq Nat
    BY LogsAssumption, BearingShape
  <2>3. ASSUME times # {}
        PROVE  groups[s].first = Min(times) /\ groups[s].last = Max(times)
    <3>1. groups[s].first \in times /\ groups[s].last \in times
      BY <2>1, <2>3 DEF Tallied
    <3>2. \A t \in times : groups[s].first <= t /\ t <= groups[s].last
      BY <2>1 DEF Tallied
    <3>. HIDE DEF times
    <3>3. Min(times) \in times /\ \A t \in times : Min(times) <= t
      BY <3>1, <3>2 DEF Min
    <3>4. Max(times) \in times /\ \A t \in times : t <= Max(times)
      BY <3>1, <3>2 DEF Max
    <3>5. Min(times) <= groups[s].first /\ groups[s].first <= Min(times)
      BY <3>1, <3>2, <3>3
    <3>6. Max(times) <= groups[s].last /\ groups[s].last <= Max(times)
      BY <3>1, <3>2, <3>4
    <3>7. {Min(times), Max(times), groups[s].first, groups[s].last} \subseteq Nat
      BY <2>2, <3>1, <3>3, <3>4
    <3>. QED
      BY <3>5, <3>6, <3>7
  <2>. QED
    BY <2>1, <2>3 DEF Tallied
<1>3. scanned = MapThenSumSet(LAMBDA h : Len(h[2]), heard)
  <2>. DEFINE F == [h \in heard |-> Len(h[2])]
              W(f) == f = [s \in SUBSET heard |-> IF s = {} THEN 0 ELSE Len(Some(s)[2]) + f[s \ {Some(s)}]]
  <2>1. IsFiniteSet(heard) /\ F \in [heard -> Nat]
    BY DEF LogsInv, Heard
  <2>2. \A f : Adds(f, F, heard) <=> W(f)
    <3>1. \A s \in SUBSET heard : s # {} => F[Some(s)] = Len(Some(s)[2])
      BY DEF Some
    <3>. QED
      BY <3>1 DEF Adds
  <2>3. PICK f : Adds(f, F, heard)
    BY <2>1, SumsExist
  <2>4. W(CHOOSE g : W(g))
    BY <2>2, <2>3
  <2>5. Adds(CHOOSE g : W(g), F, heard)
    BY <2>2, <2>4
  <2>6. MapThenSumSet(LAMBDA h : Len(h[2]), heard) = (CHOOSE g : W(g))[heard]
    BY Zenon DEF MapThenSumSet, MapThenFoldSet, Some
  <2>7. SumOf(F, heard) = (CHOOSE g : W(g))[heard]
    BY <2>1, <2>5, SumOfIs
  <2>. QED
    BY <2>6, <2>7 DEF LogsInv
<1>4. tool # "errors" => Cardinality(heard) + Cardinality(failures) = Min({Len(LogPods), POD_CAP})
  <2>1. PICK k \in 0 .. Planned : ReadUpTo(k)
    BY <1>1 DEF LogsInv
  <2>2. Planned - k = 0
    BY <1>1, <2>1 DEF ReadUpTo
  <2>. QED
    BY <2>1, <2>2, PlannedPods DEF ReadUpTo, Planned
<1>. QED
  BY <1>2, <1>3, <1>4

\* However many pods there are and whichever of them cannot be read, every line that
\* counts is in one group and every pod is accounted for (logs.ts 21-34, 110-157,
\* 166-181).
THEOREM LogsAreExact == ToolsSpec => []LogsExact
<1>1. ToolsInit => LogsInv
  BY LogsStart DEF ToolsInit
<1>2. LogsInv /\ [ToolsNext]_toolVars => LogsInv'
  BY LogsStep DEF ToolsNext, toolVars
<1>. QED
  BY <1>1, <1>2, LogsBorneOut, PTL DEF ToolsSpec

-----------------------------------------------------------------------------
(***************************************************************************)
(* What is counted in a part of a table of numbers.                        *)
(***************************************************************************)
Amount(f, A) == SumOf([x \in A |-> f[x]], A)

LEMMA AmountNone ==
  ASSUME NEW f
  PROVE  Amount(f, {}) = 0
<1>1. [x \in {} |-> f[x]] \in [{} -> Nat]
  OBVIOUS
<1>. QED
  BY <1>1, SumOfNone DEF Amount

LEMMA AmountMore ==
  ASSUME NEW A, IsFiniteSet(A), NEW y, y \notin A, NEW f, \A x \in A \cup {y} : f[x] \in Nat
  PROVE  Amount(f, A \cup {y}) = Amount(f, A) + f[y] /\ Amount(f, A) \in Nat
<1>. DEFINE F == [x \in A |-> f[x]]
            H == [x \in A \cup {y} |-> f[x]]
<1>1. F \in [A -> Nat] /\ H \in [A \cup {y} -> Nat] /\ H[y] = f[y] /\ \A x \in A : F[x] = H[x]
  OBVIOUS
<1>2. Amount(f, A) = SumOf(F, A) /\ Amount(f, A \cup {y}) = SumOf(H, A \cup {y})
  BY DEF Amount
<1>. HIDE DEF F, H
<1>. QED
  BY <1>1, <1>2, SumOfMore

LEMMA AmountType ==
  ASSUME NEW A, IsFiniteSet(A), NEW f, \A x \in A : f[x] \in Nat
  PROVE  Amount(f, A) \in Nat
<1>1. CASE A = {}
  BY <1>1, AmountNone
<1>2. CASE A # {}
  <2>1. PICK y : y \in A
    BY <1>2
  <2>2. A = (A \ {y}) \cup {y} /\ IsFiniteSet(A \ {y})
    BY <2>1, FS_Subset
  <2>. DEFINE D == A \ {y}
  <2>3. A = D \cup {y} /\ IsFiniteSet(D) /\ y \notin D /\ \A x \in D \cup {y} : f[x] \in Nat
    BY <2>2
  <2>. HIDE DEF D
  <2>4. Amount(f, D \cup {y}) = Amount(f, D) + f[y] /\ Amount(f, D) \in Nat
    BY <2>3, AmountMore
  <2>5. f[y] \in Nat
    BY <2>1
  <2>. QED
    BY <2>3, <2>4, <2>5
<1>. QED
  BY <1>1, <1>2

\* Where nothing counts for more, the whole does not.
LEMMA AmountLess ==
  ASSUME NEW A, IsFiniteSet(A), NEW f, NEW g, \A x \in A : f[x] \in Nat /\ g[x] \in Nat /\ f[x] <= g[x]
  PROVE  Amount(f, A) <= Amount(g, A)
<1>. DEFINE bad == {k \in Nat : \E D \in SUBSET A : Cardinality(D) = k /\ ~(Amount(f, D) <= Amount(g, D))}
<1>1. \A D \in SUBSET A : IsFiniteSet(D) /\ Cardinality(D) \in Nat /\ Amount(f, D) \in Nat /\ Amount(g, D) \in Nat
  <2>. TAKE D \in SUBSET A
  <2>1. IsFiniteSet(D) /\ Cardinality(D) \in Nat
    BY FS_Subset, FS_CardinalityType
  <2>. QED
    BY <2>1, AmountType
<1>2. bad = {}
  <2>1. SUFFICES ASSUME bad # {}
                 PROVE  FALSE
    OBVIOUS
  <2>2. PICK k \in bad : \A n \in bad : k <= n
    BY <2>1, LeastNumber
  <2>3. PICK D \in SUBSET A : Cardinality(D) = k /\ ~(Amount(f, D) <= Amount(g, D))
    BY <2>2
  <2>4. D # {}
    BY <2>3, AmountNone
  <2>5. PICK y : y \in D
    BY <2>4
  <2>. DEFINE E == D \ {y}
  <2>6. D = E \cup {y} /\ y \notin E /\ E \in SUBSET A /\ IsFiniteSet(E)
    BY <1>1, <2>3, <2>5
  <2>7. Cardinality(E) = k - 1 /\ k - 1 \in Nat
    <3>1. Cardinality(E) = Cardinality(D) - 1
      BY <1>1, <2>3, <2>5, FS_RemoveElement
    <3>. QED
      BY <1>1, <2>3, <2>6, <3>1
  <2>. HIDE DEF E
  <2>8. k - 1 \notin bad
    <3>1. k \in Nat /\ \A n \in bad : k <= n
      BY <2>2
    <3>. HIDE DEF bad
    <3>. QED
      BY <2>7, <3>1
  <2>9. Amount(f, E) <= Amount(g, E)
    BY <2>6, <2>7, <2>8
  <2>10. \A x \in E \cup {y} : f[x] \in Nat /\ g[x] \in Nat
    BY <2>6
  <2>11. Amount(f, E \cup {y}) = Amount(f, E) + f[y] /\ Amount(g, E \cup {y}) = Amount(g, E) + g[y]
    BY <2>6, <2>10, AmountMore
  <2>12. f[y] \in Nat /\ g[y] \in Nat /\ f[y] <= g[y]
    BY <2>3, <2>5
  <2>13. Amount(f, E) \in Nat /\ Amount(g, E) \in Nat
    BY <1>1, <2>6
  <2>. QED
    BY <2>3, <2>6, <2>9, <2>11, <2>12, <2>13
<1>. QED
  BY <1>1, <1>2

\* Parts that have nothing in common are added.
LEMMA AmountJoin ==
  ASSUME NEW A, NEW B, IsFiniteSet(A), IsFiniteSet(B), A \cap B = {},
         NEW f, \A x \in A \cup B : f[x] \in Nat
  PROVE  Amount(f, A \cup B) = Amount(f, A) + Amount(f, B)
<1>. DEFINE bad == {k \in Nat : \E D \in SUBSET B : Cardinality(D) = k /\ Amount(f, A \cup D) # Amount(f, A) + Amount(f, D)}
<1>1. \A D \in SUBSET B : IsFiniteSet(D) /\ Cardinality(D) \in Nat /\ Amount(f, D) \in Nat
  <2>. TAKE D \in SUBSET B
  <2>1. IsFiniteSet(D) /\ Cardinality(D) \in Nat
    BY FS_Subset, FS_CardinalityType
  <2>. QED
    BY <2>1, AmountType
<1>2. Amount(f, A) \in Nat
  BY AmountType
<1>3. bad = {}
  <2>1. SUFFICES ASSUME bad # {}
                 PROVE  FALSE
    OBVIOUS
  <2>2. PICK k \in bad : \A n \in bad : k <= n
    BY <2>1, LeastNumber
  <2>3. PICK D \in SUBSET B : Cardinality(D) = k /\ Amount(f, A \cup D) # Amount(f, A) + Amount(f, D)
    BY <2>2
  <2>4. D # {}
    <3>1. SUFFICES ASSUME D = {}
                   PROVE  FALSE
      OBVIOUS
    <3>2. A \cup D = A /\ Amount(f, D) = 0
      BY <3>1, AmountNone
    <3>. QED
      BY <1>2, <2>3, <3>2
  <2>5. PICK y : y \in D
    BY <2>4
  <2>. DEFINE E == D \ {y}
  <2>6. D = E \cup {y} /\ y \notin E /\ E \in SUBSET B /\ IsFiniteSet(E)
    BY <1>1, <2>3, <2>5
  <2>7. Cardinality(E) = k - 1 /\ k - 1 \in Nat
    <3>1. Cardinality(E) = Cardinality(D) - 1
      BY <1>1, <2>3, <2>5, FS_RemoveElement
    <3>. QED
      BY <1>1, <2>3, <2>6, <3>1
  <2>. HIDE DEF E
  <2>8. k - 1 \notin bad
    <3>1. k \in Nat /\ \A n \in bad : k <= n
      BY <2>2
    <3>. HIDE DEF bad
    <3>. QED
      BY <2>7, <3>1
  <2>9. Amount(f, A \cup E) = Amount(f, A) + Amount(f, E)
    BY <2>6, <2>7, <2>8
  <2>10. Amount(f, E \cup {y}) = Amount(f, E) + f[y]
    <3>1. \A x \in E \cup {y} : f[x] \in Nat
      BY <2>6
    <3>. QED
      BY <2>6, <3>1, AmountMore
  <2>11. Amount(f, A \cup D) = Amount(f, A \cup E) + f[y]
    <3>. DEFINE AE == A \cup E
    <3>1. IsFiniteSet(AE) /\ y \notin AE /\ A \cup D = AE \cup {y} /\ \A x \in AE \cup {y} : f[x] \in Nat
      BY <2>3, <2>5, <2>6, FS_Union
    <3>. HIDE DEF AE
    <3>2. Amount(f, AE \cup {y}) = Amount(f, AE) + f[y]
      BY <3>1, AmountMore
    <3>. QED
      BY <3>1, <3>2 DEF AE
  <2>12. f[y] \in Nat /\ Amount(f, E) \in Nat
    BY <1>1, <2>3, <2>5, <2>6
  <2>. QED
    BY <1>2, <2>3, <2>6, <2>9, <2>10, <2>11, <2>12
<1>. QED
  BY <1>1, <1>3

LEMMA AmountPart ==
  ASSUME NEW A, NEW B, IsFiniteSet(B), A \subseteq B, NEW f, \A x \in B : f[x] \in Nat
  PROVE  Amount(f, A) <= Amount(f, B)
<1>. DEFINE C == B \ A
<1>1. B = A \cup C /\ A \cap C = {} /\ IsFiniteSet(A) /\ IsFiniteSet(C)
  BY FS_Subset
<1>. HIDE DEF C
<1>2. Amount(f, A \cup C) = Amount(f, A) + Amount(f, C)
  BY <1>1, AmountJoin
<1>3. Amount(f, A) \in Nat /\ Amount(f, C) \in Nat
  BY <1>1, AmountType
<1>. QED
  BY <1>1, <1>2, <1>3

\* One more of one thing.
LEMMA AmountOneMore ==
  ASSUME NEW A, IsFiniteSet(A), NEW y, NEW f, NEW g, \A x \in A : f[x] \in Nat,
         \A x \in A : g[x] = IF x = y THEN f[x] + 1 ELSE f[x]
  PROVE  Amount(g, A) = Amount(f, A) + (IF y \in A THEN 1 ELSE 0)
<1>. DEFINE C == A \ {y}
<1>1. IsFiniteSet(C) /\ \A x \in C : f[x] \in Nat /\ g[x] = f[x]
  BY FS_Subset
<1>2. \A x \in A : g[x] \in Nat
  OBVIOUS
<1>3. Amount(f, C) \in Nat /\ Amount(g, C) \in Nat /\ Amount(f, C) = Amount(g, C)
  <2>1. \A x \in C : f[x] \in Nat /\ g[x] \in Nat /\ f[x] <= g[x] /\ g[x] <= f[x]
    BY <1>1
  <2>2. Amount(f, C) \in Nat /\ Amount(g, C) \in Nat
    BY <1>1, <2>1, AmountType
  <2>3. Amount(f, C) <= Amount(g, C) /\ Amount(g, C) <= Amount(f, C)
    BY <1>1, <2>1, AmountLess
  <2>. QED
    BY <2>2, <2>3
<1>4. CASE y \notin A
  BY <1>3, <1>4
<1>5. CASE y \in A
  <2>1. A = C \cup {y} /\ y \notin C
    BY <1>5
  <2>. HIDE DEF C
  <2>2. Amount(f, C \cup {y}) = Amount(f, C) + f[y] /\ Amount(g, C \cup {y}) = Amount(g, C) + g[y]
    BY <1>1, <1>2, <2>1, AmountMore
  <2>3. g[y] = f[y] + 1 /\ f[y] \in Nat
    BY <1>5
  <2>. QED
    BY <1>3, <1>5, <2>1, <2>2, <2>3
<1>. QED
  BY <1>4, <1>5

-----------------------------------------------------------------------------
(***************************************************************************)
(* The golden signals.                                                     *)
(***************************************************************************)
Meters   == [GPods -> [Cells -> Nat]]
Table(m) == [x \in GPods \X Cells |-> m[x[1]][x[2]]]
CountIn(m, P, s) == Amount(Table(m), P \X CellsOf(s))

\* A sum that no query asks for.
NoSum == Of(AllUris, {})
Summed == Sums \cup {NoSum}

LEMMA FinitePods == IsFiniteSet(GPods) /\ IsFiniteSet(Cells) /\ IsFiniteSet(Uris)
<1>1. ASSUME NEW s, s \in Seq(Range(s))
      PROVE  IsFiniteSet(Range(s))
  <2>1. DOMAIN s = 1 .. Len(s) /\ Len(s) \in Nat /\ s \in [1 .. Len(s) -> Range(s)]
    BY <1>1
  <2>2. \A t \in Range(s) : \E i \in 1 .. Len(s) : s[i] = t
    BY <2>1 DEF Range
  <2>3. s \in Surjection(1 .. Len(s), Range(s))
    BY <2>1, <2>2, Fun_IsSurj
  <2>4. IsFiniteSet(1 .. Len(s))
    BY <2>1, FS_Interval
  <2>. QED
    BY <2>3, <2>4, FS_Surjection
<1>3. IsFiniteSet(Outcomes)
  <2>1. Outcomes = (({} \cup {"ok"}) \cup {"client"}) \cup {"server"}
    BY DEF Outcomes
  <2>. QED
    BY <2>1, FS_EmptySet, FS_AddElement
<1>4. IsFiniteSet(GPods) /\ IsFiniteSet(Uris)
  BY <1>1, GoldenAssumption DEF GPods, Uris
<1>. QED
  BY <1>3, <1>4, FS_Product DEF Cells

LEMMA CellsWithin ==
  ASSUME NEW s \in Summed
  PROVE  CellsOf(s) \subseteq Cells
<1>1. CASE s[1] = AllUris /\ s[2] \subseteq Outcomes
  BY <1>1 DEF CellsOf, Cells
<1>2. CASE s[1] \in Uris /\ s[2] \subseteq Outcomes
  BY <1>2 DEF CellsOf, Cells
<1>. QED
  BY <1>1, <1>2 DEF Summed, Sums, NoSum, Of, Hits, ErrorsOf, Bad, Outcomes

LEMMA CountedCells ==
  ASSUME NEW m \in Meters, NEW P \in SUBSET GPods, NEW s \in Summed
  PROVE  /\ IsFiniteSet(P \X CellsOf(s)) /\ P \X CellsOf(s) \subseteq GPods \X Cells
         /\ \A x \in P \X CellsOf(s) : Table(m)[x] \in Nat /\ Table(m)[x] = m[x[1]][x[2]]
<1>1. CellsOf(s) \subseteq Cells
  BY CellsWithin
<1>2. IsFiniteSet(P \X CellsOf(s))
  BY <1>1, FinitePods, FS_Subset, FS_Product
<1>3. P \X CellsOf(s) \subseteq GPods \X Cells
  BY <1>1
<1>4. \A x \in GPods \X Cells : Table(m)[x] \in Nat /\ Table(m)[x] = m[x[1]][x[2]]
  BY DEF Table, Meters
<1>. QED
  BY <1>2, <1>3, <1>4

\* What a query counts is the sum over the cells of the pods it asks.
LEMMA CountIs ==
  ASSUME NEW m \in Meters, NEW P \in SUBSET GPods, NEW s \in Summed
  PROVE  MapThenSumSet(LAMBDA pc : m[pc[1]][pc[2]], P \X CellsOf(s)) = CountIn(m, P, s)
<1>. DEFINE A == P \X CellsOf(s)
            F == [x \in A |-> m[x[1]][x[2]]]
            W(g) == g = [t \in SUBSET A |-> IF t = {} THEN 0
                                            ELSE LET x == Some(t) IN m[x[1]][x[2]] + g[t \ {x}]]
<1>1. IsFiniteSet(A) /\ F \in [A -> Nat] /\ F = [x \in A |-> Table(m)[x]]
  BY CountedCells
<1>2. MapThenSumSet(LAMBDA pc : m[pc[1]][pc[2]], A) = (CHOOSE g : W(g))[A]
  BY Zenon DEF MapThenSumSet, MapThenFoldSet, Some
<1>3. \A g : W(g) <=> Adds(g, F, A)
  <2>. TAKE g
  <2>1. \A t \in SUBSET A : t # {} => Some(t) \in A
    BY DEF Some
  <2>2. \A t \in SUBSET A : (IF t = {} THEN 0 ELSE LET x == Some(t) IN m[x[1]][x[2]] + g[t \ {x}])
                             = IF t = {} THEN 0 ELSE F[Some(t)] + g[t \ {Some(t)}]
    BY <2>1
  <2>. QED
    BY <2>2 DEF Adds
<1>4. PICK h : Adds(h, F, A)
  BY <1>1, SumsExist
<1>5. W(CHOOSE g : W(g))
  BY <1>3, <1>4
<1>. DEFINE k == CHOOSE g : W(g)
<1>6. Adds(k, F, A)
  BY <1>3, <1>5
<1>7. MapThenSumSet(LAMBDA pc : m[pc[1]][pc[2]], A) = k[A]
  BY <1>2
<1>8. CountIn(m, P, s) = SumOf(F, A)
  BY <1>1 DEF CountIn, Amount
<1>. HIDE DEF k, F, A
<1>9. SumOf(F, A) = k[A]
  BY <1>1, <1>6, SumOfIs
<1>. QED
  BY <1>7, <1>8, <1>9 DEF A

LEMMA CountType ==
  ASSUME NEW m \in Meters, NEW P \in SUBSET GPods, NEW s \in Summed
  PROVE  CountIn(m, P, s) \in Nat
BY CountedCells, AmountType DEF CountIn

LEMMA CountNone ==
  ASSUME NEW m \in Meters, NEW s \in Summed
  PROVE  CountIn(m, {}, s) = 0
<1>1. {} \X CellsOf(s) = {}
  OBVIOUS
<1>. QED
  BY <1>1, AmountNone DEF CountIn

LEMMA NoSumNone ==
  ASSUME NEW m \in Meters, NEW P \in SUBSET GPods
  PROVE  CountIn(m, P, NoSum) = 0
<1>1. P \X CellsOf(NoSum) = {}
  BY DEF NoSum, CellsOf, Of
<1>. QED
  BY <1>1, AmountNone DEF CountIn

LEMMA CountJoin ==
  ASSUME NEW m \in Meters, NEW P \in SUBSET GPods, NEW Q \in SUBSET GPods, P \cap Q = {}, NEW s \in Summed
  PROVE  CountIn(m, P \cup Q, s) = CountIn(m, P, s) + CountIn(m, Q, s)
<1>. DEFINE A == P \X CellsOf(s)
            B == Q \X CellsOf(s)
<1>1. /\ IsFiniteSet(A) /\ IsFiniteSet(B) /\ A \cap B = {} /\ (P \cup Q) \X CellsOf(s) = A \cup B
      /\ \A x \in A \cup B : Table(m)[x] \in Nat
  BY CountedCells
<1>. HIDE DEF A, B
<1>2. Amount(Table(m), A \cup B) = Amount(Table(m), A) + Amount(Table(m), B)
  BY <1>1, AmountJoin
<1>. QED
  BY <1>1, <1>2 DEF CountIn, A, B

LEMMA CountPart ==
  ASSUME NEW m \in Meters, NEW P \in SUBSET GPods, NEW Q \in SUBSET P, NEW s \in Summed
  PROVE  CountIn(m, Q, s) <= CountIn(m, P, s)
<1>1. CountIn(m, Q \cup (P \ Q), s) = CountIn(m, Q, s) + CountIn(m, P \ Q, s)
  BY CountJoin
<1>2. CountIn(m, Q, s) \in Nat /\ CountIn(m, P \ Q, s) \in Nat
  BY CountType
<1>3. Q \cup (P \ Q) = P
  OBVIOUS
<1>4. CountIn(m, P, s) = CountIn(m, Q, s) + CountIn(m, P \ Q, s)
  BY <1>1, <1>3
<1>. QED
  BY <1>2, <1>4

\* A query that asks for more counts more.
LEMMA CountUnder ==
  ASSUME NEW m \in Meters, NEW P \in SUBSET GPods, NEW a \in Summed, NEW b \in Summed, NEW h \in Summed,
         CellsOf(a) \cap CellsOf(b) = {}
  PROVE  /\ CellsOf(a) \cup CellsOf(b) \subseteq CellsOf(h) => CountIn(m, P, a) + CountIn(m, P, b) <= CountIn(m, P, h)
         /\ CellsOf(a) \cup CellsOf(b) = CellsOf(h) => CountIn(m, P, a) + CountIn(m, P, b) = CountIn(m, P, h)
<1>. DEFINE A == P \X CellsOf(a)
            B == P \X CellsOf(b)
            H == P \X CellsOf(h)
            T == Table(m)
<1>1. IsFiniteSet(A) /\ IsFiniteSet(B) /\ IsFiniteSet(H) /\ A \cap B = {}
  BY CountedCells
<1>2. \A x \in A \cup B \cup H : T[x] \in Nat
  BY CountedCells
<1>3. /\ CellsOf(a) \cup CellsOf(b) \subseteq CellsOf(h) => A \cup B \subseteq H
      /\ CellsOf(a) \cup CellsOf(b) = CellsOf(h) => A \cup B = H
  OBVIOUS
<1>4. CountIn(m, P, a) = Amount(T, A) /\ CountIn(m, P, b) = Amount(T, B) /\ CountIn(m, P, h) = Amount(T, H)
  BY DEF CountIn
<1>. HIDE DEF A, B, H, T
<1>5. Amount(T, A \cup B) = Amount(T, A) + Amount(T, B)
  BY <1>1, <1>2, AmountJoin
<1>6. A \cup B \subseteq H => Amount(T, A \cup B) <= Amount(T, H)
  BY <1>1, <1>2, AmountPart
<1>. QED
  BY <1>3, <1>4, <1>5, <1>6

\* One request more at one pod.
LEMMA CountRequest ==
  ASSUME NEW m \in Meters, NEW p \in GPods, NEW c \in Cells,
         NEW n \in Meters, \A q \in GPods, d \in Cells : n[q][d] = IF q = p /\ d = c THEN m[q][d] + 1 ELSE m[q][d],
         NEW P \in SUBSET GPods, NEW s \in Summed
  PROVE  CountIn(n, P, s) = CountIn(m, P, s) + IF p \in P /\ c \in CellsOf(s) THEN 1 ELSE 0
<1>. DEFINE A == P \X CellsOf(s)
            y == <<p, c>>
<1>1. n \in Meters /\ \A q \in GPods, d \in Cells : n[q][d] = IF q = p /\ d = c THEN m[q][d] + 1 ELSE m[q][d]
  OBVIOUS
<1>2. \A x \in A : x[1] \in GPods /\ x[2] \in Cells /\ x = <<x[1], x[2]>>
  BY CellsWithin
<1>3. \A x \in A : Table(m)[x] \in Nat /\ Table(m)[x] = m[x[1]][x[2]] /\ Table(n)[x] = n[x[1]][x[2]]
  BY <1>1, CountedCells
<1>4. \A x \in A : (x = y) <=> (x[1] = p /\ x[2] = c)
  BY <1>2
<1>5. \A x \in A : Table(n)[x] = IF x = y THEN Table(m)[x] + 1 ELSE Table(m)[x]
  <2>. TAKE x \in A
  <2>. HIDE DEF A, y
  <2>. QED
    BY <1>1, <1>2, <1>3, <1>4
<1>6. y \in A <=> p \in P /\ c \in CellsOf(s)
  OBVIOUS
<1>7. IsFiniteSet(A)
  BY CountedCells
<1>8. CountIn(m, P, s) = Amount(Table(m), A) /\ CountIn(n, P, s) = Amount(Table(n), A)
  BY DEF CountIn
<1>. HIDE DEF A, y
<1>9. Amount(Table(n), A) = Amount(Table(m), A) + (IF y \in A THEN 1 ELSE 0)
  BY <1>3, <1>5, <1>7, AmountOneMore
<1>10. CountIn(n, P, s) = CountIn(m, P, s) + IF p \in P /\ c \in CellsOf(s) THEN 1 ELSE 0
  BY <1>6, <1>8, <1>9
<1>. QED
  BY <1>10

\* A pod that starts over counts from zero.
LEMMA CountRestart ==
  ASSUME NEW m \in Meters, NEW p \in GPods, NEW P \in SUBSET GPods, NEW s \in Summed
  PROVE  LET n == [m EXCEPT ![p] = [c \in Cells |-> 0]] IN
         n \in Meters /\ CountIn(n, P, s) <= CountIn(m, P, s)
<1>. DEFINE n == [m EXCEPT ![p] = [c \in Cells |-> 0]]
            A == P \X CellsOf(s)
<1>1. n \in Meters /\ \A q \in GPods, d \in Cells : n[q][d] \in Nat /\ m[q][d] \in Nat /\ n[q][d] <= m[q][d]
  BY DEF Meters
<1>. HIDE DEF n
<1>2. \A x \in A : x[1] \in GPods /\ x[2] \in Cells
  BY CellsWithin
<1>3. \A x \in A : Table(m)[x] = m[x[1]][x[2]] /\ Table(n)[x] = n[x[1]][x[2]]
  BY <1>1, CountedCells
<1>4. \A x \in A : Table(m)[x] \in Nat /\ Table(n)[x] \in Nat /\ Table(n)[x] <= Table(m)[x]
  BY <1>1, <1>2, <1>3
<1>5. IsFiniteSet(A)
  BY CountedCells
<1>6. CountIn(m, P, s) = Amount(Table(m), A) /\ CountIn(n, P, s) = Amount(Table(n), A)
  BY DEF CountIn
<1>. HIDE DEF A
<1>. QED
  BY <1>1, <1>4, <1>5, <1>6, AmountLess DEF n

\* The pods whose part of a sum is still to be asked for, and those of them that have
\* been asked for what bounds it already.
Queries == [pods : SUBSET GPods, sels : SUBSET Sums, drop : Nat \cup {Throws}]
Unanswered(pl, s) == {p \in GPods : \E i \in DOMAIN pl : s \in pl[i].sels /\ p \in pl[i].pods}
Owed(pl, e, h) == Unanswered(pl, e) \ Unanswered(pl, h)

\* Two sums that have nothing in common and one that takes in both.
Parts(pr) ==
  {<<ErrorsOf({"client"}), ErrorsOf({"server"}), Hits>>, <<ErrorsOf(Bad), NoSum, Hits>>}
    \cup IF pr = "datadog" THEN {} ELSE {<<Of(u, {"server"}), NoSum, Of(u, Outcomes)>> : u \in Uris}

\* No pod is asked twice for a sum; it is asked for a part of a sum only behind the sum,
\* and a failure that drops the sum drops the part.
Distinct(q, r) == q.pods \cap r.pods = {}
OnceEach(pl) == \A i, j \in DOMAIN pl : i < j => Distinct(pl[i], pl[j]) \/ pl[i].sels \cap pl[j].sels = {}
SumFirst(pl, e, h) ==
  \A i, j \in DOMAIN pl : i < j /\ e \in pl[i].sels /\ h \in pl[j].sels => Distinct(pl[i], pl[j])
Together(pl, e, h) ==
  \A i, k, j \in DOMAIN pl :
    i <= k /\ k <= i + pl[i].drop /\ i + pl[i].drop < j /\ h \in pl[k].sels /\ e \in pl[j].sels => Distinct(pl[k], pl[j])
NotAsked(pl, pr) ==
  \A i \in DOMAIN pl : ErrorsOf(IF pr = "native" THEN Bad ELSE {"client"}) \notin pl[i].sels
Ordered(pl, pr) ==
  /\ OnceEach(pl) /\ NotAsked(pl, pr)
  /\ \A i \in DOMAIN pl : i + pl[i].drop <= Len(pl)
  /\ \A t \in Parts(pr) : \A e \in {t[1], t[2]} : SumFirst(pl, e, t[3]) /\ Together(pl, e, t[3])

GoldenType ==
  /\ meter \in Meters /\ plan \in Seq(Queries) /\ got \in [Sums -> Nat] /\ served \in Nat
  /\ answered \in BOOLEAN /\ calm \in BOOLEAN
  /\ outcome \in {"idle", "asking", "signals", "undefined", "error"}

Got(s) == IF s \in Sums THEN got[s] ELSE 0
AtMost(a, b, h) ==
  Got(a) + Got(b) + CountIn(meter, Owed(plan, a, h), a) + CountIn(meter, Owed(plan, b, h), b) <= Got(h) + served
Told(pr) == {Hits, ErrorsOf({"server"}), ErrorsOf(IF pr = "native" THEN {"client"} ELSE Bad)}
              \cup {Of(u, Outcomes) : u \in Uris}

GoldenEnds ==
  /\ Ordered(plan, provider)
  /\ outcome # "asking" => plan = <<>>
  /\ outcome = "idle" => got = Nothing /\ ~answered
  /\ got[ErrorsOf(IF provider = "native" THEN Bad ELSE {"client"})] = 0

NeverExceeds == \A t \in Parts(provider) : AtMost(t[1], t[2], t[3])

NoPods == provider = "native" /\ PodList = <<>>
CalmCounts ==
  calm =>
    /\ outcome \in {"asking", "signals"} =>
         \A s \in Told(provider) : got[s] = CountIn(meter, GPods \ Unanswered(plan, s), s)
    /\ outcome = "asking" => answered \/ (\E i \in DOMAIN plan : Hits \in plan[i].sels) \/ NoPods
    /\ outcome = "undefined" => CountIn(meter, GPods, Hits) = 0 /\ (provider = "native" => PodList = <<>>)
    /\ outcome # "error"

GoldenInv == GoldenType /\ GoldenEnds /\ NeverExceeds /\ CalmCounts

-----------------------------------------------------------------------------
LEMMA PartsShape ==
  ASSUME NEW pr, NEW t \in Parts(pr)
  PROVE  /\ t = <<t[1], t[2], t[3]>> /\ t[1] \in Sums /\ t[2] \in Summed /\ t[3] \in Sums
         /\ CellsOf(t[1]) \cap CellsOf(t[2]) = {} /\ CellsOf(t[1]) \cup CellsOf(t[2]) \subseteq CellsOf(t[3])
<1>1. CASE t = <<ErrorsOf({"client"}), ErrorsOf({"server"}), Hits>>
  <2>1. t[1] \in Sums /\ t[2] \in Summed /\ t[3] \in Sums
    BY <1>1 DEF Sums, Summed, Hits, ErrorsOf
  <2>2. CellsOf(t[1]) = Uris \X {"client"} /\ CellsOf(t[2]) = Uris \X {"server"} /\ CellsOf(t[3]) = Uris \X Outcomes
    BY <1>1 DEF CellsOf, ErrorsOf, Hits, Of
  <2>. QED
    BY <1>1, <2>1, <2>2 DEF Outcomes
<1>2. CASE t = <<ErrorsOf(Bad), NoSum, Hits>>
  <2>1. t[1] \in Sums /\ t[2] \in Summed /\ t[3] \in Sums
    BY <1>2 DEF Sums, Summed, Hits, ErrorsOf
  <2>2. CellsOf(t[1]) = Uris \X Bad /\ CellsOf(t[2]) = {} /\ CellsOf(t[3]) = Uris \X Outcomes
    BY <1>2 DEF CellsOf, ErrorsOf, Hits, Of, NoSum
  <2>. QED
    BY <1>2, <2>1, <2>2 DEF Outcomes, Bad
<1>3. ASSUME NEW u \in Uris, t = <<Of(u, {"server"}), NoSum, Of(u, Outcomes)>>
      PROVE  /\ t = <<t[1], t[2], t[3]>> /\ t[1] \in Sums /\ t[2] \in Summed /\ t[3] \in Sums
             /\ CellsOf(t[1]) \cap CellsOf(t[2]) = {} /\ CellsOf(t[1]) \cup CellsOf(t[2]) \subseteq CellsOf(t[3])
  <2>1. t[1] \in Sums /\ t[2] \in Summed /\ t[3] \in Sums
    BY <1>3 DEF Sums, Summed
  <2>2. CellsOf(t[1]) = {u} \X {"server"} /\ CellsOf(t[2]) = {} /\ CellsOf(t[3]) = {u} \X Outcomes
    BY <1>3, GoldenAssumption DEF CellsOf, Of, NoSum
  <2>. QED
    BY <1>3, <2>1, <2>2 DEF Outcomes
<1>. QED
  BY <1>1, <1>2, <1>3 DEF Parts

LEMMA SuffixOf ==
  ASSUME NEW pl \in Seq(Queries), NEW n \in 1 .. Len(pl) + 1
  PROVE  LET q == SubSeq(pl, n, Len(pl)) IN
         /\ q \in Seq(Queries) /\ Len(q) = Len(pl) - n + 1 /\ DOMAIN q = 1 .. Len(q)
         /\ \A i \in DOMAIN q : i \in Nat \ {0} /\ q[i] = pl[n + i - 1] /\ n + i - 1 \in DOMAIN pl /\ q[i] \in Queries
<1>. DEFINE q == SubSeq(pl, n, Len(pl))
<1>1. Len(pl) \in Nat /\ DOMAIN pl = 1 .. Len(pl)
  OBVIOUS
<1>2. q \in Seq(Queries) /\ Len(q) = Len(pl) - n + 1
  BY <1>1
<1>3. DOMAIN q = 1 .. Len(q)
  BY <1>2
<1>4. \A i \in 1 .. Len(q) : i \in Nat \ {0} /\ q[i] = pl[n + i - 1] /\ n + i - 1 \in DOMAIN pl /\ q[i] \in Queries
  BY <1>1, <1>2
<1>. QED
  BY <1>2, <1>3, <1>4

LEMMA TailIs ==
  ASSUME NEW pl \in Seq(Queries), pl # <<>>
  PROVE  Tail(pl) = SubSeq(pl, 2, Len(pl)) /\ Head(pl) = pl[1] /\ Len(pl) \in Nat \ {0} /\ 1 \in DOMAIN pl
         /\ Head(pl) \in Queries
<1>1. Len(pl) \in Nat \ {0} /\ DOMAIN pl = 1 .. Len(pl) /\ pl[1] \in Queries
  OBVIOUS
<1>2. Tail(pl) = SubSeq(pl, 2, Len(pl))
  BY <1>1
<1>. QED
  BY <1>1, <1>2

\* The rest of an ordered plan is ordered.
LEMMA SuffixOrdered ==
  ASSUME NEW pr, NEW pl \in Seq(Queries), Ordered(pl, pr), NEW n \in 1 .. Len(pl) + 1
  PROVE  Ordered(SubSeq(pl, n, Len(pl)), pr)
<1>. DEFINE q == SubSeq(pl, n, Len(pl))
<1>1. /\ q \in Seq(Queries) /\ Len(q) = Len(pl) - n + 1 /\ DOMAIN q = 1 .. Len(q) /\ n \in Nat /\ Len(pl) \in Nat
      /\ \A i \in DOMAIN q : i \in Nat \ {0} /\ q[i] = pl[n + i - 1] /\ n + i - 1 \in DOMAIN pl /\ q[i] \in Queries
  BY SuffixOf
<1>. HIDE DEF q
<1>2. OnceEach(q)
  <2>1. SUFFICES ASSUME NEW i \in DOMAIN q, NEW j \in DOMAIN q, i < j
                 PROVE  Distinct(q[i], q[j]) \/ q[i].sels \cap q[j].sels = {}
    BY DEF OnceEach
  <2>2. n + i - 1 \in DOMAIN pl /\ n + j - 1 \in DOMAIN pl /\ n + i - 1 < n + j - 1 /\ q[i] = pl[n + i - 1] /\
             q[j] = pl[n + j - 1]
    BY <1>1, <2>1
  <2>3. OnceEach(pl)
    BY DEF Ordered
  <2>. QED
    BY <2>2, <2>3 DEF OnceEach
<1>3. NotAsked(q, pr)
  BY <1>1 DEF Ordered, NotAsked
<1>4. \A i \in DOMAIN q : q[i].drop \in Nat \cup {-1} /\ i + q[i].drop <= Len(q)
  <2>. TAKE i \in DOMAIN q
  <2>1. q[i].drop \in Nat \cup {-1}
    BY <1>1 DEF Queries, Throws
  <2>2. (n + i - 1) + q[i].drop <= Len(pl)
    BY <1>1 DEF Ordered
  <2>. QED
    BY <1>1, <2>1, <2>2
<1>5. ASSUME NEW t \in Parts(pr), NEW e \in {t[1], t[2]}
      PROVE  SumFirst(q, e, t[3]) /\ Together(q, e, t[3])
  <2>1. SumFirst(pl, e, t[3]) /\ Together(pl, e, t[3])
    BY <1>5 DEF Ordered
  <2>2. SumFirst(q, e, t[3])
    <3>1. SUFFICES ASSUME NEW i \in DOMAIN q, NEW j \in DOMAIN q, i < j, e \in q[i].sels, t[3] \in q[j].sels
                   PROVE  Distinct(q[i], q[j])
      BY DEF SumFirst
    <3>2. n + i - 1 \in DOMAIN pl /\ n + j - 1 \in DOMAIN pl /\ n + i - 1 < n + j - 1 /\
               q[i] = pl[n + i - 1] /\ q[j] = pl[n + j - 1]
      BY <1>1, <3>1
    <3>. QED
      BY <2>1, <3>1, <3>2 DEF SumFirst
  <2>3. Together(q, e, t[3])
    <3>1. SUFFICES ASSUME NEW i \in DOMAIN q, NEW k \in DOMAIN q, NEW j \in DOMAIN q,
                          i <= k, k <= i + q[i].drop, i + q[i].drop < j, t[3] \in q[k].sels, e \in q[j].sels
                   PROVE  Distinct(q[k], q[j])
      BY DEF Together
    <3>. DEFINE a == n + i - 1
                b == n + k - 1
                c == n + j - 1
    <3>2. a \in DOMAIN pl /\ b \in DOMAIN pl /\ c \in DOMAIN pl /\ q[i] = pl[a] /\ q[k] = pl[b] /\ q[j] = pl[c]
      BY <1>1
    <3>3. n \in Nat /\ i \in Nat /\ j \in Nat /\ k \in Nat
      BY <1>1
    <3>5. q[i].drop \in Int /\ q[i].drop = pl[a].drop
      BY <1>4, <3>2
    <3>6. n + i - 1 <= n + k - 1 /\ n + k - 1 <= n + i - 1 + q[i].drop /\ n + i - 1 + q[i].drop < n + j - 1
      <4>. DEFINE d == q[i].drop
      <4>1. i <= k /\ k <= i + d /\ i + d < j /\ d \in Int
        BY <3>1, <3>5
      <4>. HIDE DEF d
      <4>2. n + i - 1 <= n + k - 1 /\ n + k - 1 <= n + i - 1 + d /\ n + i - 1 + d < n + j - 1
        BY <3>3, <4>1
      <4>. QED
        BY <4>2 DEF d
    <3>4. a <= b /\ b <= a + q[i].drop /\ a + q[i].drop < c
      BY <3>6
    <3>. HIDE DEF a, b, c
    <3>7. a <= b /\ b <= a + pl[a].drop /\ a + pl[a].drop < c
      BY <3>4, <3>5
    <3>. QED
      BY <2>1, <3>1, <3>2, <3>7 DEF Together
  <2>. QED
    BY <2>2, <2>3
<1>6. Ordered(q, pr)
  BY <1>2, <1>3, <1>4, <1>5 DEF Ordered
<1>. QED
  BY <1>6 DEF q

\* What one answer leaves.
LEMMA UnansweredAfter ==
  ASSUME NEW pl \in Seq(Queries), pl # <<>>, OnceEach(pl), NEW s
  PROVE  LET q == Head(pl)
             r == Tail(pl)
         IN  /\ q.pods \in SUBSET GPods
             /\ s \in q.sels => Unanswered(pl, s) = Unanswered(r, s) \cup q.pods /\ q.pods \cap Unanswered(r, s) = {}
             /\ s \notin q.sels => Unanswered(pl, s) = Unanswered(r, s)
             /\ \A e : SumFirst(pl, e, s) /\ e \in q.sels => q.pods \cap Unanswered(r, s) = {}
<1>. DEFINE q == Head(pl)
            r == Tail(pl)
<1>1. r = SubSeq(pl, 2, Len(pl)) /\ q = pl[1] /\ Len(pl) \in Nat \ {0} /\ q \in Queries /\ 1 \in DOMAIN pl /\
           2 \in 1 .. Len(pl) + 1
  BY TailIs
<1>2. /\ Len(r) = Len(pl) - 1 /\ DOMAIN r = 1 .. Len(r) /\ DOMAIN pl = 1 .. Len(pl)
      /\ \A i \in DOMAIN r : r[i] = pl[i + 1] /\ i + 1 \in DOMAIN pl
  BY <1>1, SuffixOf
<1>3. \A i \in DOMAIN pl : i # 1 => i - 1 \in DOMAIN r /\ pl[i] = r[i - 1] /\ 1 < i
  BY <1>1, <1>2
<1>4. q.pods \in SUBSET GPods
  BY <1>1 DEF Queries
<1>. HIDE DEF q, r
<1>5. \A p \in GPods : p \in Unanswered(pl, s) <=> (s \in q.sels /\ p \in q.pods) \/ p \in Unanswered(r, s)
  BY <1>1, <1>2, <1>3 DEF Unanswered
<1>6. Unanswered(pl, s) \subseteq GPods /\ Unanswered(r, s) \subseteq GPods
  BY DEF Unanswered
<1>7. s \in q.sels => q.pods \cap Unanswered(r, s) = {}
  <2>1. SUFFICES ASSUME s \in q.sels, NEW p \in q.pods, p \in Unanswered(r, s)
                 PROVE  FALSE
    OBVIOUS
  <2>2. PICK i \in DOMAIN r : s \in r[i].sels /\ p \in r[i].pods
    BY <2>1 DEF Unanswered
  <2>3. i + 1 \in DOMAIN pl /\ 1 < i + 1 /\ r[i] = pl[i + 1]
    BY <1>2
  <2>4. Distinct(pl[1], pl[i + 1]) \/ pl[1].sels \cap pl[i + 1].sels = {}
    BY <1>1, <2>3 DEF OnceEach
  <2>. QED
    BY <1>1, <2>1, <2>2, <2>3, <2>4 DEF Distinct
<1>8. ASSUME NEW e, SumFirst(pl, e, s), e \in q.sels
      PROVE  q.pods \cap Unanswered(r, s) = {}
  <2>1. SUFFICES ASSUME NEW p \in q.pods, p \in Unanswered(r, s)
                 PROVE  FALSE
    OBVIOUS
  <2>2. PICK i \in DOMAIN r : s \in r[i].sels /\ p \in r[i].pods
    BY <2>1 DEF Unanswered
  <2>3. i + 1 \in DOMAIN pl /\ 1 < i + 1 /\ r[i] = pl[i + 1]
    BY <1>2
  <2>4. Distinct(pl[1], pl[i + 1])
    BY <1>1, <1>8, <2>2, <2>3 DEF SumFirst
  <2>. QED
    BY <1>1, <2>1, <2>2, <2>3, <2>4 DEF Distinct
<1>9. /\ s \in q.sels => Unanswered(pl, s) = Unanswered(r, s) \cup q.pods
      /\ s \notin q.sels => Unanswered(pl, s) = Unanswered(r, s)
  BY <1>4, <1>5, <1>6
<1>10. \A e : SumFirst(pl, e, s) /\ e \in q.sels => q.pods \cap Unanswered(r, s) = {}
  BY <1>8
<1>. QED
  BY <1>4, <1>7, <1>9, <1>10 DEF q, r

\* A failure owes nothing new.
LEMMA OwedAfterFailure ==
  ASSUME NEW pl \in Seq(Queries), pl # <<>>, NEW e, NEW h, Together(pl, e, h),
         NEW d \in Nat, Head(pl).drop = d, 1 + d <= Len(pl)
  PROVE  Owed(SubSeq(pl, 2 + d, Len(pl)), e, h) \subseteq Owed(pl, e, h)
<1>. DEFINE q == SubSeq(pl, 2 + d, Len(pl))
<1>1. pl[1] = Head(pl) /\ 1 \in DOMAIN pl /\ Len(pl) \in Nat \ {0} /\ DOMAIN pl = 1 .. Len(pl) /\ 2 + d \in 1 .. Len(pl) + 1
  BY TailIs
<1>2. /\ q \in Seq(Queries) /\ Len(q) = Len(pl) - (2 + d) + 1 /\ DOMAIN q = 1 .. Len(q)
      /\ \A i \in DOMAIN q : i \in Nat \ {0} /\ q[i] = pl[2 + d + i - 1] /\ 2 + d + i - 1 \in DOMAIN pl
  BY <1>1, SuffixOf
<1>. HIDE DEF q
<1>3. SUFFICES ASSUME NEW p \in Unanswered(q, e), p \notin Unanswered(q, h)
               PROVE  p \in Unanswered(pl, e) /\ p \notin Unanswered(pl, h)
  BY DEF Owed, q
<1>4. PICK i \in DOMAIN q : e \in q[i].sels /\ p \in q[i].pods /\ p \in GPods
  BY <1>3 DEF Unanswered
<1>. DEFINE j == 1 + d + i
<1>5. j \in DOMAIN pl /\ 1 + d < j /\ e \in pl[j].sels /\ p \in pl[j].pods
  <2>1. i \in Nat /\ i >= 1 /\ 2 + d + i - 1 = j
    BY <1>2
  <2>. QED
    BY <1>2, <1>4, <2>1
<1>. HIDE DEF j
<1>6. p \in Unanswered(pl, e)
  BY <1>4, <1>5 DEF Unanswered
<1>7. ASSUME p \in Unanswered(pl, h)
      PROVE  FALSE
  <2>1. PICK k \in DOMAIN pl : h \in pl[k].sels /\ p \in pl[k].pods
    BY <1>7 DEF Unanswered
  <2>2. CASE k <= 1 + d
    <3>1. 1 <= k /\ k <= 1 + pl[1].drop /\ 1 + pl[1].drop < j
      BY <1>1, <1>5, <2>2
    <3>2. Distinct(pl[k], pl[j])
      BY <1>1, <1>5, <2>1, <3>1 DEF Together
    <3>. QED
      BY <1>5, <2>1, <3>2 DEF Distinct
  <2>3. CASE ~(k <= 1 + d)
    <3>. DEFINE l == k - 1 - d
    <3>0. k \in Nat /\ k <= Len(pl) /\ Len(pl) \in Nat /\ Len(q) = Len(pl) - (2 + d) + 1 /\ DOMAIN q = 1 .. Len(q)
      BY <1>1, <1>2
    <3>1. l \in DOMAIN q /\ 2 + d + l - 1 = k
      BY <2>3, <3>0
    <3>2. q[l] = pl[k]
      BY <1>2, <3>1
    <3>. QED
      BY <1>3, <1>4, <2>1, <3>1, <3>2 DEF Unanswered
  <2>. QED
    BY <2>2, <2>3
<1>. QED
  BY <1>6, <1>7

\* What an answer adds to a part and takes from what is owed of it.
LEMMA Gains ==
  ASSUME NEW m \in Meters, NEW pl \in Seq(Queries), pl # <<>>, OnceEach(pl),
         NEW e \in Summed, NEW h, SumFirst(pl, e, h)
  PROVE  LET q == Head(pl) IN
         (IF e \in q.sels THEN CountIn(m, q.pods, e) ELSE 0) + CountIn(m, Owed(Tail(pl), e, h), e)
           <= CountIn(m, Owed(pl, e, h), e) + IF h \in q.sels THEN CountIn(m, q.pods, e) ELSE 0
<1>. DEFINE q == Head(pl)
            r == Tail(pl)
            P == q.pods
            We == Unanswered(r, e)
            Wh == Unanswered(r, h)
            Now == Owed(r, e, h)
            Was == Owed(pl, e, h)
<1>1. /\ P \in SUBSET GPods
      /\ e \in q.sels => Unanswered(pl, e) = We \cup P /\ P \cap We = {} /\ P \cap Wh = {}
      /\ e \notin q.sels => Unanswered(pl, e) = We
      /\ h \in q.sels => Unanswered(pl, h) = Wh \cup P
      /\ h \notin q.sels => Unanswered(pl, h) = Wh
  BY UnansweredAfter
<1>2. Now \in SUBSET GPods /\ Was \in SUBSET GPods /\ We \in SUBSET GPods
  BY DEF Owed, Unanswered
<1>3. Now = We \ Wh /\ Was = Unanswered(pl, e) \ Unanswered(pl, h)
  BY DEF Owed
<1>. HIDE DEF q, r, P, We, Wh, Now, Was
<1>4. CountIn(m, Now, e) \in Nat /\ CountIn(m, Was, e) \in Nat /\ CountIn(m, P, e) \in Nat
  BY <1>1, <1>2, CountType
<1>5. CASE e \in q.sels /\ h \in q.sels
  <2>1. Now \subseteq Was
    BY <1>1, <1>3, <1>5
  <2>2. CountIn(m, Now, e) <= CountIn(m, Was, e)
    BY <1>2, <2>1, CountPart
  <2>. QED
    BY <1>4, <1>5, <2>2 DEF q, r, P, Now, Was
<1>6. CASE e \in q.sels /\ h \notin q.sels
  <2>1. Was = Now \cup P /\ Now \cap P = {}
    BY <1>1, <1>3, <1>6
  <2>2. CountIn(m, Was, e) = CountIn(m, Now, e) + CountIn(m, P, e)
    BY <1>1, <1>2, <2>1, CountJoin
  <2>. QED
    BY <1>4, <1>6, <2>2 DEF q, r, P, Now, Was
<1>7. CASE e \notin q.sels /\ h \in q.sels
  <2>1. Now \subseteq Was \cup P
    BY <1>1, <1>3, <1>7
  <2>. DEFINE D == Was \ P
  <2>2. Now \subseteq D \cup P /\ D \in SUBSET GPods /\ D \subseteq Was /\ D \cap P = {} /\ D \cup P \in SUBSET GPods
    BY <1>1, <1>2, <2>1
  <2>. HIDE DEF D
  <2>3. CountIn(m, D \cup P, e) = CountIn(m, D, e) + CountIn(m, P, e)
    BY <1>1, <2>2, CountJoin
  <2>4. CountIn(m, Now, e) <= CountIn(m, D \cup P, e) /\ CountIn(m, D, e) <= CountIn(m, Was, e)
    BY <1>2, <2>2, CountPart
  <2>5. CountIn(m, D, e) \in Nat
    BY <2>2, CountType
  <2>6. CountIn(m, Now, e) <= CountIn(m, Was, e) + CountIn(m, P, e)
    BY <1>4, <2>3, <2>4, <2>5
  <2>. QED
    BY <1>4, <1>7, <2>6 DEF q, r, P, Now, Was
<1>8. CASE e \notin q.sels /\ h \notin q.sels
  <2>1. Now = Was
    BY <1>1, <1>3, <1>8
  <2>. QED
    BY <1>4, <1>8, <2>1 DEF q, r, P, Now, Was
<1>. QED
  BY <1>5, <1>6, <1>7, <1>8

\* A plan asks every pod for what is told, and for no part of a sum without the sum.
AsksAll(pl, pr) ==
  /\ pl \in Seq(Queries) /\ Ordered(pl, pr)
  /\ \A t \in Parts(pr) : \A e \in {t[1], t[2]} : Owed(pl, e, t[3]) = {}
  /\ \A s \in Told(pr) : Unanswered(pl, s) = GPods
  /\ (\E i \in DOMAIN pl : Hits \in pl[i].sels) \/ (pr = "native" /\ PodList = <<>>)

LEMMA NoQueries ==
  ASSUME NEW pr
  PROVE  /\ <<>> \in Seq(Queries) /\ Ordered(<<>>, pr) /\ \A s : Unanswered(<<>>, s) = {}
         /\ \A e, h : Owed(<<>>, e, h) = {}
<1>1. DOMAIN <<>> = {} /\ <<>> \in Seq(Queries)
  OBVIOUS
<1>2. Ordered(<<>>, pr)
  BY <1>1 DEF Ordered, OnceEach, NotAsked, SumFirst, Together
<1>3. \A s : Unanswered(<<>>, s) = {}
  BY <1>1 DEF Unanswered
<1>. QED
  BY <1>1, <1>2, <1>3 DEF Owed

LEMMA ToldShape ==
  ASSUME NEW pr
  PROVE  Told(pr) \subseteq Sums /\ Sums \subseteq Summed
BY DEF Told, Sums, Summed, Hits, ErrorsOf

LEMMA OwedPods ==
  ASSUME NEW pl, NEW e, NEW h
  PROVE  Owed(pl, e, h) \in SUBSET GPods /\ Unanswered(pl, e) \in SUBSET GPods
BY DEF Owed, Unanswered

\* The numbers of the invariant.
LEMMA GotTypes ==
  ASSUME GoldenType, NEW t \in Parts(provider)
  PROVE  /\ Got(t[1]) \in Nat /\ Got(t[2]) \in Nat /\ Got(t[3]) \in Nat /\ served \in Nat
         /\ CountIn(meter, Owed(plan, t[1], t[3]), t[1]) \in Nat
         /\ CountIn(meter, Owed(plan, t[2], t[3]), t[2]) \in Nat
<1>1. t[1] \in Summed /\ t[2] \in Summed /\ t[3] \in Summed
  BY PartsShape, ToldShape
<1>2. \A s : Got(s) \in Nat
  BY DEF GoldenType, Got
<1>3. meter \in Meters /\ served \in Nat
  BY DEF GoldenType
<1>. QED
  BY <1>1, <1>2, <1>3, OwedPods, CountType

LEMMA GoldenStart == GoldenIdle => GoldenInv
<1>. SUFFICES ASSUME GoldenIdle
              PROVE  GoldenInv
  OBVIOUS
<1>1. GoldenType
  BY NoQueries DEF GoldenIdle, GoldenType, Meters, Nothing
<1>2. GoldenEnds
  <2>1. ErrorsOf(IF provider = "native" THEN Bad ELSE {"client"}) \in Sums
    BY DEF Sums
  <2>2. got[ErrorsOf(IF provider = "native" THEN Bad ELSE {"client"})] = 0
    BY <2>1 DEF GoldenIdle, Nothing
  <2>. QED
    BY <2>2, NoQueries DEF GoldenIdle, GoldenEnds
<1>3. NeverExceeds
  <2>1. SUFFICES ASSUME NEW t \in Parts(provider)
                 PROVE  AtMost(t[1], t[2], t[3])
    BY DEF NeverExceeds
  <2>2. t[1] \in Summed /\ t[2] \in Summed /\ meter \in Meters
    BY <1>1, PartsShape, ToldShape DEF GoldenType
  <2>3. \A s : Got(s) = 0
    BY DEF GoldenIdle, Got, Nothing
  <2>4. CountIn(meter, Owed(plan, t[1], t[3]), t[1]) = 0 /\ CountIn(meter, Owed(plan, t[2], t[3]), t[2]) = 0
    BY <2>2, NoQueries, CountNone DEF GoldenIdle
  <2>. QED
    BY <2>3, <2>4 DEF AtMost, GoldenIdle
<1>4. CalmCounts
  BY DEF GoldenIdle, CalmCounts
<1>. QED
  BY <1>1, <1>2, <1>3, <1>4 DEF GoldenInv

LEMMA GoldenCallStep ==
  ASSUME GoldenInv, NEW pr, GoldenCall(pr), \A pl \in Plans(pr) : AsksAll(pl, pr)
  PROVE  GoldenInv'
<1>1. /\ outcome = "idle" /\ provider' = pr /\ plan' \in Plans(pr) /\ outcome' = "asking"
      /\ UNCHANGED <<meter, got, answered, served, calm>>
  BY DEF GoldenCall
<1>2. AsksAll(plan', pr)
  BY <1>1
<1>3. GoldenType /\ got = Nothing
  BY <1>1 DEF GoldenInv, GoldenEnds
<1>4. GoldenType'
  BY <1>1, <1>2, <1>3 DEF GoldenType, AsksAll
<1>5. GoldenEnds'
  <2>1. ErrorsOf(IF pr = "native" THEN Bad ELSE {"client"}) \in Sums
    BY DEF Sums
  <2>2. got'[ErrorsOf(IF pr = "native" THEN Bad ELSE {"client"})] = 0
    BY <1>1, <1>3, <2>1 DEF Nothing
  <2>. QED
    BY <1>1, <1>2, <2>2 DEF GoldenEnds, AsksAll
<1>6. NeverExceeds'
  <2>1. SUFFICES ASSUME NEW t \in Parts(pr)
                 PROVE  AtMost(t[1], t[2], t[3])'
    BY <1>1 DEF NeverExceeds
  <2>2. t[1] \in Summed /\ t[2] \in Summed /\ meter' \in Meters /\ served' \in Nat
    BY <1>4, PartsShape, ToldShape DEF GoldenType
  <2>3. \A s : Got(s)' = 0
    BY <1>1, <1>3 DEF Got, Nothing
  <2>4. Owed(plan', t[1], t[3]) = {} /\ Owed(plan', t[2], t[3]) = {}
    BY <1>2 DEF AsksAll
  <2>5. CountIn(meter', Owed(plan', t[1], t[3]), t[1]) = 0 /\ CountIn(meter', Owed(plan', t[2], t[3]), t[2]) = 0
    BY <2>2, <2>4, CountNone
  <2>. QED
    BY <2>2, <2>3, <2>5 DEF AtMost
<1>7. CalmCounts'
  <2>1. \A s \in Told(pr) : got'[s] = CountIn(meter', GPods \ Unanswered(plan', s), s)
    <3>1. SUFFICES ASSUME NEW s \in Told(pr)
                   PROVE  got'[s] = CountIn(meter', GPods \ Unanswered(plan', s), s)
      OBVIOUS
    <3>2. s \in Sums /\ s \in Summed /\ meter' \in Meters
      BY <1>4, ToldShape DEF GoldenType
    <3>3. GPods \ Unanswered(plan', s) = {}
      BY <1>2 DEF AsksAll
    <3>4. CountIn(meter', GPods \ Unanswered(plan', s), s) = 0
      BY <3>2, <3>3, CountNone
    <3>. QED
      BY <1>1, <1>3, <3>2, <3>4 DEF Nothing
  <2>2. (\E i \in DOMAIN plan' : Hits \in plan'[i].sels) \/ NoPods'
    BY <1>1, <1>2 DEF AsksAll, NoPods
  <2>. QED
    BY <1>1, <2>1, <2>2 DEF CalmCounts
<1>. QED
  BY <1>4, <1>5, <1>6, <1>7 DEF GoldenInv

LEMMA AnsweredStep == GoldenInv /\ QueryAnswered => GoldenInv'
<1>. SUFFICES ASSUME GoldenInv, QueryAnswered
              PROVE  GoldenInv'
  OBVIOUS
<1>. DEFINE q == Head(plan)
            r == Tail(plan)
            add(s) == IF s \in q.sels THEN CountIn(meter, q.pods, s) ELSE 0
<1>1. /\ outcome = "asking" /\ plan # <<>> /\ plan' = r /\ answered' = (answered \/ Hits \in q.sels)
      /\ UNCHANGED <<meter, provider, outcome, served, calm>>
  BY DEF QueryAnswered, Asking
<1>2. /\ GoldenType /\ plan \in Seq(Queries) /\ meter \in Meters /\ Ordered(plan, provider)
      /\ NeverExceeds /\ CalmCounts
  BY DEF GoldenInv, GoldenType, GoldenEnds
<1>3. /\ r = SubSeq(plan, 2, Len(plan)) /\ q = plan[1] /\ Len(plan) \in Nat \ {0} /\ 1 \in DOMAIN plan
      /\ q \in Queries /\ 2 \in 1 .. Len(plan) + 1
  BY <1>1, <1>2, TailIs
<1>4. q.pods \in SUBSET GPods /\ q.sels \in SUBSET Sums
  BY <1>3 DEF Queries
<1>5. got' = [s \in Sums |-> got[s] + add(s)]
  <2>1. got' = [s \in Sums |-> got[s] + IF s \in q.sels THEN Count(q.pods, s) ELSE 0]
    BY DEF QueryAnswered
  <2>2. \A s \in Sums : Count(q.pods, s) = CountIn(meter, q.pods, s)
    BY <1>2, <1>4, ToldShape, CountIs DEF Count
  <2>. QED
    BY <2>1, <2>2
<1>6. \A s \in Sums : add(s) \in Nat
  BY <1>2, <1>4, ToldShape, CountType
<1>. HIDE DEF q, r, add
<1>7. r \in Seq(Queries) /\ Ordered(r, provider)
  BY <1>2, <1>3, SuffixOf, SuffixOrdered
<1>8. GoldenType'
  <2>1. got' \in [Sums -> Nat]
    BY <1>2, <1>5, <1>6 DEF GoldenType
  <2>2. answered' \in BOOLEAN
    BY <1>1, <1>2 DEF GoldenType
  <2>. QED
    BY <1>1, <1>2, <1>7, <2>1, <2>2 DEF GoldenType
<1>9. GoldenEnds'
  <2>. DEFINE x == ErrorsOf(IF provider = "native" THEN Bad ELSE {"client"})
  <2>1. x \in Sums /\ got[x] = 0
    BY DEF Sums, GoldenInv, GoldenEnds
  <2>2. x \notin q.sels
    BY <1>2, <1>3 DEF Ordered, NotAsked
  <2>3. got'[x] = 0
    BY <1>5, <2>1, <2>2 DEF add
  <2>. QED
    BY <1>1, <1>7, <2>3 DEF GoldenEnds
<1>10. NeverExceeds'
  <2>1. SUFFICES ASSUME NEW t \in Parts(provider)
                 PROVE  AtMost(t[1], t[2], t[3])'
    BY <1>1 DEF NeverExceeds
  <2>. DEFINE a == t[1]
              b == t[2]
              h == t[3]
  <2>2. /\ a \in Sums /\ a \in Summed /\ b \in Summed /\ h \in Sums /\ h \in Summed
        /\ CellsOf(a) \cap CellsOf(b) = {} /\ CellsOf(a) \cup CellsOf(b) \subseteq CellsOf(h)
    BY PartsShape, ToldShape
  <2>3. OnceEach(plan) /\ SumFirst(plan, a, h) /\ SumFirst(plan, b, h)
    BY <1>2 DEF Ordered
  <2>4. Got(a) + Got(b) + CountIn(meter, Owed(plan, a, h), a) + CountIn(meter, Owed(plan, b, h), b) <= Got(h) + served
    BY <1>2 DEF NeverExceeds, AtMost
  <2>5. /\ Got(a) \in Nat /\ Got(b) \in Nat /\ Got(h) \in Nat /\ served \in Nat
        /\ CountIn(meter, Owed(plan, a, h), a) \in Nat /\ CountIn(meter, Owed(plan, b, h), b) \in Nat
    BY <1>2, GotTypes
  <2>. HIDE DEF a, b, h
  <2>6. \A s : Got(s)' = Got(s) + add(s)
    <3>1. \A s \in Sums : Got(s)' = Got(s) + add(s)
      BY <1>5 DEF Got
    <3>2. \A s : s \notin Sums => Got(s)' = 0 /\ Got(s) = 0 /\ add(s) = 0
      BY <1>4 DEF Got, add
    <3>. QED
      BY <3>1, <3>2
  <2>7. /\ add(a) + CountIn(meter, Owed(r, a, h), a)
             <= CountIn(meter, Owed(plan, a, h), a) + IF h \in q.sels THEN CountIn(meter, q.pods, a) ELSE 0
        /\ add(b) + CountIn(meter, Owed(r, b, h), b)
             <= CountIn(meter, Owed(plan, b, h), b) + IF h \in q.sels THEN CountIn(meter, q.pods, b) ELSE 0
    BY <1>1, <1>2, <2>2, <2>3, Gains DEF q, r, add
  <2>8. CountIn(meter, q.pods, a) + CountIn(meter, q.pods, b) <= CountIn(meter, q.pods, h)
    BY <1>2, <1>4, <2>2, CountUnder
  <2>9. /\ CountIn(meter, q.pods, a) \in Nat /\ CountIn(meter, q.pods, b) \in Nat /\ CountIn(meter, q.pods, h) \in Nat
        /\ CountIn(meter, Owed(r, a, h), a) \in Nat /\ CountIn(meter, Owed(r, b, h), b) \in Nat
    BY <1>2, <1>4, <2>2, OwedPods, CountType
  <2>10. add(h) = (IF h \in q.sels THEN CountIn(meter, q.pods, h) ELSE 0) /\ add(a) \in Nat /\ add(b) \in Nat
    BY <2>9 DEF add
  <2>. DEFINE ca == CountIn(meter, Owed(r, a, h), a)
              cb == CountIn(meter, Owed(r, b, h), b)
  <2>11. Got(a) + add(a) + (Got(b) + add(b)) + ca + cb <= Got(h) + add(h) + served
    <3>. DEFINE pa == CountIn(meter, q.pods, a)
                pb == CountIn(meter, q.pods, b)
                ph == CountIn(meter, q.pods, h)
                oa == CountIn(meter, Owed(plan, a, h), a)
                ob == CountIn(meter, Owed(plan, b, h), b)
                ga == Got(a)
                gb == Got(b)
                gh == Got(h)
                da == add(a)
                db == add(b)
                dh == add(h)
    <3>1. /\ pa \in Nat /\ pb \in Nat /\ ph \in Nat /\ oa \in Nat /\ ob \in Nat /\ ca \in Nat /\ cb \in Nat
          /\ ga \in Nat /\ gb \in Nat /\ gh \in Nat /\ da \in Nat /\ db \in Nat /\ served \in Nat
          /\ dh = (IF h \in q.sels THEN ph ELSE 0) /\ pa + pb <= ph
          /\ da + ca <= oa + (IF h \in q.sels THEN pa ELSE 0)
          /\ db + cb <= ob + (IF h \in q.sels THEN pb ELSE 0)
          /\ ga + gb + oa + ob <= gh + served
      BY <2>4, <2>5, <2>7, <2>8, <2>9, <2>10
    <3>. HIDE DEF pa, pb, ph, oa, ob, ga, gb, gh, da, db, dh, ca, cb
    <3>2. ASSUME h \in q.sels
          PROVE  ga + da + (gb + db) + ca + cb <= gh + dh + served
      <4>1. dh = ph /\ da + ca <= oa + pa /\ db + cb <= ob + pb
        BY <3>1, <3>2
      <4>. QED
        BY <3>1, <4>1
    <3>3. ASSUME h \notin q.sels
          PROVE  ga + da + (gb + db) + ca + cb <= gh + dh + served
      <4>1. dh = 0 /\ da + ca <= oa /\ db + cb <= ob
        BY <3>1, <3>3
      <4>. QED
        BY <3>1, <4>1
    <3>4. ga + da + (gb + db) + ca + cb <= gh + dh + served
      BY <3>2, <3>3
    <3>. QED
      BY <3>4 DEF ga, gb, gh, da, db, dh
  <2>12. AtMost(a, b, h)' <=> Got(a)' + Got(b)' + ca + cb <= Got(h)' + served
    BY <1>1 DEF AtMost, a, b, h
  <2>13. AtMost(a, b, h)'
    BY <2>6, <2>11, <2>12
  <2>. QED
    BY <2>13 DEF a, b, h
<1>11. CalmCounts'
  <2>1. SUFFICES ASSUME calm
                 PROVE  /\ \A s \in Told(provider) : got'[s] = CountIn(meter, GPods \ Unanswered(r, s), s)
                        /\ answered' \/ (\E i \in DOMAIN r : Hits \in r[i].sels) \/ NoPods
    BY <1>1 DEF CalmCounts, NoPods
  <2>2. /\ \A s \in Told(provider) : got[s] = CountIn(meter, GPods \ Unanswered(plan, s), s)
        /\ answered \/ (\E i \in DOMAIN plan : Hits \in plan[i].sels) \/ NoPods
    BY <1>1, <1>2, <2>1 DEF CalmCounts
  <2>3. ASSUME NEW s \in Told(provider)
        PROVE  got'[s] = CountIn(meter, GPods \ Unanswered(r, s), s)
    <3>1. s \in Sums /\ s \in Summed
      BY ToldShape
    <3>2. /\ s \in q.sels => Unanswered(plan, s) = Unanswered(r, s) \cup q.pods /\ q.pods \cap Unanswered(r, s) = {}
          /\ s \notin q.sels => Unanswered(plan, s) = Unanswered(r, s)
      BY <1>1, <1>2, UnansweredAfter DEF Ordered, q, r
    <3>3. got'[s] = got[s] + add(s)
      BY <1>5, <3>1
    <3>4. CASE s \notin q.sels
      <4>1. got[s] \in Nat
        BY <1>2, <3>1 DEF GoldenType
      <4>. QED
        BY <2>2, <3>2, <3>3, <3>4, <4>1 DEF add
    <3>5. CASE s \in q.sels
      <4>. DEFINE P == GPods \ Unanswered(plan, s)
      <4>1. GPods \ Unanswered(r, s) = P \cup q.pods /\ P \cap q.pods = {} /\ P \in SUBSET GPods
        BY <1>4, <3>2, <3>5
      <4>2. got[s] = CountIn(meter, P, s)
        BY <2>2
      <4>. HIDE DEF P
      <4>3. CountIn(meter, P \cup q.pods, s) = CountIn(meter, P, s) + CountIn(meter, q.pods, s)
        BY <1>2, <1>4, <3>1, <4>1, CountJoin
      <4>. QED
        BY <3>3, <3>5, <4>1, <4>2, <4>3 DEF add
    <3>. QED
      BY <3>4, <3>5
  <2>4. ASSUME NEW i \in DOMAIN plan, Hits \in plan[i].sels, Hits \notin q.sels
        PROVE  \E j \in DOMAIN r : Hits \in r[j].sels
    <3>1. i # 1 /\ DOMAIN plan = 1 .. Len(plan) /\ i \in 2 .. Len(plan)
      BY <1>2, <1>3, <2>4
    <3>0. plan \in Seq(Queries) /\ 2 \in 1 .. Len(plan) + 1 /\ r = SubSeq(plan, 2, Len(plan)) /\ Len(plan) \in Nat
      BY <1>2, <1>3
    <3>5. LET x == SubSeq(plan, 2, Len(plan)) IN
          Len(x) = Len(plan) - 2 + 1 /\ DOMAIN x = 1 .. Len(x) /\ \A k \in DOMAIN x : x[k] = plan[2 + k - 1]
      BY <3>0, SuffixOf
    <3>2. Len(r) = Len(plan) - 1 /\ DOMAIN r = 1 .. Len(r) /\ \A k \in DOMAIN r : r[k] = plan[2 + k - 1]
      BY <3>0, <3>5
    <3>3. i - 1 \in DOMAIN r /\ 2 + (i - 1) - 1 = i
      BY <1>3, <3>1, <3>2
    <3>4. r[i - 1] = plan[i]
      BY <3>2, <3>3
    <3>. QED
      BY <2>4, <3>3, <3>4
  <2>. QED
    BY <1>1, <2>2, <2>3, <2>4
<1>. QED
  BY <1>8, <1>9, <1>10, <1>11 DEF GoldenInv

LEMMA FailedStep == GoldenInv /\ QueryFails => GoldenInv'
<1>. SUFFICES ASSUME GoldenInv, QueryFails
              PROVE  GoldenInv'
  OBVIOUS
<1>. DEFINE d == Head(plan).drop
<1>1. /\ outcome = "asking" /\ plan # <<>> /\ calm' = FALSE /\ UNCHANGED <<meter, provider, got, answered, served>>
      /\ \/ plan' = <<>> /\ outcome' = "error"
         \/ d # Throws /\ plan' = SubSeq(plan, 2 + d, Len(plan)) /\ outcome' = outcome
  BY DEF QueryFails, Asking
<1>2. GoldenType /\ plan \in Seq(Queries) /\ meter \in Meters /\ Ordered(plan, provider) /\ NeverExceeds
  BY DEF GoldenInv, GoldenType, GoldenEnds
<1>3. d # Throws => d \in Nat /\ 1 + d <= Len(plan) /\ 2 + d \in 1 .. Len(plan) + 1
  <2>1. Head(plan) = plan[1] /\ Head(plan) \in Queries /\ 1 \in DOMAIN plan /\ Len(plan) \in Nat
    BY <1>1, <1>2, TailIs
  <2>2. 1 + d <= Len(plan)
    BY <1>2, <2>1 DEF Ordered
  <2>3. d \in Nat \cup {Throws}
    BY <2>1 DEF Queries
  <2>. QED
    BY <2>1, <2>2, <2>3
<1>4. plan' \in Seq(Queries) /\ Ordered(plan', provider)
  <2>1. CASE plan' = <<>>
    BY <2>1, NoQueries
  <2>2. CASE d # Throws /\ plan' = SubSeq(plan, 2 + d, Len(plan))
    <3>. DEFINE n == 2 + d
    <3>1. n \in 1 .. Len(plan) + 1 /\ plan' = SubSeq(plan, n, Len(plan))
      BY <1>3, <2>2
    <3>. HIDE DEF n
    <3>. QED
      BY <1>2, <3>1, SuffixOf, SuffixOrdered
  <2>. QED
    BY <1>1, <2>1, <2>2
<1>5. GoldenType'
  BY <1>1, <1>2, <1>4 DEF GoldenType
<1>6. GoldenEnds'
  BY <1>1, <1>4 DEF GoldenInv, GoldenEnds
<1>7. NeverExceeds'
  <2>1. SUFFICES ASSUME NEW t \in Parts(provider)
                 PROVE  AtMost(t[1], t[2], t[3])'
    BY <1>1 DEF NeverExceeds
  <2>2. \A e \in {t[1], t[2]} : Owed(plan', e, t[3]) \subseteq Owed(plan, e, t[3])
    <3>1. TAKE e \in {t[1], t[2]}
    <3>2. Together(plan, e, t[3])
      BY <1>2 DEF Ordered
    <3>3. CASE plan' = <<>>
      BY <3>3, NoQueries
    <3>4. CASE d # Throws /\ plan' = SubSeq(plan, 2 + d, Len(plan))
      BY <1>1, <1>2, <1>3, <3>2, <3>4, OwedAfterFailure
    <3>. QED
      BY <1>1, <3>3, <3>4
  <2>3. t[1] \in Summed /\ t[2] \in Summed
    BY PartsShape, ToldShape
  <2>4. /\ CountIn(meter, Owed(plan', t[1], t[3]), t[1]) <= CountIn(meter, Owed(plan, t[1], t[3]), t[1])
        /\ CountIn(meter, Owed(plan', t[2], t[3]), t[2]) <= CountIn(meter, Owed(plan, t[2], t[3]), t[2])
        /\ CountIn(meter, Owed(plan', t[1], t[3]), t[1]) \in Nat
        /\ CountIn(meter, Owed(plan', t[2], t[3]), t[2]) \in Nat
    BY <1>2, <2>2, <2>3, OwedPods, CountPart, CountType
  <2>5. AtMost(t[1], t[2], t[3])
    BY <1>2 DEF NeverExceeds
  <2>6. Got(t[1])' = Got(t[1]) /\ Got(t[2])' = Got(t[2]) /\ Got(t[3])' = Got(t[3])
    BY <1>1 DEF Got
  <2>. QED
    BY <1>1, <1>2, <2>4, <2>5, <2>6, GotTypes DEF AtMost
<1>8. CalmCounts'
  BY <1>1 DEF CalmCounts
<1>. QED
  BY <1>5, <1>6, <1>7, <1>8 DEF GoldenInv

\* A step that leaves the answers and ends the plan, or keeps it.
LEMMA SamePlan ==
  ASSUME GoldenInv, UNCHANGED <<meter, provider, got, served, answered, calm>>,
         outcome' \in {"signals", "undefined"}, plan' = <<>>
  PROVE  GoldenType' /\ GoldenEnds' /\ NeverExceeds'
<1>1. GoldenType /\ meter \in Meters /\ NeverExceeds
  BY DEF GoldenInv, GoldenType
<1>2. GoldenType'
  BY <1>1, NoQueries DEF GoldenType
<1>3. GoldenEnds'
  BY NoQueries DEF GoldenInv, GoldenEnds
<1>4. NeverExceeds'
  <2>1. SUFFICES ASSUME NEW t \in Parts(provider)
                 PROVE  AtMost(t[1], t[2], t[3])'
    BY DEF NeverExceeds
  <2>2. t[1] \in Summed /\ t[2] \in Summed
    BY PartsShape, ToldShape
  <2>3. CountIn(meter, Owed(plan', t[1], t[3]), t[1]) = 0 /\ CountIn(meter, Owed(plan', t[2], t[3]), t[2]) = 0
    BY <1>1, <2>2, NoQueries, CountNone
  <2>4. AtMost(t[1], t[2], t[3])
    BY <1>1 DEF NeverExceeds
  <2>5. Got(t[1])' = Got(t[1]) /\ Got(t[2])' = Got(t[2]) /\ Got(t[3])' = Got(t[3])
    BY DEF Got
  <2>. QED
    BY <1>1, <2>3, <2>4, <2>5, GotTypes DEF AtMost
<1>. QED
  BY <1>2, <1>3, <1>4

LEMMA EmptyStep == GoldenInv /\ Empty => GoldenInv'
<1>. SUFFICES ASSUME GoldenInv, Empty
              PROVE  GoldenInv'
  OBVIOUS
<1>1. GoldenType' /\ GoldenEnds' /\ NeverExceeds'
  BY SamePlan DEF Empty
<1>2. CountIn(meter, GPods, Hits) = 0
  <2>1. meter \in Meters /\ Hits \in Summed /\ Count(GPods, Hits) = 0
    BY ToldShape DEF GoldenInv, GoldenType, Empty, MayEnd, NoTraffic, Sums
  <2>2. Count(GPods, Hits) = CountIn(meter, GPods, Hits)
    BY <2>1, CountIs DEF Count
  <2>. QED
    BY <2>1, <2>2
<1>3. CalmCounts'
  BY <1>2 DEF CalmCounts, Empty
<1>. QED
  BY <1>1, <1>3 DEF GoldenInv

LEMMA ReturnStep == GoldenInv /\ GoldenReturn => GoldenInv'
<1>. SUFFICES ASSUME GoldenInv, GoldenReturn
              PROVE  GoldenInv'
  OBVIOUS
<1>1. GoldenType' /\ GoldenEnds' /\ NeverExceeds'
  BY SamePlan DEF GoldenReturn
<1>2. ASSUME calm, ~answered
      PROVE  NoPods /\ CountIn(meter, GPods, Hits) = 0
  <2>1. NoPods
    BY <1>2 DEF GoldenInv, CalmCounts, GoldenReturn, Asking
  <2>2. GPods = {}
    BY <2>1 DEF NoPods, GPods, Range
  <2>3. meter \in Meters /\ Hits \in Summed
    BY ToldShape DEF GoldenInv, GoldenType, Sums
  <2>. QED
    BY <2>1, <2>2, <2>3, CountNone
<1>3. CalmCounts'
  BY <1>2 DEF GoldenInv, CalmCounts, GoldenReturn, Asking, NoPods
<1>. QED
  BY <1>1, <1>3 DEF GoldenInv

LEMMA RequestStep ==
  ASSUME GoldenInv, NEW p \in GPods, NEW c \in Cells, Request(p, c)
  PROVE  GoldenInv'
<1>1. /\ outcome \in {"idle", "asking"} /\ meter' = [meter EXCEPT ![p][c] = @ + 1]
      /\ UNCHANGED <<provider, plan, got, answered, outcome>>
      /\ outcome = "asking" => served' = served + 1 /\ calm' = FALSE
      /\ outcome = "idle" => served' = served /\ calm' = calm
  BY DEF Request, Asking
<1>2. /\ GoldenType /\ meter \in Meters /\ served \in Nat /\ NeverExceeds /\ CalmCounts /\ GoldenEnds
      /\ outcome = "idle" => plan = <<>>
  BY <1>1 DEF GoldenInv, GoldenType, GoldenEnds
<1>3. meter' \in Meters
  BY <1>1, <1>2 DEF Meters
<1>4. GoldenType'
  <2>1. served' \in Nat
    BY <1>1, <1>2
  <2>2. calm' \in BOOLEAN
    BY <1>1, <1>2, Zenon DEF GoldenType
  <2>. QED
    BY <1>1, <1>2, <1>3, <2>1, <2>2 DEF GoldenType
<1>5. GoldenEnds'
  BY <1>1, <1>2 DEF GoldenEnds
<1>6. NeverExceeds'
  <2>1. SUFFICES ASSUME NEW t \in Parts(provider)
                 PROVE  AtMost(t[1], t[2], t[3])'
    BY <1>1 DEF NeverExceeds
  <2>2. t[1] \in Summed /\ t[2] \in Summed /\ CellsOf(t[1]) \cap CellsOf(t[2]) = {}
    BY PartsShape, ToldShape
  <2>3. AtMost(t[1], t[2], t[3])
    BY <1>2 DEF NeverExceeds
  <2>4. Got(t[1])' = Got(t[1]) /\ Got(t[2])' = Got(t[2]) /\ Got(t[3])' = Got(t[3])
    BY <1>1 DEF Got
  <2>. DEFINE A == Owed(plan, t[1], t[3])
              B == Owed(plan, t[2], t[3])
  <2>5. A \in SUBSET GPods /\ B \in SUBSET GPods /\ Owed(plan', t[1], t[3]) = A /\ Owed(plan', t[2], t[3]) = B
    BY <1>1, OwedPods
  <2>6. CountIn(meter, A, t[1]) \in Nat /\ CountIn(meter, B, t[2]) \in Nat
        /\ Got(t[1]) \in Nat /\ Got(t[2]) \in Nat /\ Got(t[3]) \in Nat
    BY <1>2, GotTypes
  <2>7. AtMost(t[1], t[2], t[3])' <=>
          Got(t[1]) + Got(t[2]) + CountIn(meter', A, t[1]) + CountIn(meter', B, t[2]) <= Got(t[3]) + served'
    BY <2>4, <2>5 DEF AtMost
  <2>8. Got(t[1]) + Got(t[2]) + CountIn(meter, A, t[1]) + CountIn(meter, B, t[2]) <= Got(t[3]) + served
    BY <2>3 DEF AtMost
  <2>9. CASE outcome = "asking"
    <3>. HIDE DEF A, B
    <3>1. /\ CountIn(meter', A, t[1]) = CountIn(meter, A, t[1]) + IF p \in A /\ c \in CellsOf(t[1]) THEN 1 ELSE 0
          /\ CountIn(meter', B, t[2]) = CountIn(meter, B, t[2]) + IF p \in B /\ c \in CellsOf(t[2]) THEN 1 ELSE 0
      <4>1. \A q \in GPods, d \in Cells : meter'[q][d] = IF q = p /\ d = c THEN meter[q][d] + 1 ELSE meter[q][d]
        BY <1>1, <1>2 DEF Meters
      <4>2. \A P \in SUBSET GPods, s \in Summed :
              CountIn(meter', P, s) = CountIn(meter, P, s) + IF p \in P /\ c \in CellsOf(s) THEN 1 ELSE 0
        BY <1>2, <1>3, <4>1, CountRequest
      <4>. QED
        BY <2>2, <2>5, <4>2
    <3>2. CountIn(meter', A, t[1]) + CountIn(meter', B, t[2]) <= CountIn(meter, A, t[1]) + CountIn(meter, B, t[2]) + 1
      BY <2>2, <2>6, <3>1
    <3>3. CountIn(meter', A, t[1]) \in Nat /\ CountIn(meter', B, t[2]) \in Nat
      BY <2>6, <3>1
    <3>. QED
      BY <1>1, <1>2, <2>6, <2>7, <2>8, <2>9, <3>2, <3>3
  <2>10. CASE outcome = "idle"
    <3>1. A = {} /\ B = {}
      BY <1>2, <2>10, NoQueries
    <3>2. /\ CountIn(meter', A, t[1]) = 0 /\ CountIn(meter', B, t[2]) = 0
          /\ CountIn(meter, A, t[1]) = 0 /\ CountIn(meter, B, t[2]) = 0
      BY <1>2, <1>3, <2>2, <3>1, CountNone
    <3>. QED
      BY <1>1, <2>7, <2>8, <2>10, <3>2
  <2>. QED
    BY <1>1, <2>9, <2>10
<1>7. CalmCounts'
  BY <1>1, <1>2 DEF CalmCounts
<1>. QED
  BY <1>4, <1>5, <1>6, <1>7 DEF GoldenInv

LEMMA RestartStep ==
  ASSUME GoldenInv, NEW p \in GPods, JvmRestart(p)
  PROVE  GoldenInv'
<1>1. /\ outcome = "asking" /\ meter' = [meter EXCEPT ![p] = [c \in Cells |-> 0]] /\ calm' = FALSE
      /\ UNCHANGED <<provider, plan, got, answered, outcome, served>>
  BY DEF JvmRestart, Asking
<1>2. GoldenType /\ meter \in Meters /\ served \in Nat /\ NeverExceeds /\ GoldenEnds
  BY <1>1 DEF GoldenInv, GoldenType
<1>3. meter' \in Meters
  BY <1>1, <1>2 DEF Meters
<1>4. GoldenType'
  BY <1>1, <1>2, <1>3 DEF GoldenType
<1>5. GoldenEnds'
  BY <1>1, <1>2 DEF GoldenEnds
<1>6. NeverExceeds'
  <2>1. SUFFICES ASSUME NEW t \in Parts(provider)
                 PROVE  AtMost(t[1], t[2], t[3])'
    BY <1>1 DEF NeverExceeds
  <2>2. t[1] \in Summed /\ t[2] \in Summed
    BY PartsShape, ToldShape
  <2>3. AtMost(t[1], t[2], t[3])
    BY <1>2 DEF NeverExceeds
  <2>4. Got(t[1])' = Got(t[1]) /\ Got(t[2])' = Got(t[2]) /\ Got(t[3])' = Got(t[3])
    BY <1>1 DEF Got
  <2>5. /\ CountIn(meter', Owed(plan', t[1], t[3]), t[1]) <= CountIn(meter, Owed(plan, t[1], t[3]), t[1])
        /\ CountIn(meter', Owed(plan', t[2], t[3]), t[2]) <= CountIn(meter, Owed(plan, t[2], t[3]), t[2])
    BY <1>1, <1>2, <2>2, OwedPods, CountRestart
  <2>6. /\ CountIn(meter', Owed(plan', t[1], t[3]), t[1]) \in Nat
        /\ CountIn(meter', Owed(plan', t[2], t[3]), t[2]) \in Nat
    BY <1>3, <2>2, OwedPods, CountType
  <2>. QED
    BY <1>1, <1>2, <2>3, <2>4, <2>5, <2>6, GotTypes DEF AtMost
<1>7. CalmCounts'
  BY <1>1 DEF CalmCounts
<1>. QED
  BY <1>4, <1>5, <1>6, <1>7 DEF GoldenInv

-----------------------------------------------------------------------------
(***************************************************************************)
(* Sequences of blocks.                                                    *)
(***************************************************************************)
\* A number is in one block, at one place.
LEMMA BlockOf ==
  ASSUME NEW B \in Nat \ {0}, NEW m \in Nat, NEW i \in 1 .. m * B
  PROVE  \E a \in 1 .. m, b \in 1 .. B : i = (a - 1) * B + b
<1>. DEFINE T == {k \in Nat : i <= k * B}
<1>1. m \in T /\ T \subseteq Nat
  OBVIOUS
<1>2. PICK a \in T : \A k \in T : a <= k
  BY <1>1, LeastNumber
<1>3. a # 0
  <2>1. i >= 1 /\ i <= a * B /\ 0 * B = 0
    BY <1>2
  <2>. QED
    BY <2>1
<1>4. a \in 1 .. m /\ a - 1 \in Nat
  BY <1>1, <1>2, <1>3
<1>5. a - 1 \notin T
  BY <1>2, <1>4
<1>6. (a - 1) * B < i /\ i <= a * B /\ (a - 1) * B \in Nat
  BY <1>2, <1>4, <1>5
<1>7. a * B = (a - 1) * B + B
  <2>. DEFINE z == a - 1
  <2>1. z \in Nat /\ a = z + 1
    BY <1>4
  <2>. HIDE DEF z
  <2>2. (z + 1) * B = z * B + B
    BY <2>1
  <2>. QED
    BY <2>1, <2>2
<1>8. i - (a - 1) * B \in 1 .. B /\ i = (a - 1) * B + (i - (a - 1) * B)
  BY <1>6, <1>7
<1>. QED
  BY <1>4, <1>8

LEMMA BlockOrder ==
  ASSUME NEW B \in Nat \ {0}, NEW a \in Nat \ {0}, NEW c \in Nat \ {0}, NEW b \in 1 .. B, NEW d \in 1 .. B
  PROVE  /\ (a - 1) * B \in Nat /\ (a - 1) * B + B = a * B
         /\ a < c => (a - 1) * B + b < (c - 1) * B + d /\ a * B < (c - 1) * B + d
<1>1. (a - 1) * B \in Nat /\ (c - 1) * B \in Nat
  BY Product
<1>2. (a - 1) * B + B = a * B
  <2>. DEFINE z == a - 1
  <2>1. z \in Nat /\ a = z + 1
    OBVIOUS
  <2>. HIDE DEF z
  <2>2. (z + 1) * B = z * B + B
    BY <2>1
  <2>. QED
    BY <2>1, <2>2
<1>3. ASSUME a < c
      PROVE  a * B <= (c - 1) * B
  BY <1>3, Product
<1>. QED
  BY <1>1, <1>2, <1>3

FlatTo(f, seqs, k) == f = [i \in 1 .. k |-> IF i = 1 THEN seqs[i] ELSE f[i - 1] \o seqs[i]]

LEMMA FlatExists ==
  ASSUME NEW seqs, NEW n \in Nat
  PROVE  \E f : FlatTo(f, seqs, n)
<1>. DEFINE bad == {k \in Nat : ~\E f : FlatTo(f, seqs, k)}
<1>1. 0 \notin bad
  <2>. DEFINE f == [i \in 1 .. 0 |-> 0]
  <2>1. FlatTo(f, seqs, 0)
    BY 1 .. 0 = {} DEF FlatTo
  <2>. QED
    BY <2>1
<1>2. ASSUME NEW k \in Nat, NEW f, FlatTo(f, seqs, k)
      PROVE  \E h : FlatTo(h, seqs, k + 1)
  <2>. DEFINE h == [i \in 1 .. k + 1 |-> IF i = 1 THEN seqs[i] ELSE f[i - 1] \o seqs[i]]
  <2>0. \A i \in 1 .. k : f[i] = IF i = 1 THEN seqs[i] ELSE f[i - 1] \o seqs[i]
    BY <1>2 DEF FlatTo
  <2>1. \A i \in 1 .. k : h[i] = f[i]
    BY <2>0
  <2>2. \A i \in 1 .. k + 1 : i # 1 => i - 1 \in 1 .. k
    OBVIOUS
  <2>3. \A i \in 1 .. k + 1 : i # 1 => h[i - 1] = f[i - 1]
    BY <2>1, <2>2
  <2>4. h = [i \in 1 .. k + 1 |-> IF i = 1 THEN seqs[i] ELSE h[i - 1] \o seqs[i]]
    BY <2>3
  <2>5. FlatTo(h, seqs, k + 1)
    BY <2>4 DEF FlatTo
  <2>. QED
    BY <2>5
<1>3. bad = {}
  <2>1. SUFFICES ASSUME bad # {}
                 PROVE  FALSE
    OBVIOUS
  <2>2. PICK k \in bad : \A j \in bad : k <= j
    BY <2>1, LeastNumber
  <2>3. k - 1 \in Nat /\ k - 1 \notin bad
    BY <1>1, <2>2
  <2>4. PICK f : FlatTo(f, seqs, k - 1)
    BY <2>3
  <2>5. \E h : FlatTo(h, seqs, (k - 1) + 1)
    BY <1>2, <2>3, <2>4
  <2>6. (k - 1) + 1 = k
    BY <2>2
  <2>. QED
    BY <2>2, <2>5, <2>6
<1>. QED
  BY <1>3

\* Blocks of one length, one after the other.
IsBlocks(x, seqs, k, B, S) ==
  /\ x \in Seq(S) /\ Len(x) = k * B
  /\ \A a \in 1 .. k, b \in 1 .. B : x[(a - 1) * B + b] = seqs[a][b]

LEMMA OneBlockMore ==
  ASSUME NEW S, NEW seqs, NEW B \in Nat \ {0}, NEW k \in Nat, NEW x, IsBlocks(x, seqs, k, B, S),
         seqs[k + 1] \in Seq(S), Len(seqs[k + 1]) = B
  PROVE  IsBlocks(x \o seqs[k + 1], seqs, k + 1, B, S)
<1>. DEFINE y == seqs[k + 1]
            z == x \o y
<1>1. x \in Seq(S) /\ Len(x) = k * B /\ k * B \in Nat /\ (k + 1) * B = k * B + B
  BY BlockOrder, Product DEF IsBlocks
<1>2. y \in Seq(S) /\ Len(y) = B
  OBVIOUS
<1>. HIDE DEF y
<1>3. z \in Seq(S) /\ Len(z) = (k + 1) * B
  BY <1>1, <1>2
<1>4. ASSUME NEW a \in 1 .. k + 1, NEW b \in 1 .. B
      PROVE  z[(a - 1) * B + b] = seqs[a][b]
  <2>1. CASE a = k + 1
    <3>1. (a - 1) * B + b = Len(x) + b
      BY <1>1, <2>1
    <3>2. z[Len(x) + b] = y[b]
      BY <1>1, <1>2
    <3>. QED
      BY <2>1, <3>1, <3>2 DEF y
  <2>2. CASE a # k + 1
    <3>1. a \in 1 .. k /\ a <= k
      BY <2>2
    <3>2. a * B <= k * B /\ (a - 1) * B \in Nat /\ (a - 1) * B + B = a * B
      BY <3>1, Product, BlockOrder
    <3>3. (a - 1) * B + b \in 1 .. Len(x)
      BY <1>1, <3>2
    <3>4. z[(a - 1) * B + b] = x[(a - 1) * B + b]
      BY <1>1, <1>2, <3>3
    <3>. QED
      BY <3>1, <3>4 DEF IsBlocks
  <2>. QED
    BY <2>1, <2>2
<1>. QED
  BY <1>3, <1>4 DEF IsBlocks, y

LEMMA Flattening ==
  ASSUME NEW S, NEW m \in Nat, NEW B \in Nat \ {0}, NEW seqs \in [1 .. m -> Seq(S)],
         \A i \in 1 .. m : Len(seqs[i]) = B
  PROVE  IsBlocks(FlattenSeq(seqs), seqs, m, B, S)
<1>1. Len(seqs) = m /\ seqs \in Seq(Seq(S))
  OBVIOUS
<1>2. CASE m = 0
  <2>1. FlattenSeq(seqs) = seqs
    BY <1>1, <1>2 DEF FlattenSeq
  <2>2. seqs = <<>>
    BY <1>1, <1>2
  <2>3. 0 * B = 0 /\ 1 .. 0 = {}
    OBVIOUS
  <2>. QED
    BY <1>2, <2>1, <2>2, <2>3 DEF IsBlocks
<1>3. CASE m # 0
  <2>. DEFINE f == CHOOSE g : FlatTo(g, seqs, m)
  <2>1. FlattenSeq(seqs) = (CHOOSE g : FlatTo(g, seqs, Len(seqs)))[Len(seqs)]
    BY <1>1, <1>3, Zenon DEF FlattenSeq, FlatTo
  <2>2. FlatTo(f, seqs, m)
    BY FlatExists
  <2>3. FlattenSeq(seqs) = f[m]
    BY <1>1, <2>1
  <2>. HIDE DEF f
  <2>4. \A k \in 1 .. m : f[k] = IF k = 1 THEN seqs[k] ELSE f[k - 1] \o seqs[k]
    BY <2>2 DEF FlatTo
  <2>. DEFINE bad == {k \in 1 .. m : ~IsBlocks(f[k], seqs, k, B, S)}
  <2>5. bad = {}
    <3>1. SUFFICES ASSUME bad # {}
                   PROVE  FALSE
      OBVIOUS
    <3>2. PICK k \in bad : \A j \in bad : k <= j
      <4>1. bad \subseteq Nat
        OBVIOUS
      <4>. HIDE DEF bad
      <4>. QED
        BY <3>1, <4>1, LeastNumber
    <3>3. CASE k = 1
      <4>1. f[1] = seqs[1] /\ seqs[1] \in Seq(S) /\ Len(seqs[1]) = B
        BY <2>4, <3>2, <3>3
      <4>2. 1 * B = B /\ (1 - 1) * B = 0
        OBVIOUS
      <4>3. \A a \in 1 .. 1, b \in 1 .. B : seqs[1][(a - 1) * B + b] = seqs[a][b]
        <5>1. TAKE a \in 1 .. 1, b \in 1 .. B
        <5>2. a = 1 /\ (a - 1) * B + b = b
          BY <4>2
        <5>. QED
          BY <5>2
      <4>4. IsBlocks(f[1], seqs, 1, B, S)
        BY <4>1, <4>2, <4>3 DEF IsBlocks
      <4>. QED
        BY <3>2, <3>3, <4>4
    <3>4. CASE k # 1
      <4>. DEFINE j == k - 1
      <4>0. k \in 1 .. m /\ \A i \in bad : k <= i
        BY <3>2
      <4>5. j \in 1 .. m /\ k = j + 1 /\ j \in Nat /\ ~(k <= j)
        BY <3>4, <4>0
      <4>6. j \notin bad
        <5>. HIDE DEF bad, j
        <5>. QED
          BY <4>0, <4>5
      <4>1. j \in 1 .. m /\ j \notin bad /\ k = j + 1 /\ j \in Nat /\ f[k] = f[j] \o seqs[k]
        BY <2>4, <3>4, <4>0, <4>5, <4>6
      <4>. HIDE DEF j
      <4>2. IsBlocks(f[j], seqs, j, B, S)
        BY <4>1
      <4>3. seqs[j + 1] \in Seq(S) /\ Len(seqs[j + 1]) = B
        BY <3>2, <4>1
      <4>4. IsBlocks(f[j] \o seqs[j + 1], seqs, j + 1, B, S)
        BY <4>1, <4>2, <4>3, OneBlockMore
      <4>. QED
        BY <3>2, <4>1, <4>4
    <3>. QED
      BY <3>3, <3>4
  <2>6. m \in 1 .. m /\ m \notin bad
    BY <1>3, <2>5
  <2>. QED
    BY <2>3, <2>6
<1>. QED
  BY <1>2, <1>3

-----------------------------------------------------------------------------
(***************************************************************************)
(* The plans of the four providers.                                        *)
(***************************************************************************)
ServerErrors == ErrorsOf({"server"})
ClientErrors == ErrorsOf({"client"})

LEMMA OfDiffers ==
  /\ \A u, v, O, P : Of(u, O) = Of(v, P) <=> u = v /\ O = P
  /\ Outcomes # {"server"} /\ Outcomes # {"client"} /\ Outcomes # Bad /\ Outcomes # {}
  /\ {"server"} # {"client"} /\ {"server"} # Bad /\ {"client"} # Bad
  /\ {"server"} # {} /\ {"client"} # {} /\ Bad # {}
  /\ \A u \in Uris : u # AllUris
<1>1. \A u, v, O, P : Of(u, O) = Of(v, P) <=> u = v /\ O = P
  BY DEF Of
<1>2. "ok" \in Outcomes /\ "server" \in Outcomes /\ "ok" \notin Bad /\ "server" \in Bad /\ "client" \in Bad
  BY DEF Outcomes, Bad
<1>3. \A u \in Uris : u # AllUris
  BY GoldenAssumption
<1>. QED
  BY <1>1, <1>2, <1>3

\* The sums that the plans ask for differ from each other.
LEMMA SumsDiffer ==
  /\ Hits \in Sums /\ ServerErrors \in Sums /\ ClientErrors \in Sums /\ ErrorsOf(Bad) \in Sums /\ NoSum \notin Sums
  /\ \A u \in Uris : Of(u, Outcomes) \in Sums /\ Of(u, {"server"}) \in Sums /\ Of(u, Bad) \in Sums
  /\ Hits # ServerErrors /\ Hits # ClientErrors /\ Hits # ErrorsOf(Bad) /\ ServerErrors # ClientErrors /\
       ServerErrors # ErrorsOf(Bad) /\ ClientErrors # ErrorsOf(Bad)
  /\ \A u \in Uris, O \in {Outcomes, {"server"}, Bad} :
       Of(u, O) # Hits /\ Of(u, O) # ServerErrors /\ Of(u, O) # ClientErrors /\ Of(u, O) # ErrorsOf(Bad)
  /\ \A u, v \in Uris : /\ Of(u, Outcomes) # Of(v, {"server"}) /\ Of(u, Outcomes) # Of(v, Bad)
                        /\ Of(u, Outcomes) = Of(v, Outcomes) => u = v
                        /\ Of(u, {"server"}) = Of(v, {"server"}) => u = v
<1>1. /\ Hits \in Sums /\ ServerErrors \in Sums /\ ClientErrors \in Sums /\ ErrorsOf(Bad) \in Sums
      /\ \A u \in Uris : Of(u, Outcomes) \in Sums /\ Of(u, {"server"}) \in Sums /\ Of(u, Bad) \in Sums
  BY DEF Sums, ServerErrors, ClientErrors
<1>2. NoSum \notin Sums
  BY OfDiffers DEF NoSum, Sums, Hits, ErrorsOf
<1>3. /\ Hits # ServerErrors /\ Hits # ClientErrors /\ Hits # ErrorsOf(Bad) /\ ServerErrors # ClientErrors /\
           ServerErrors # ErrorsOf(Bad) /\ ClientErrors # ErrorsOf(Bad)
  BY OfDiffers DEF Hits, ErrorsOf, ServerErrors, ClientErrors
<1>4. \A u \in Uris : \A O : Of(u, O) # Hits /\ Of(u, O) # ServerErrors /\ Of(u, O) # ClientErrors /\ Of(u, O) # ErrorsOf(Bad)
  BY OfDiffers DEF Hits, ErrorsOf, ServerErrors, ClientErrors
<1>5. \A u, v \in Uris : /\ Of(u, Outcomes) # Of(v, {"server"}) /\ Of(u, Outcomes) # Of(v, Bad)
                         /\ Of(u, Outcomes) = Of(v, Outcomes) => u = v
                         /\ Of(u, {"server"}) = Of(v, {"server"}) => u = v
  BY OfDiffers
<1>. QED
  BY <1>1, <1>2, <1>3, <1>4, <1>5

\* The sums of the queries that are asked of all pods.
Rounds == {{}, {Hits}, {ServerErrors}, {ErrorsOf(Bad)}, {Hits, ServerErrors, ErrorsOf(Bad)}, EachUri(Outcomes),
           EachUri({"server"}), EachUri(Bad),
           EachUri(Outcomes) \cup EachUri({"server"})}

LEMMA RoundsAreSums ==
  ASSUME NEW r \in Rounds
  PROVE  r \subseteq Sums /\ ClientErrors \notin r /\ NoSum \notin r
<1>1. \A O : \A s \in EachUri(O) : \E u \in Uris : s = Of(u, O)
  BY DEF EachUri
<1>. QED
  BY <1>1, SumsDiffer DEF Rounds

\* What a plan that asks all pods must keep to: every sum once, the parts behind it.
LEMMA AskedOfAll ==
  ASSUME NEW pr, pr # "native", NEW pl \in Seq(Queries),
         \A i \in DOMAIN pl : pl[i].pods = GPods /\ pl[i].sels \in Rounds /\ i + pl[i].drop <= Len(pl),
         \A i, j \in DOMAIN pl : i < j => pl[i].sels \cap pl[j].sels = {},
         \A i, j \in DOMAIN pl : i < j /\ Hits \in pl[j].sels => ServerErrors \notin pl[i].sels /\
              ErrorsOf(Bad) \notin pl[i].sels,
         \A i \in DOMAIN pl : Hits \in pl[i].sels => pl[i].drop = Throws,
         \A i \in DOMAIN pl : pl[i].drop \in {0, Throws},
         \E i \in DOMAIN pl : Hits \in pl[i].sels,
         \E i \in DOMAIN pl : ServerErrors \in pl[i].sels,
         \E i \in DOMAIN pl : ErrorsOf(Bad) \in pl[i].sels,
         \A u \in Uris : \E i \in DOMAIN pl : Of(u, Outcomes) \in pl[i].sels,
         pr # "datadog" => \A i, j \in DOMAIN pl : i < j => 
            \A u \in Uris : ~(Of(u, {"server"}) \in pl[i].sels /\ Of(u, Outcomes) \in pl[j].sels),
         pr # "datadog" => \A i \in DOMAIN pl : pl[i].drop = Throws
  PROVE  AsksAll(pl, pr)
<1>1. \A i \in DOMAIN pl : pl[i].sels \subseteq Sums /\ ClientErrors \notin pl[i].sels /\ NoSum \notin pl[i].sels
  BY RoundsAreSums
<1>2. \A s : (\E i \in DOMAIN pl : s \in pl[i].sels) => Unanswered(pl, s) = GPods
  BY DEF Unanswered
<1>3. \A s : Unanswered(pl, s) \subseteq GPods
  BY DEF Unanswered
<1>4. OnceEach(pl)
  BY DEF OnceEach
<1>5. NotAsked(pl, pr)
  BY <1>1 DEF NotAsked, ClientErrors
<1>6. \A i \in DOMAIN pl : i \in Nat /\ i >= 1
  OBVIOUS
<1>7. ASSUME NEW t \in Parts(pr), NEW e \in {t[1], t[2]}
      PROVE  SumFirst(pl, e, t[3]) /\ Together(pl, e, t[3]) /\ Unanswered(pl, t[3]) = GPods
  <2>1. CASE t[3] = Hits /\ e \in {ClientErrors, ServerErrors, ErrorsOf(Bad), NoSum}
    <3>1. SumFirst(pl, e, t[3])
      BY <1>1, <2>1 DEF SumFirst
    <3>2. Together(pl, e, t[3])
      <4>1. SUFFICES ASSUME NEW i \in DOMAIN pl, NEW k \in DOMAIN pl, i <= k, k <= i + pl[i].drop, Hits \in pl[k].sels
                     PROVE  FALSE
        BY <2>1 DEF Together
      <4>2. pl[i].drop = 0 /\ k = i
        BY <1>6, <4>1 DEF Throws
      <4>. QED
        BY <4>1, <4>2 DEF Throws
    <3>. QED
      BY <1>2, <2>1, <3>1, <3>2
  <2>2. ASSUME NEW u \in Uris, pr # "datadog", t[3] = Of(u, Outcomes), e \in {Of(u, {"server"}), NoSum}
        PROVE  SumFirst(pl, e, t[3]) /\ Together(pl, e, t[3]) /\ Unanswered(pl, t[3]) = GPods
    <3>1. SumFirst(pl, e, t[3])
      BY <1>1, <2>2 DEF SumFirst
    <3>2. Together(pl, e, t[3])
      <4>1. SUFFICES ASSUME NEW i \in DOMAIN pl, NEW k \in DOMAIN pl, i <= k, k <= i + pl[i].drop
                     PROVE  FALSE
        BY DEF Together
      <4>2. pl[i].drop = -1
        BY <2>2 DEF Throws
      <4>. QED
        BY <1>6, <4>1, <4>2
    <3>. QED
      BY <1>2, <2>2, <3>1, <3>2
  <2>. QED
    BY <2>1, <2>2 DEF Parts, ClientErrors, ServerErrors
<1>8. Ordered(pl, pr)
  BY <1>4, <1>5, <1>7 DEF Ordered
<1>9. ASSUME NEW t \in Parts(pr), NEW e \in {t[1], t[2]}
      PROVE  Owed(pl, e, t[3]) = {}
  BY <1>3, <1>7, <1>9 DEF Owed
<1>10. \A s \in Told(pr) : Unanswered(pl, s) = GPods
  BY <1>2 DEF Told, ServerErrors
<1>. QED
  BY <1>8, <1>9, <1>10 DEF AsksAll

LEMMA RoundsApart ==
  /\ {Hits} \in Rounds /\ {ServerErrors} \in Rounds /\ {ErrorsOf(Bad)} \in Rounds /\ {} \in Rounds
  /\ {Hits, ServerErrors, ErrorsOf(Bad)} \in Rounds
  /\ EachUri(Outcomes) \in Rounds /\ EachUri({"server"}) \in Rounds /\ EachUri(Bad) \in Rounds
  /\ EachUri(Outcomes) \cup EachUri({"server"}) \in Rounds
  /\ EachUri(Outcomes) \cap EachUri({"server"}) = {} /\ EachUri(Outcomes) \cap EachUri(Bad) = {}
  /\ \A O \in {Outcomes, {"server"}, Bad} : Hits \notin EachUri(O) /\ ServerErrors \notin EachUri(O) /\
       ErrorsOf(Bad) \notin EachUri(O)
  /\ \A u \in Uris : Of(u, Outcomes) \in EachUri(Outcomes) /\ Of(u, Outcomes) \notin EachUri({"server"})
  /\ \A u \in Uris : Of(u, {"server"}) \notin EachUri(Outcomes)
<1>1. \A O : \A s \in EachUri(O) : \E u \in Uris : s = Of(u, O)
  BY DEF EachUri
<1>2. \A O, s : s \in EachUri(O) <=> \E u \in Uris : s = Of(u, O)
  BY DEF EachUri
<1>3. EachUri(Outcomes) \cap EachUri({"server"}) = {} /\ EachUri(Outcomes) \cap EachUri(Bad) = {}
  BY <1>2, SumsDiffer
<1>4. \A O \in {Outcomes, {"server"}, Bad} : Hits \notin EachUri(O) /\ ServerErrors \notin EachUri(O) /\
           ErrorsOf(Bad) \notin EachUri(O)
  BY <1>2, SumsDiffer
<1>5. \A u \in Uris : Of(u, Outcomes) \in EachUri(Outcomes) /\ Of(u, Outcomes) \notin EachUri({"server"})
                      /\ Of(u, {"server"}) \notin EachUri(Outcomes)
  BY <1>2, SumsDiffer
<1>. QED
  BY <1>3, <1>4, <1>5 DEF Rounds

LEMMA AskAllShape ==
  ASSUME NEW r \in Rounds, NEW d \in {0, Throws}
  PROVE  /\ AskAll(r, d) \in Queries /\ AskAll(r, d).pods = GPods /\ AskAll(r, d).sels = r /\ AskAll(r, d).drop = d
<1>1. AskAll(r, d) = [pods |-> GPods, sels |-> r, drop |-> d]
  BY DEF AskAll, Query
<1>2. r \subseteq Sums
  BY RoundsAreSums
<1>. QED
  BY <1>1, <1>2 DEF Queries

LEMMA OneAhead ==
  ASSUME NEW S, NEW e \in S, NEW s \in Seq(S), NEW x, x = <<e>> \o s
  PROVE  x \in Seq(S) /\ Len(x) = Len(s) + 1 /\ x[1] = e /\ \A i \in 1 .. Len(s) : x[i + 1] = s[i]
<1>. DEFINE z == <<e>>
<1>1. z \in Seq(S) /\ Len(z) = 1 /\ z[1] = e
  OBVIOUS
<1>. HIDE DEF z
<1>2. /\ z \o s \in Seq(S) /\ Len(z \o s) = Len(z) + Len(s)
      /\ \A i \in 1 .. Len(z) + Len(s) : (z \o s)[i] = IF i <= Len(z) THEN z[i] ELSE s[i - Len(z)]
  BY <1>1, ConcatProperties
<1>3. Len(s) \in Nat
  OBVIOUS
<1>4. z \o s \in Seq(S) /\ Len(z \o s) = Len(s) + 1 /\ (z \o s)[1] = e
  BY <1>1, <1>2, <1>3
<1>5. \A i \in 1 .. Len(s) : (z \o s)[i + 1] = s[i]
  <2>1. TAKE i \in 1 .. Len(s)
  <2>2. i + 1 \in 1 .. Len(z) + Len(s) /\ ~(i + 1 <= Len(z)) /\ (i + 1) - Len(z) = i
    BY <1>1, <1>3
  <2>3. (z \o s)[i + 1] = s[(i + 1) - Len(z)]
    BY <1>2, <2>2
  <2>. QED
    BY <2>2, <2>3
<1>. QED
  BY <1>4, <1>5 DEF z

LEMMA PrometheusRound ==
  LET round == <<AskAll({Hits}, Throws), AskAll({ServerErrors}, Throws), AskAll({ErrorsOf(Bad)}, Throws),
                 AskAll(EachUri(Outcomes), Throws), AskAll(EachUri({"server"}), Throws), AskAll({}, Throws)>>
  IN  AsksAll(round, "prometheus") /\ AsksAll(<<AskAll({}, Throws)>> \o round, "prometheus")
<1>. DEFINE a == AskAll({Hits}, Throws)
            b == AskAll({ServerErrors}, Throws)
            c == AskAll({ErrorsOf(Bad)}, Throws)
            d == AskAll(EachUri(Outcomes), Throws)
            e == AskAll(EachUri({"server"}), Throws)
            f == AskAll({}, Throws)
            pl == <<a, b, c, d, e, f>>
            pm == <<f>> \o pl
            HO == EachUri(Outcomes)
            HS == EachUri({"server"})
<1>1. \A q \in {a, b, c, d, e, f} : q \in Queries /\ q.pods = GPods /\ q.sels \in Rounds /\ q.drop = Throws
  BY AskAllShape, RoundsApart
<1>2. a.sels = {Hits} /\ b.sels = {ServerErrors} /\ c.sels = {ErrorsOf(Bad)} /\ d.sels = HO /\ e.sels = HS /\ f.sels = {}
  BY AskAllShape, RoundsApart
<1>3. /\ Hits # ServerErrors /\ Hits # ErrorsOf(Bad) /\ ServerErrors # ErrorsOf(Bad) /\ HO \cap HS = {}
      /\ Hits \notin HO /\ ServerErrors \notin HO /\ ErrorsOf(Bad) \notin HO
      /\ Hits \notin HS /\ ServerErrors \notin HS /\ ErrorsOf(Bad) \notin HS
      /\ \A u \in Uris : Of(u, Outcomes) \in HO
      /\ \A u \in Uris : Of(u, Outcomes) \notin HS /\ Of(u, Outcomes) \notin {Hits, ServerErrors, ErrorsOf(Bad)}
  BY RoundsApart, SumsDiffer
<1>. HIDE DEF a, b, c, d, e, f, HO, HS
<1>4. /\ pl \in Seq(Queries) /\ Len(pl) = 6 /\ DOMAIN pl = 1 .. 6
      /\ pl[1] = a /\ pl[2] = b /\ pl[3] = c /\ pl[4] = d /\ pl[5] = e /\ pl[6] = f
  BY <1>1
<1>. HIDE DEF pl
<1>5. /\ pm \in Seq(Queries) /\ Len(pm) = 7 /\ DOMAIN pm = 1 .. 7
      /\ pm[1] = f /\ pm[2] = a /\ pm[3] = b /\ pm[4] = c /\ pm[5] = d /\ pm[6] = e /\ pm[7] = f
  <2>1. f \in Queries
    BY <1>1
  <2>2. pm \in Seq(Queries) /\ Len(pm) = 7 /\ pm[1] = f /\ \A i \in 1 .. 6 : pm[i + 1] = pl[i]
    <3>1. /\ pm \in Seq(Queries) /\ Len(pm) = Len(pl) + 1 /\ pm[1] = f
          /\ \A i \in 1 .. Len(pl) : pm[i + 1] = pl[i]
      <4>1. pm = <<f>> \o pl
        OBVIOUS
      <4>2. pl \in Seq(Queries)
        BY <1>4
      <4>. HIDE DEF pm
      <4>. QED
        BY <2>1, <4>1, <4>2, OneAhead
    <3>. HIDE DEF pm
    <3>. QED
      BY <1>4, <3>1
  <2>. HIDE DEF pm
  <2>3. pm[1 + 1] = a /\ pm[2 + 1] = b /\ pm[3 + 1] = c /\ pm[4 + 1] = d /\ pm[5 + 1] = e /\ pm[6 + 1] = f
    BY <1>4, <2>2
  <2>. QED
    BY <2>2, <2>3
<1>. HIDE DEF pm
<1>6. ASSUME NEW q \in {pl, pm}
      PROVE  AsksAll(q, "prometheus")
  <2>1. q \in Seq(Queries) /\ \A i \in DOMAIN q : q[i] \in {a, b, c, d, e, f}
    BY <1>4, <1>5
  <2>2. \E n \in {0, 1} :
          /\ q[n + 1] = a /\ q[n + 2] = b /\ q[n + 3] = c /\ q[n + 4] = d /\ q[n + 5] = e /\ q[n + 6] = f
          /\ DOMAIN q = 1 .. n + 6 /\ Len(q) = n + 6 /\ \A i \in DOMAIN q : i <= n => q[i] = f
    <3>1. CASE q = pl
      BY <1>4, <3>1
    <3>2. CASE q = pm
      BY <1>5, <3>2
    <3>. QED
      BY <3>1, <3>2
  <2>3. PICK n \in {0, 1} :
          /\ q[n + 1] = a /\ q[n + 2] = b /\ q[n + 3] = c /\ q[n + 4] = d /\ q[n + 5] = e /\ q[n + 6] = f
          /\ DOMAIN q = 1 .. n + 6 /\ Len(q) = n + 6 /\ \A i \in DOMAIN q : i <= n => q[i] = f
    BY <2>2
  <2>4. \A i \in DOMAIN q : \/ (i <= n /\ q[i] = f)
                            \/ (i = n + 1 /\ q[i] = a)
                            \/ (i = n + 2 /\ q[i] = b)
                            \/ (i = n + 3 /\ q[i] = c)
                            \/ (i = n + 4 /\ q[i] = d)
                            \/ (i = n + 5 /\ q[i] = e)
                            \/ (i = n + 6 /\ q[i] = f)
    BY <2>3
  <2>5. n + 1 \in DOMAIN q /\ n + 2 \in DOMAIN q /\ n + 3 \in DOMAIN q /\ n + 4 \in DOMAIN q
    BY <2>3
  <2>6. \A i \in DOMAIN q : q[i].pods = GPods /\ q[i].sels \in Rounds /\ q[i].drop = Throws /\ i + q[i].drop <= Len(q)
    <3>1. \A i \in DOMAIN q : i \in Nat /\ i <= Len(q)
      BY <2>1
    <3>2. \A i \in DOMAIN q : q[i].pods = GPods /\ q[i].sels \in Rounds /\ q[i].drop = Throws
      BY <1>1, <2>1
    <3>. QED
      BY <2>1, <3>1, <3>2 DEF Throws
  <2>7. \A i, j \in DOMAIN q : i < j => q[i].sels \cap q[j].sels = {}
    BY <1>2, <1>3, <2>4
  <2>8. \A i, j \in DOMAIN q : i < j /\ Hits \in q[j].sels => ServerErrors \notin q[i].sels /\ ErrorsOf(Bad) \notin q[i].sels
    BY <1>2, <1>3, <2>4
  <2>9. \A i, j \in DOMAIN q : i < j => \A u \in Uris : ~(Of(u, {"server"}) \in q[i].sels /\ Of(u, Outcomes) \in q[j].sels)
    <3>1. SUFFICES ASSUME NEW i \in DOMAIN q, NEW j \in DOMAIN q, i < j, NEW u \in Uris, Of(u, Outcomes) \in q[j].sels
                   PROVE  Of(u, {"server"}) \notin q[i].sels
      OBVIOUS
    <3>2. j = n + 4
      BY <1>2, <1>3, <2>4, <3>1
    <3>3. q[i] \in {f, a, b, c}
      BY <2>4, <3>1, <3>2
    <3>. QED
      BY <1>2, <3>3, SumsDiffer
  <2>10. /\ \E i \in DOMAIN q : Hits \in q[i].sels
         /\ \E i \in DOMAIN q : ServerErrors \in q[i].sels
         /\ \E i \in DOMAIN q : ErrorsOf(Bad) \in q[i].sels
         /\ \A u \in Uris : \E i \in DOMAIN q : Of(u, Outcomes) \in q[i].sels
    BY <1>2, <1>3, <2>3, <2>5
  <2>11. /\ \A i \in DOMAIN q : q[i].pods = GPods /\ q[i].sels \in Rounds /\ i + q[i].drop <= Len(q)
         /\ \A i \in DOMAIN q : Hits \in q[i].sels => q[i].drop = Throws
         /\ \A i \in DOMAIN q : q[i].drop \in {0, Throws}
         /\ \A i \in DOMAIN q : q[i].drop = Throws
    BY <2>6
  <2>12. q \in Seq(Queries)
    BY <2>1
  <2>. QED
    BY <2>7, <2>8, <2>9, <2>10, <2>11, <2>12, AskedOfAll
<1>. QED
  BY <1>6 DEF pl, pm, a, b, c, d, e, f

LEMMA DatadogAsksAll == AsksAll(DatadogPlan, "datadog")
<1>. DEFINE a == AskAll({Hits}, Throws)
            b == AskAll({ErrorsOf(Bad)}, Throws)
            c == AskAll({ServerErrors}, 0)
            d == AskAll(EachUri(Outcomes), 0)
            e == AskAll(EachUri(Bad), 0)
            f == AskAll({}, 0)
            pl == <<a, b, c, d, e, f>>
            HO == EachUri(Outcomes)
            HB == EachUri(Bad)
<1>0. DatadogPlan = pl
  BY DEF DatadogPlan, ServerErrors
<1>1. \A q \in {a, b, c, d, e, f} : q \in Queries /\ q.pods = GPods /\ q.sels \in Rounds
  BY AskAllShape, RoundsApart
<1>2. /\ a.sels = {Hits} /\ c.sels = {ServerErrors} /\ b.sels = {ErrorsOf(Bad)} /\ d.sels = HO /\ e.sels = HB /\ f.sels = {}
      /\ a.drop = Throws /\ b.drop = Throws /\ c.drop = 0 /\ d.drop = 0 /\ e.drop = 0 /\ f.drop = 0
  BY AskAllShape, RoundsApart
<1>3. /\ Hits # ServerErrors /\ Hits # ErrorsOf(Bad) /\ ServerErrors # ErrorsOf(Bad) /\ HO \cap HB = {}
      /\ Hits \notin HO /\ ServerErrors \notin HO /\ ErrorsOf(Bad) \notin HO
      /\ Hits \notin HB /\ ServerErrors \notin HB /\ ErrorsOf(Bad) \notin HB
      /\ \A u \in Uris : Of(u, Outcomes) \in HO
  BY RoundsApart, SumsDiffer
<1>. HIDE DEF a, b, c, d, e, f, HO, HB
<1>4. /\ pl \in Seq(Queries) /\ Len(pl) = 6 /\ DOMAIN pl = 1 .. 6
      /\ pl[1] = a /\ pl[2] = b /\ pl[3] = c /\ pl[4] = d /\ pl[5] = e /\ pl[6] = f
  BY <1>1
<1>. HIDE DEF pl
<1>5. \A i \in DOMAIN pl : \/ (i = 1 /\ pl[i] = a)
                           \/ (i = 2 /\ pl[i] = b)
                           \/ (i = 3 /\ pl[i] = c)
                           \/ (i = 4 /\ pl[i] = d)
                           \/ (i = 5 /\ pl[i] = e)
                           \/ (i = 6 /\ pl[i] = f)
  BY <1>4
<1>6. \A i \in DOMAIN pl : pl[i].pods = GPods /\ pl[i].sels \in Rounds /\ i + pl[i].drop <= Len(pl)
  BY <1>1, <1>2, <1>4, <1>5 DEF Throws
<1>7. \A i, j \in DOMAIN pl : i < j => pl[i].sels \cap pl[j].sels = {}
  BY <1>2, <1>3, <1>5
<1>8. \A i, j \in DOMAIN pl : i < j /\ Hits \in pl[j].sels => ServerErrors \notin pl[i].sels /\ ErrorsOf(Bad) \notin pl[i].sels
  BY <1>2, <1>3, <1>5
<1>9. /\ \A i \in DOMAIN pl : Hits \in pl[i].sels => pl[i].drop = Throws
      /\ \A i \in DOMAIN pl : pl[i].drop \in {0, Throws}
  BY <1>2, <1>3, <1>5
<1>10. /\ \E i \in DOMAIN pl : Hits \in pl[i].sels
       /\ \E i \in DOMAIN pl : ServerErrors \in pl[i].sels
       /\ \E i \in DOMAIN pl : ErrorsOf(Bad) \in pl[i].sels
       /\ \A u \in Uris : \E i \in DOMAIN pl : Of(u, Outcomes) \in pl[i].sels
  <2>1. 1 \in DOMAIN pl /\ 2 \in DOMAIN pl /\ 3 \in DOMAIN pl /\ 4 \in DOMAIN pl
    BY <1>4
  <2>. QED
    BY <1>2, <1>3, <1>4, <2>1
<1>. QED
  BY <1>0, <1>4, <1>6, <1>7, <1>8, <1>9, <1>10, AskedOfAll

LEMMA SplunkAsksAll == AsksAll(SplunkPlan, "splunk")
<1>. DEFINE H == {Hits, ServerErrors, ErrorsOf(Bad)}
            E == EachUri(Outcomes) \cup EachUri({"server"})
            a == AskAll(H, Throws)
            b == AskAll(E, Throws)
            pl == <<a, b>>
<1>0. SplunkPlan = pl
  BY DEF SplunkPlan, ServerErrors
<1>1. /\ a \in Queries /\ a.pods = GPods /\ a.sels = H /\ H \in Rounds /\ a.drop = Throws
      /\ b \in Queries /\ b.pods = GPods /\ b.sels = E /\ E \in Rounds /\ b.drop = Throws
  BY AskAllShape, RoundsApart
<1>2. H \cap E = {} /\ Hits \in H /\ ServerErrors \in H /\ ErrorsOf(Bad) \in H /\ Hits \notin E
  BY RoundsApart
<1>3. \A u \in Uris : Of(u, Outcomes) \in E /\ Of(u, {"server"}) \notin H /\ Of(u, Outcomes) \notin H
  BY RoundsApart, SumsDiffer
<1>. HIDE DEF H, E, a, b
<1>4. pl \in Seq(Queries) /\ Len(pl) = 2 /\ DOMAIN pl = 1 .. 2 /\ pl[1] = a /\ pl[2] = b
  BY <1>1
<1>. HIDE DEF pl
<1>5. \A i \in DOMAIN pl : (i = 1 /\ pl[i] = a) \/ (i = 2 /\ pl[i] = b)
  BY <1>4
<1>6. \A i \in DOMAIN pl : pl[i].pods = GPods /\ pl[i].sels \in Rounds /\ pl[i].drop = Throws /\ i + pl[i].drop <= Len(pl)
  BY <1>1, <1>4, <1>5 DEF Throws
<1>7. \A i, j \in DOMAIN pl : i < j => i = 1 /\ j = 2
  BY <1>4
<1>8. /\ \A i, j \in DOMAIN pl : i < j => pl[i].sels \cap pl[j].sels = {}
      /\ \A i, j \in DOMAIN pl : i < j /\ Hits \in pl[j].sels => ServerErrors \notin pl[i].sels /\
           ErrorsOf(Bad) \notin pl[i].sels
      /\ \A i, j \in DOMAIN pl : i < j =>
           \A u \in Uris : ~(Of(u, {"server"}) \in pl[i].sels /\ Of(u, Outcomes) \in pl[j].sels)
  BY <1>1, <1>2, <1>3, <1>4, <1>7
<1>9. /\ \E i \in DOMAIN pl : Hits \in pl[i].sels
      /\ \E i \in DOMAIN pl : ServerErrors \in pl[i].sels
      /\ \E i \in DOMAIN pl : ErrorsOf(Bad) \in pl[i].sels
      /\ \A u \in Uris : \E i \in DOMAIN pl : Of(u, Outcomes) \in pl[i].sels
  <2>1. 1 \in DOMAIN pl /\ 2 \in DOMAIN pl
    BY <1>4
  <2>. QED
    BY <1>1, <1>2, <1>3, <1>4, <2>1
<1>. QED
  <2>1. /\ \A i \in DOMAIN pl : pl[i].pods = GPods /\ pl[i].sels \in Rounds /\ i + pl[i].drop <= Len(pl)
        /\ \A i \in DOMAIN pl : Hits \in pl[i].sels => pl[i].drop = Throws
        /\ \A i \in DOMAIN pl : pl[i].drop \in {0, Throws}
        /\ \A i \in DOMAIN pl : pl[i].drop = Throws
    BY <1>6
  <2>2. AsksAll(pl, "splunk")
    BY <1>4, <1>8, <1>9, <2>1, AskedOfAll
  <2>. QED
    BY <1>0, <2>2

\* One pod is asked for the totals, for its uptime, for the errors of the two kinds, and
\* for the requests and the errors of each uri.
LEMMA NativeQueries ==
  ASSUME NEW p \in GPods
  PROVE  /\ NativePlan(p) \in Seq(Queries) /\ Len(UriList) \in Nat /\ Len(NativePlan(p)) = 4 + 2 * Len(UriList)
         /\ NativePlan(p)[1] = Query({p}, {Hits}, 2 * Len(UriList) + 3) /\ NativePlan(p)[2] = Query({p}, {}, 0)
         /\ NativePlan(p)[3] = Query({p}, {ServerErrors}, 1) /\ NativePlan(p)[4] = Query({p}, {ClientErrors}, 0)
         /\ \A c \in 1 .. Len(UriList) : /\ NativePlan(p)[3 + 2 * c] = Query({p}, {Of(UriList[c], Outcomes)}, 1)
                                         /\ NativePlan(p)[4 + 2 * c] = Query({p}, {Of(UriList[c], {"server"})}, 0)
                                         /\ UriList[c] \in Uris
<1>. DEFINE n == Len(UriList)
            q1 == Query({p}, {Hits}, 2 * n + 3)
            q2 == Query({p}, {}, 0)
            q3 == Query({p}, {ServerErrors}, 1)
            q4 == Query({p}, {ClientErrors}, 0)
            first == <<q1, q2, q3, q4>>
            r(c) == Query({p}, {Of(UriList[c], Outcomes)}, 1)
            s(c) == Query({p}, {Of(UriList[c], {"server"})}, 0)
            pair == [c \in 1 .. n |-> <<r(c), s(c)>>]
            rest == FlattenSeq(pair)
            x == first \o rest
<1>1. n \in Nat /\ UriList \in Seq(Uris) /\ DOMAIN UriList = 1 .. n
  BY GoldenAssumption DEF Uris
<1>2. \A c \in 1 .. n : UriList[c] \in Uris
  BY <1>1
<1>3. NativePlan(p) = x
  BY DEF NativePlan, ServerErrors, ClientErrors
<1>4. ASSUME NEW T \in SUBSET Sums, NEW d \in Nat
      PROVE  Query({p}, T, d) \in Queries
  BY DEF Query, Queries
<1>5. /\ q1 \in Queries /\ q2 \in Queries /\ q3 \in Queries /\ q4 \in Queries
      /\ \A c \in 1 .. n : r(c) \in Queries /\ s(c) \in Queries
  <2>1. {Hits} \in SUBSET Sums /\ {} \in SUBSET Sums /\ {ServerErrors} \in SUBSET Sums /\
             {ClientErrors} \in SUBSET Sums /\ 2 * n + 3 \in Nat
    BY <1>1, SumsDiffer
  <2>2. \A c \in 1 .. n : {Of(UriList[c], Outcomes)} \in SUBSET Sums /\ {Of(UriList[c], {"server"})} \in SUBSET Sums
    BY <1>2, SumsDiffer
  <2>. HIDE DEF n
  <2>. QED
    BY <1>4, <2>1, <2>2
<1>. HIDE DEF n, q1, q2, q3, q4, r, s
<1>6. first \in Seq(Queries) /\ Len(first) = 4 /\ first[1] = q1 /\ first[2] = q2 /\ first[3] = q3 /\ first[4] = q4
  BY <1>5
<1>7. pair \in [1 .. n -> Seq(Queries)] /\ \A c \in 1 .. n : Len(pair[c]) = 2 /\ pair[c][1] = r(c) /\ pair[c][2] = s(c)
  BY <1>5
<1>. HIDE DEF first, pair
<1>8. IsBlocks(rest, pair, n, 2, Queries)
  <2>1. 2 \in Nat \ {0} /\ \A c \in 1 .. n : Len(pair[c]) = 2
    BY <1>7
  <2>2. IsBlocks(FlattenSeq(pair), pair, n, 2, Queries)
    BY <1>1, <1>7, <2>1, Flattening
  <2>. QED
    BY <2>2
<1>. HIDE DEF rest
<1>9. rest \in Seq(Queries) /\ Len(rest) = 2 * n
  BY <1>1, <1>8 DEF IsBlocks
<1>10. ASSUME NEW c \in 1 .. n
       PROVE  /\ rest[2 * c - 1] = r(c) /\ rest[2 * c] = s(c)
              /\ 2 * c - 1 \in 1 .. Len(rest) /\ 2 * c \in 1 .. Len(rest)
  <2>1. rest[(c - 1) * 2 + 1] = pair[c][1] /\ rest[(c - 1) * 2 + 2] = pair[c][2]
    BY <1>8 DEF IsBlocks
  <2>2. (c - 1) * 2 + 1 = 2 * c - 1 /\ (c - 1) * 2 + 2 = 2 * c
    BY <1>1
  <2>. QED
    BY <1>1, <1>7, <1>9, <2>1, <2>2
<1>11. /\ x \in Seq(Queries) /\ Len(x) = Len(first) + Len(rest)
       /\ \A i \in 1 .. Len(first) + Len(rest) : x[i] = IF i <= Len(first) THEN first[i] ELSE rest[i - Len(first)]
  BY <1>6, <1>9, ConcatProperties
<1>. HIDE DEF x
<1>12. /\ Len(x) = 4 + 2 * n /\ x[1] = q1 /\ x[2] = q2 /\ x[3] = q3 /\ x[4] = q4
  BY <1>1, <1>6, <1>9, <1>11
<1>13. ASSUME NEW c \in 1 .. n
       PROVE  x[3 + 2 * c] = r(c) /\ x[4 + 2 * c] = s(c)
  <2>1. 3 + 2 * c \in 1 .. Len(first) + Len(rest) /\ 4 + 2 * c \in 1 .. Len(first) + Len(rest)
        /\ ~(3 + 2 * c <= Len(first)) /\ ~(4 + 2 * c <= Len(first))
        /\ (3 + 2 * c) - Len(first) = 2 * c - 1 /\ (4 + 2 * c) - Len(first) = 2 * c
    BY <1>1, <1>6, <1>9
  <2>2. x[3 + 2 * c] = rest[(3 + 2 * c) - Len(first)] /\ x[4 + 2 * c] = rest[(4 + 2 * c) - Len(first)]
    BY <1>11, <2>1
  <2>. QED
    BY <1>10, <2>1, <2>2
<1>. QED
  BY <1>1, <1>2, <1>3, <1>11, <1>12, <1>13 DEF n, q1, q2, q3, q4, r, s

\* What the queries of one pod keep to.
PodPlan(x, p, B) ==
  /\ x \in Seq(Queries) /\ Len(x) = B
  /\ \A b \in 1 .. B : x[b].pods = {p} /\ x[b].drop \in Nat /\ b + x[b].drop <= B /\ ErrorsOf(Bad) \notin x[b].sels
  /\ \A b, d \in 1 .. B : b # d => x[b].sels \cap x[d].sels = {}
  /\ \A t \in Parts("native") : \A e \in {t[1], t[2]} :
       /\ \A b, d \in 1 .. B : e \in x[b].sels /\ t[3] \in x[d].sels => d < b
       /\ \A b, k, j \in 1 .. B :
            b <= k /\ k <= b + x[b].drop /\ t[3] \in x[k].sels /\ e \in x[j].sels => j <= b + x[b].drop
       /\ \E d \in 1 .. B : t[3] \in x[d].sels
  /\ \A s \in Told("native") : \E b \in 1 .. B : s \in x[b].sels

LEMMA NativePodPlan ==
  ASSUME NEW p \in GPods
  PROVE  PodPlan(NativePlan(p), p, 4 + 2 * Len(UriList))
<1>. DEFINE x == NativePlan(p)
            n == Len(UriList)
            B == 4 + 2 * n
            U(c) == UriList[c]
<1>1. /\ x \in Seq(Queries) /\ n \in Nat /\ Len(x) = B
      /\ x[1] = Query({p}, {Hits}, 2 * n + 3) /\ x[2] = Query({p}, {}, 0)
      /\ x[3] = Query({p}, {ServerErrors}, 1) /\ x[4] = Query({p}, {ClientErrors}, 0)
  BY NativeQueries
<1>12. ASSUME NEW c \in 1 .. n
       PROVE  /\ x[3 + 2 * c] = Query({p}, {Of(U(c), Outcomes)}, 1)
              /\ x[4 + 2 * c] = Query({p}, {Of(U(c), {"server"})}, 0)
              /\ U(c) \in Uris
  BY NativeQueries
<1>2. /\ \A c, d \in 1 .. n : U(c) = U(d) => c = d
      /\ \A u \in Uris : \E c \in 1 .. n : u = U(c)
  <2>1. UriList \in Seq(Range(UriList))
    BY GoldenAssumption
  <2>3. DOMAIN UriList = 1 .. n /\ Uris = {UriList[i] : i \in DOMAIN UriList}
    BY <2>1 DEF Uris, Range
  <2>2. \A c, d \in DOMAIN UriList : UriList[c] = UriList[d] => c = d
    BY GoldenAssumption
  <2>. QED
    BY <2>2, <2>3
<1>. HIDE DEF x, U, n
<1>0. n \in Nat /\ B \in Nat /\ \A c \in 1 .. n : U(c) \in Uris
  <2>1. n \in Nat
    BY <1>1
  <2>2. 4 + 2 * n \in Nat
    BY <2>1
  <2>3. \A c \in 1 .. n : U(c) \in Uris
    BY <1>12
  <2>. QED
    BY <2>1, <2>2, <2>3
<1>4. \A b \in 1 .. B : \/ b \in {1, 2, 3, 4}
                        \/ \E c \in 1 .. n : b = 3 + 2 * c
                        \/ \E c \in 1 .. n : b = 4 + 2 * c
  <2>1. SUFFICES ASSUME NEW b \in 1 .. B, b \notin {1, 2, 3, 4}, \A c \in 1 .. n : b # 3 + 2 * c
                 PROVE  \E c \in 1 .. n : b = 4 + 2 * c
    OBVIOUS
  <2>2. PICK a \in 1 .. 2 + n, d \in 1 .. 2 : b = (a - 1) * 2 + d
    <3>1. b \in 1 .. (2 + n) * 2 /\ 2 + n \in Nat /\ 2 \in Nat \ {0}
      BY <1>0
    <3>. QED
      BY <3>1, BlockOf
  <2>3. a - 2 \in 1 .. n /\ (d = 1 => b = 3 + 2 * (a - 2)) /\ (d = 2 => b = 4 + 2 * (a - 2))
    <3>1. b # 1 /\ b # 2 /\ b # 3 /\ b # 4 /\ b \in Nat /\ b >= 1 /\ b <= 4 + 2 * n
      BY <1>0, <2>1
    <3>2. d = 1 \/ d = 2
      BY <2>2
    <3>. QED
      BY <1>0, <2>2, <3>1, <3>2
  <2>. QED
    BY <2>1, <2>2, <2>3
<1>11. /\ x[1].sels = {Hits} /\ x[2].sels = {} /\ x[3].sels = {ServerErrors} /\ x[4].sels = {ClientErrors}
       /\ x[1].drop = 2 * n + 3 /\ x[2].drop = 0 /\ x[3].drop = 1 /\ x[4].drop = 0
  BY <1>1 DEF Query
<1>5. \A c \in 1 .. n : /\ x[3 + 2 * c].sels = {Of(U(c), Outcomes)} /\ x[3 + 2 * c].drop = 1
                        /\ x[4 + 2 * c].sels = {Of(U(c), {"server"})} /\ x[4 + 2 * c].drop = 0
  <2>1. TAKE c \in 1 .. n
  <2>2. x[3 + 2 * c] = Query({p}, {Of(U(c), Outcomes)}, 1) /\ x[4 + 2 * c] = Query({p}, {Of(U(c), {"server"})}, 0)
    BY <1>12
  <2>. QED
    BY <2>2 DEF Query
\* Where a sum is asked for.
<1>6. ASSUME NEW b \in 1 .. B
      PROVE  /\ Hits \in x[b].sels => b = 1
             /\ ServerErrors \in x[b].sels => b = 3
             /\ ClientErrors \in x[b].sels => b = 4
             /\ \A c \in 1 .. n : Of(U(c), Outcomes) \in x[b].sels => b = 3 + 2 * c
             /\ \A c \in 1 .. n : Of(U(c), {"server"}) \in x[b].sels => b = 4 + 2 * c
             /\ \A s \in x[b].sels : \/ s \in {Hits, ServerErrors, ClientErrors}
                                     \/ \E c \in 1 .. n : s = Of(U(c), Outcomes)
                                     \/ \E c \in 1 .. n : s = Of(U(c), {"server"})
  <2>1. CASE b \in {1, 2, 3, 4}
    <3>1. /\ Hits # ServerErrors /\ Hits # ClientErrors /\ ServerErrors # ClientErrors
          /\ \A c \in 1 .. n : /\ Of(U(c), Outcomes) \notin {Hits, ServerErrors, ClientErrors}
                               /\ Of(U(c), {"server"}) \notin {Hits, ServerErrors, ClientErrors}
      BY <1>0, SumsDiffer
    <3>2. x[b].sels = IF b = 1 THEN {Hits} ELSE IF b = 2 THEN {} ELSE IF b = 3 THEN {ServerErrors} ELSE {ClientErrors}
      BY <1>11, <2>1
    <3>. QED
      BY <2>1, <3>1, <3>2
  <2>2. ASSUME NEW c \in 1 .. n, b = 3 + 2 * c
        PROVE  /\ Hits \notin x[b].sels /\ ServerErrors \notin x[b].sels /\ ClientErrors \notin x[b].sels
               /\ \A d \in 1 .. n : Of(U(d), Outcomes) \in x[b].sels => d = c
               /\ \A d \in 1 .. n : Of(U(d), {"server"}) \notin x[b].sels
               /\ \A s \in x[b].sels : s = Of(U(c), Outcomes)
    <3>1. x[b].sels = {Of(U(c), Outcomes)}
      BY <1>5, <2>2
    <3>2. U(c) \in Uris /\ \A d \in 1 .. n : U(d) \in Uris
      BY <1>0
    <3>. QED
      BY <1>2, <3>1, <3>2, SumsDiffer
  <2>3. ASSUME NEW c \in 1 .. n, b = 4 + 2 * c
        PROVE  /\ Hits \notin x[b].sels /\ ServerErrors \notin x[b].sels /\ ClientErrors \notin x[b].sels
               /\ \A d \in 1 .. n : Of(U(d), {"server"}) \in x[b].sels => d = c
               /\ \A d \in 1 .. n : Of(U(d), Outcomes) \notin x[b].sels
               /\ \A s \in x[b].sels : s = Of(U(c), {"server"})
    <3>1. x[b].sels = {Of(U(c), {"server"})}
      BY <1>5, <2>3
    <3>2. U(c) \in Uris /\ \A d \in 1 .. n : U(d) \in Uris
      BY <1>0
    <3>. QED
      BY <1>2, <3>1, <3>2, SumsDiffer
  <2>. QED
    BY <1>4, <2>1, <2>2, <2>3
<1>7. \A b, d \in 1 .. B : b # d => x[b].sels \cap x[d].sels = {}
  <2>1. SUFFICES ASSUME NEW b \in 1 .. B, NEW d \in 1 .. B, NEW s \in x[b].sels, s \in x[d].sels
                 PROVE  b = d
    OBVIOUS
  <2>2. \/ s \in {Hits, ServerErrors, ClientErrors}
        \/ \E c \in 1 .. n : s = Of(U(c), Outcomes)
        \/ \E c \in 1 .. n : s = Of(U(c), {"server"})
    BY <1>6
  <2>. QED
    BY <1>6, <2>1, <2>2
<1>8. ASSUME NEW b \in 1 .. B
      PROVE  x[b].pods = {p} /\ x[b].drop \in Nat /\ b + x[b].drop <= B /\ ErrorsOf(Bad) \notin x[b].sels
  <2>1. ErrorsOf(Bad) \notin {Hits, ServerErrors, ClientErrors} /\
             \A u \in Uris : ErrorsOf(Bad) \notin {Of(u, Outcomes), Of(u, {"server"})}
    BY SumsDiffer
  <2>2. CASE b \in {1, 2, 3, 4}
    <3>1. x[b] \in {x[1], x[2], x[3], x[4]}
      BY <2>2
    <3>2. x[b].pods = {p} /\ ErrorsOf(Bad) \notin x[b].sels
      <4>1. x[1].pods = {p} /\ x[2].pods = {p} /\ x[3].pods = {p} /\ x[4].pods = {p}
        BY <1>1 DEF Query
      <4>. QED
        BY <1>11, <2>1, <3>1, <4>1
    <3>3. b + x[b].drop <= B /\ x[b].drop \in Nat
      <4>1. b = 1 \/ b = 2 \/ b = 3 \/ b = 4
        BY <2>2
      <4>. QED
        BY <1>0, <1>11, <4>1
    <3>. QED
      BY <3>2, <3>3
  <2>3. ASSUME NEW c \in 1 .. n, b \in {3 + 2 * c, 4 + 2 * c}
        PROVE  x[b].pods = {p} /\ x[b].drop \in Nat /\ b + x[b].drop <= B /\ ErrorsOf(Bad) \notin x[b].sels
    <3>1. x[b].pods = {p} /\ ErrorsOf(Bad) \notin x[b].sels
      <4>1. /\ x[3 + 2 * c].pods = {p} /\ x[3 + 2 * c].sels = {Of(U(c), Outcomes)}
            /\ x[4 + 2 * c].pods = {p} /\ x[4 + 2 * c].sels = {Of(U(c), {"server"})} /\ U(c) \in Uris
        <5>1. /\ x[3 + 2 * c] = Query({p}, {Of(U(c), Outcomes)}, 1)
              /\ x[4 + 2 * c] = Query({p}, {Of(U(c), {"server"})}, 0) /\ U(c) \in Uris
          BY <1>12
        <5>. QED
          BY <5>1 DEF Query
      <4>. QED
        BY <2>1, <2>3, <4>1
    <3>2. (b = 3 + 2 * c /\ x[b].drop = 1) \/ (b = 4 + 2 * c /\ x[b].drop = 0)
      BY <1>5, <2>3
    <3>. QED
      BY <1>0, <3>1, <3>2
  <2>. QED
    BY <1>4, <2>2, <2>3
<1>9. ASSUME NEW t \in Parts("native"), NEW e \in {t[1], t[2]}
      PROVE  /\ \A b, d \in 1 .. B : e \in x[b].sels /\ t[3] \in x[d].sels => d < b
             /\ \A b, k, j \in 1 .. B :
                  b <= k /\ k <= b + x[b].drop /\ t[3] \in x[k].sels /\ e \in x[j].sels => j <= b + x[b].drop
             /\ \E d \in 1 .. B : t[3] \in x[d].sels
  <2>1. CASE t[3] = Hits /\ e \in {ClientErrors, ServerErrors, ErrorsOf(Bad), NoSum}
    <3>1. \A b \in 1 .. B : NoSum \notin x[b].sels
      <4>1. NoSum \notin {Hits, ServerErrors, ClientErrors} /\
                 \A c \in 1 .. n : NoSum \notin {Of(U(c), Outcomes), Of(U(c), {"server"})}
        BY <1>0, SumsDiffer
      <4>. QED
        BY <1>6, <4>1
    <3>2. \A b \in 1 .. B : e \in x[b].sels => b \in {3, 4}
      BY <1>6, <1>8, <2>1, <3>1
    <3>3. \A d \in 1 .. B : t[3] \in x[d].sels => d = 1
      BY <1>6, <2>1
    <3>4. 1 \in 1 .. B /\ t[3] \in x[1].sels
      BY <1>0, <1>11, <2>1
    <3>5. \A b \in 1 .. B : b <= 1 => b = 1 /\ b + x[b].drop = B
      BY <1>0, <1>11
    <3>6. \A b, d \in 1 .. B : e \in x[b].sels /\ t[3] \in x[d].sels => d < b
      BY <3>2, <3>3
    <3>7. ASSUME NEW b \in 1 .. B, NEW k \in 1 .. B, NEW j \in 1 .. B, b <= k, t[3] \in x[k].sels
          PROVE  j <= b + x[b].drop
      <4>1. b <= 1
        BY <3>3, <3>7
      <4>2. b + x[b].drop = B
        BY <3>5, <4>1
      <4>. QED
        BY <1>0, <4>2
    <3>. QED
      BY <3>4, <3>6, <3>7
  <2>2. ASSUME NEW u \in Uris, t[3] = Of(u, Outcomes), e \in {Of(u, {"server"}), NoSum}
        PROVE  /\ \A b, d \in 1 .. B : e \in x[b].sels /\ t[3] \in x[d].sels => d < b
               /\ \A b, k, j \in 1 .. B :
                    b <= k /\ k <= b + x[b].drop /\ t[3] \in x[k].sels /\ e \in x[j].sels => j <= b + x[b].drop
               /\ \E d \in 1 .. B : t[3] \in x[d].sels
    <3>1. PICK c \in 1 .. n : u = U(c)
      BY <1>2
    <3>2. \A b \in 1 .. B : NoSum \notin x[b].sels
      <4>1. NoSum \notin {Hits, ServerErrors, ClientErrors} /\
                 \A d \in 1 .. n : NoSum \notin {Of(U(d), Outcomes), Of(U(d), {"server"})}
        BY <1>0, SumsDiffer
      <4>. QED
        BY <1>6, <4>1
    <3>3. \A b \in 1 .. B : e \in x[b].sels => b = 4 + 2 * c
      BY <1>6, <2>2, <3>1, <3>2
    <3>4. \A d \in 1 .. B : t[3] \in x[d].sels => d = 3 + 2 * c
      BY <1>6, <2>2, <3>1
    <3>5. 3 + 2 * c \in 1 .. B /\ t[3] \in x[3 + 2 * c].sels
      BY <1>1, <1>5, <2>2, <3>1
    <3>6. ASSUME NEW b \in 1 .. B, b <= 3 + 2 * c, 3 + 2 * c <= b + x[b].drop
          PROVE  4 + 2 * c <= b + x[b].drop
      <4>1. CASE b \in {1, 2, 3, 4}
        <5>1. b = 1 \/ b = 2 \/ b = 3 \/ b = 4
          BY <4>1
        <5>2. c \in Nat /\ c >= 1 /\ c <= n
          BY <1>0
        <5>. QED
          BY <1>0, <1>11, <3>6, <5>1, <5>2
      <4>2. ASSUME NEW d \in 1 .. n, b = 3 + 2 * d
            PROVE  4 + 2 * c <= b + x[b].drop
        <5>1. x[b].drop = 1
          BY <1>5, <4>2
        <5>. QED
          BY <1>0, <3>6, <4>2, <5>1
      <4>3. ASSUME NEW d \in 1 .. n, b = 4 + 2 * d
            PROVE  4 + 2 * c <= b + x[b].drop
        <5>1. x[b].drop = 0
          BY <1>5, <4>3
        <5>. QED
          BY <1>0, <3>6, <4>3, <5>1
      <4>. QED
        BY <1>4, <4>1, <4>2, <4>3
    <3>7. \A b, d \in 1 .. B : e \in x[b].sels /\ t[3] \in x[d].sels => d < b
      BY <1>0, <3>3, <3>4
    <3>8. ASSUME NEW b \in 1 .. B, NEW k \in 1 .. B, NEW j \in 1 .. B,
                 b <= k, k <= b + x[b].drop, t[3] \in x[k].sels, e \in x[j].sels
          PROVE  j <= b + x[b].drop
      <4>1. k = 3 + 2 * c /\ j = 4 + 2 * c
        BY <3>3, <3>4, <3>8
      <4>. QED
        BY <3>6, <3>8, <4>1
    <3>. QED
      BY <3>5, <3>7, <3>8
  <2>. QED
    BY <2>1, <2>2 DEF Parts, ClientErrors, ServerErrors
<1>10. ASSUME NEW s \in Told("native")
       PROVE  \E b \in 1 .. B : s \in x[b].sels
  <2>1. 1 \in 1 .. B /\ 3 \in 1 .. B /\ 4 \in 1 .. B
    BY <1>0
  <2>2. CASE s \in {Hits, ServerErrors, ClientErrors}
    BY <1>11, <2>1, <2>2
  <2>3. ASSUME NEW u \in Uris, s = Of(u, Outcomes)
        PROVE  \E b \in 1 .. B : s \in x[b].sels
    <3>1. PICK c \in 1 .. n : u = U(c)
      BY <1>2
    <3>2. 3 + 2 * c \in 1 .. B
      BY <1>0
    <3>. QED
      BY <1>5, <2>3, <3>1, <3>2
  <2>. QED
    BY <2>2, <2>3 DEF Told, ClientErrors, ServerErrors
<1>. QED
  <2>1. PodPlan(x, p, B)
    BY <1>1, <1>7, <1>8, <1>9, <1>10 DEF PodPlan
  <2>. QED
    BY <2>1 DEF x, n

\* Pod after pod, the queries of all of them ask for everything.
LEMMA NativeAsksAll ==
  AsksAll(FlattenSeq([i \in DOMAIN PodList |-> NativePlan(PodList[i])]), "native")
<1>. DEFINE m == Len(PodList)
            B == 4 + 2 * Len(UriList)
            seqs == [i \in 1 .. m |-> NativePlan(PodList[i])]
            x == FlattenSeq(seqs)
            who(a) == PodList[a]
            at(a, b) == (a - 1) * B + b
<1>1. m \in Nat /\ DOMAIN PodList = 1 .. m /\ B \in Nat \ {0}
  <2>1. PodList \in Seq(Range(PodList)) /\ UriList \in Seq(Range(UriList))
    BY GoldenAssumption
  <2>2. Len(PodList) \in Nat /\ DOMAIN PodList = 1 .. Len(PodList) /\ Len(UriList) \in Nat
    BY <2>1
  <2>. QED
    BY <2>2
<1>2. /\ \A a \in 1 .. m : who(a) \in GPods
      /\ \A a, c \in 1 .. m : who(a) = who(c) => a = c
      /\ \A p \in GPods : \E a \in 1 .. m : p = who(a)
  <2>1. GPods = {PodList[i] : i \in 1 .. m}
    BY <1>1 DEF GPods, Range
  <2>2. \A a, c \in 1 .. m : PodList[a] = PodList[c] => a = c
    BY <1>1, GoldenAssumption
  <2>. QED
    BY <2>1, <2>2
<1>3. FlattenSeq([i \in DOMAIN PodList |-> NativePlan(PodList[i])]) = x
  BY <1>1
<1>4. ASSUME NEW a \in 1 .. m
      PROVE  PodPlan(seqs[a], who(a), B)
  <2>1. seqs[a] = NativePlan(who(a)) /\ who(a) \in GPods
    BY <1>2
  <2>. QED
    BY <2>1, NativePodPlan
<1>. HIDE DEF m, B, who
<1>5. seqs \in [1 .. m -> Seq(Queries)] /\ \A a \in 1 .. m : Len(seqs[a]) = B
  <2>1. \A a \in 1 .. m : seqs[a] \in Seq(Queries) /\ Len(seqs[a]) = B
    BY <1>4 DEF PodPlan
  <2>. QED
    BY <2>1
<1>. HIDE DEF seqs
<1>6. IsBlocks(x, seqs, m, B, Queries)
  BY <1>1, <1>5, Flattening
<1>. HIDE DEF x
<1>7. /\ x \in Seq(Queries) /\ Len(x) = m * B /\ DOMAIN x = 1 .. m * B
      /\ \A a \in 1 .. m, b \in 1 .. B : x[at(a, b)] = seqs[a][b]
  <2>1. x \in Seq(Queries) /\ Len(x) = m * B
    BY <1>6 DEF IsBlocks
  <2>2. DOMAIN x = 1 .. Len(x)
    BY <2>1
  <2>. QED
    BY <1>6, <2>1, <2>2 DEF IsBlocks
\* Every place is one of a pod's.
<1>8. ASSUME NEW i \in DOMAIN x
      PROVE  \E a \in 1 .. m, b \in 1 .. B : i = at(a, b) /\ x[i] = seqs[a][b] /\ x[i].pods = {who(a)}
  <2>1. i \in 1 .. m * B
    BY <1>7
  <2>2. PICK a \in 1 .. m, b \in 1 .. B : i = at(a, b)
    BY <1>1, <2>1, BlockOf
  <2>3. x[at(a, b)] = seqs[a][b]
    BY <1>7
  <2>4. seqs[a][b].pods = {who(a)}
    BY <1>4 DEF PodPlan
  <2>. QED
    BY <2>2, <2>3, <2>4
<1>9. ASSUME NEW a \in 1 .. m, NEW b \in 1 .. B
      PROVE  at(a, b) \in DOMAIN x /\ at(a, b) \in Nat /\ a * B <= m * B /\ (a - 1) * B \in Nat /\ (a - 1) * B + B = a * B
             /\ m * B \in Nat
  <2>0. a \in Nat \ {0} /\ a <= m
    BY <1>1
  <2>1. (a - 1) * B \in Nat /\ (a - 1) * B + B = a * B
    BY <1>1, <2>0, BlockOrder
  <2>2. a * B <= m * B /\ m * B \in Nat
    BY <1>1, <2>0, Product
  <2>. QED
    BY <1>1, <1>7, <2>1, <2>2
<1>10. ASSUME NEW a \in 1 .. m, NEW c \in 1 .. m, NEW b \in 1 .. B, NEW d \in 1 .. B
       PROVE  /\ a < c => at(a, b) < at(c, d) /\ a * B < at(c, d)
              /\ a = c /\ at(a, b) < at(c, d) => b < d
              /\ at(a, b) < at(c, d) => a <= c
  <2>0. a \in Nat \ {0} /\ c \in Nat \ {0}
    BY <1>1
  <2>1. a < c => at(a, b) < at(c, d) /\ a * B < at(c, d)
    BY <1>1, <2>0, BlockOrder
  <2>2. c < a => at(c, d) < at(a, b)
    BY <1>1, <2>0, BlockOrder
  <2>3. (a - 1) * B \in Nat /\ at(a, b) \in Nat /\ at(c, d) \in Nat
    BY <1>9
  <2>4. a = c /\ at(a, b) < at(c, d) => b < d
    BY <1>1, <2>3
  <2>. QED
    BY <2>0, <2>1, <2>2, <2>3, <2>4
<1>. HIDE DEF at
<1>11. OnceEach(x)
  <2>1. SUFFICES ASSUME NEW i \in DOMAIN x, NEW j \in DOMAIN x, i < j
                 PROVE  Distinct(x[i], x[j]) \/ x[i].sels \cap x[j].sels = {}
    BY DEF OnceEach
  <2>2. PICK a \in 1 .. m, b \in 1 .. B : i = at(a, b) /\ x[i] = seqs[a][b] /\ x[i].pods = {who(a)}
    BY <1>8
  <2>3. PICK c \in 1 .. m, d \in 1 .. B : j = at(c, d) /\ x[j] = seqs[c][d] /\ x[j].pods = {who(c)}
    BY <1>8
  <2>4. CASE a # c
    BY <1>2, <2>2, <2>3, <2>4 DEF Distinct
  <2>5. CASE a = c
    <3>1. b # d
      <4>1. i # j
        BY <1>9, <2>1, <2>2
      <4>. QED
        BY <2>2, <2>3, <2>5, <4>1
    <3>2. PodPlan(seqs[a], who(a), B)
      BY <1>4
    <3>. QED
      BY <2>2, <2>3, <2>5, <3>1, <3>2 DEF PodPlan
  <2>. QED
    BY <2>4, <2>5
<1>12. NotAsked(x, "native")
  <2>1. SUFFICES ASSUME NEW i \in DOMAIN x
                 PROVE  ErrorsOf(Bad) \notin x[i].sels
    BY DEF NotAsked
  <2>2. PICK a \in 1 .. m, b \in 1 .. B : x[i] = seqs[a][b]
    BY <1>8
  <2>3. PodPlan(seqs[a], who(a), B)
    BY <1>4
  <2>. QED
    BY <2>2, <2>3 DEF PodPlan
<1>13. ASSUME NEW a \in 1 .. m, NEW b \in 1 .. B
       PROVE  at(a, b) + seqs[a][b].drop <= a * B /\ seqs[a][b].drop \in Nat
  <2>1. b + seqs[a][b].drop <= B /\ seqs[a][b].drop \in Nat
    BY <1>4 DEF PodPlan
  <2>2. (a - 1) * B \in Nat /\ (a - 1) * B + B = a * B
    BY <1>9
  <2>. QED
    BY <1>1, <2>1, <2>2 DEF at
<1>14. ASSUME NEW i \in DOMAIN x
       PROVE  i + x[i].drop <= Len(x)
  <2>1. PICK a \in 1 .. m, b \in 1 .. B : i = at(a, b) /\ x[i] = seqs[a][b]
    BY <1>8
  <2>2. i + x[i].drop <= a * B /\ a * B <= m * B /\ x[i].drop \in Nat /\ i \in Nat /\ m * B \in Nat
    BY <1>9, <1>13, <2>1
  <2>3. a * B \in Nat
    BY <1>1, Product
  <2>. QED
    BY <1>7, <2>2, <2>3
<1>15. ASSUME NEW t \in Parts("native"), NEW e \in {t[1], t[2]}
       PROVE  SumFirst(x, e, t[3]) /\ Together(x, e, t[3])
  <2>1. SumFirst(x, e, t[3])
    <3>1. SUFFICES ASSUME NEW i \in DOMAIN x, NEW j \in DOMAIN x, i < j, e \in x[i].sels, t[3] \in x[j].sels
                   PROVE  Distinct(x[i], x[j])
      BY DEF SumFirst
    <3>2. PICK a \in 1 .. m, b \in 1 .. B : i = at(a, b) /\ x[i] = seqs[a][b] /\ x[i].pods = {who(a)}
      BY <1>8
    <3>3. PICK c \in 1 .. m, d \in 1 .. B : j = at(c, d) /\ x[j] = seqs[c][d] /\ x[j].pods = {who(c)}
      BY <1>8
    <3>4. CASE a # c
      BY <1>2, <3>2, <3>3, <3>4 DEF Distinct
    <3>5. CASE a = c
      <4>1. b < d
        BY <1>10, <3>1, <3>2, <3>3, <3>5
      <4>2. PodPlan(seqs[a], who(a), B)
        BY <1>4
      <4>3. d < b
        BY <3>1, <3>2, <3>3, <3>5, <4>2 DEF PodPlan
      <4>. QED
        BY <1>1, <4>1, <4>3
    <3>. QED
      BY <3>4, <3>5
  <2>2. Together(x, e, t[3])
    <3>1. SUFFICES ASSUME NEW i \in DOMAIN x, NEW k \in DOMAIN x, NEW j \in DOMAIN x, i <= k, k <= i + x[i].drop,
                          i + x[i].drop < j, t[3] \in x[k].sels, e \in x[j].sels
                   PROVE  Distinct(x[k], x[j])
      BY DEF Together
    <3>2. PICK a \in 1 .. m, b \in 1 .. B : i = at(a, b) /\ x[i] = seqs[a][b] /\ x[i].pods = {who(a)}
      BY <1>8
    <3>3. PICK c \in 1 .. m, d \in 1 .. B : k = at(c, d) /\ x[k] = seqs[c][d] /\ x[k].pods = {who(c)}
      BY <1>8
    <3>4. PICK f \in 1 .. m, g \in 1 .. B : j = at(f, g) /\ x[j] = seqs[f][g] /\ x[j].pods = {who(f)}
      BY <1>8
    <3>5. CASE c # f
      BY <1>2, <3>3, <3>4, <3>5 DEF Distinct
    <3>6. CASE c = f
      <4>. DEFINE w == x[i].drop
      <4>1. w \in Nat /\ i + w <= a * B /\ i \in Nat /\ k \in Nat /\ j \in Nat /\ a * B \in Nat
        <5>1. i \in Nat /\ k \in Nat /\ j \in Nat
          BY <1>9, <3>2, <3>3, <3>4
        <5>2. w \in Nat /\ i + w <= a * B
          BY <1>13, <3>2
        <5>3. a * B \in Nat
          BY <1>1, Product
        <5>. QED
          BY <5>1, <5>2, <5>3
      <4>2. ~(a < c)
        <5>1. k <= a * B
          BY <3>1, <4>1
        <5>. QED
          BY <1>10, <3>3, <4>1, <5>1
      <4>3. ~(c < a)
        <5>1. c < a => k < i
          BY <1>10, <3>2, <3>3
        <5>. QED
          BY <3>1, <4>1, <5>1
      <4>4. a = c
        BY <1>1, <4>2, <4>3
      <4>5. i = (a - 1) * B + b /\ k = (a - 1) * B + d /\ j = (a - 1) * B + g /\ (a - 1) * B \in Nat
        BY <1>9, <3>2, <3>3, <3>4, <3>6, <4>4 DEF at
      <4>6. b <= d /\ d <= b + w /\ ~(g <= b + w)
        <5>. DEFINE z == (a - 1) * B
        <5>1. z \in Nat /\ i = z + b /\ k = z + d /\ j = z + g /\ w \in Nat /\ b \in Nat /\ d \in Nat /\ g \in Nat
          BY <1>1, <4>1, <4>5
        <5>2. i <= k /\ k <= i + w /\ i + w < j
          BY <3>1
        <5>. HIDE DEF z, w
        <5>. QED
          BY <5>1, <5>2
      <4>7. PodPlan(seqs[a], who(a), B) /\ w = seqs[a][b].drop /\ t[3] \in seqs[a][d].sels /\ e \in seqs[a][g].sels
        BY <1>4, <3>1, <3>2, <3>3, <3>4, <3>6, <4>4
      <4>. HIDE DEF w
      <4>8. g <= b + w
        BY <4>6, <4>7 DEF PodPlan
      <4>. QED
        BY <4>6, <4>8
    <3>. QED
      BY <3>5, <3>6
  <2>. QED
    BY <2>1, <2>2
<1>16. Ordered(x, "native")
  BY <1>11, <1>12, <1>14, <1>15 DEF Ordered
<1>17. ASSUME NEW s, \A a \in 1 .. m : \E b \in 1 .. B : s \in seqs[a][b].sels
       PROVE  Unanswered(x, s) = GPods /\ (m # 0 => \E i \in DOMAIN x : s \in x[i].sels)
  <2>1. ASSUME NEW a \in 1 .. m
        PROVE  \E i \in DOMAIN x : s \in x[i].sels /\ who(a) \in x[i].pods
    <3>1. PICK b \in 1 .. B : s \in seqs[a][b].sels
      BY <1>17
    <3>2. at(a, b) \in DOMAIN x /\ x[at(a, b)] = seqs[a][b]
      BY <1>7, <1>9
    <3>3. seqs[a][b].pods = {who(a)}
      BY <1>4 DEF PodPlan
    <3>. QED
      BY <3>1, <3>2, <3>3
  <2>2. Unanswered(x, s) = GPods
    BY <1>2, <2>1 DEF Unanswered
  <2>3. m # 0 => 1 \in 1 .. m
    BY <1>1
  <2>. QED
    BY <2>1, <2>2, <2>3
<1>18. ASSUME NEW t \in Parts("native"), NEW e \in {t[1], t[2]}
       PROVE  Owed(x, e, t[3]) = {}
  <2>1. \A a \in 1 .. m : \E b \in 1 .. B : t[3] \in seqs[a][b].sels
    BY <1>4 DEF PodPlan
  <2>2. Unanswered(x, t[3]) = GPods
    BY <1>17, <2>1
  <2>. QED
    BY <2>2 DEF Owed, Unanswered
<1>19. \A s \in Told("native") : \A a \in 1 .. m : \E b \in 1 .. B : s \in seqs[a][b].sels
  BY <1>4 DEF PodPlan
<1>20. \A s \in Told("native") : Unanswered(x, s) = GPods
  BY <1>17, <1>19
<1>21. (\E i \in DOMAIN x : Hits \in x[i].sels) \/ PodList = <<>>
  <2>1. Hits \in Told("native")
    BY DEF Told
  <2>2. m # 0 => \E i \in DOMAIN x : Hits \in x[i].sels
    BY <1>17, <1>19, <2>1
  <2>3. m = 0 => PodList = <<>>
    BY GoldenAssumption DEF m
  <2>. QED
    BY <2>2, <2>3
<1>. QED
  BY <1>3, <1>7, <1>16, <1>18, <1>20, <1>21 DEF AsksAll

\* Each plan of each provider asks for everything it tells.
LEMMA PlansAskAll ==
  ASSUME NEW pr \in {"native", "prometheus", "datadog", "splunk"}, NEW pl \in Plans(pr)
  PROVE  AsksAll(pl, pr)
<1>1. CASE pr = "native"
  <2>1. Plans(pr) = {FlattenSeq([i \in DOMAIN PodList |-> NativePlan(PodList[i])])}
    BY <1>1 DEF Plans
  <2>. QED
    BY <1>1, <2>1, NativeAsksAll
<1>2. CASE pr = "prometheus"
  <2>. DEFINE round == <<AskAll({Hits}, Throws), AskAll({ServerErrors}, Throws), AskAll({ErrorsOf(Bad)}, Throws),
                         AskAll(EachUri(Outcomes), Throws), AskAll(EachUri({"server"}), Throws), AskAll({}, Throws)>>
  <2>1. PrometheusPlans = {round, <<AskAll({}, Throws)>> \o round}
    BY DEF PrometheusPlans, ServerErrors
  <2>2. AsksAll(round, "prometheus") /\ AsksAll(<<AskAll({}, Throws)>> \o round, "prometheus")
    BY PrometheusRound
  <2>3. Plans(pr) = PrometheusPlans
    BY <1>2 DEF Plans
  <2>. HIDE DEF round
  <2>. QED
    BY <1>2, <2>1, <2>2, <2>3
<1>3. CASE pr = "datadog"
  BY <1>3, DatadogAsksAll DEF Plans
<1>4. CASE pr = "splunk"
  BY <1>4, SplunkAsksAll DEF Plans
<1>. QED
  BY <1>1, <1>2, <1>3, <1>4

LEMMA GoldenStep == GoldenInv /\ [GoldenNext]_goldenVars => GoldenInv'
<1>. SUFFICES ASSUME GoldenInv, [GoldenNext]_goldenVars
              PROVE  GoldenInv'
  OBVIOUS
<1>1. ASSUME NEW pr \in {"native", "prometheus", "datadog", "splunk"}, GoldenCall(pr)
      PROVE  GoldenInv'
  BY <1>1, PlansAskAll, GoldenCallStep
<1>2. CASE QueryAnswered
  BY <1>2, AnsweredStep
<1>3. CASE QueryFails
  BY <1>3, FailedStep
<1>4. CASE Empty
  BY <1>4, EmptyStep
<1>5. CASE GoldenReturn
  BY <1>5, ReturnStep
<1>6. ASSUME NEW p \in GPods, NEW c \in Cells, Request(p, c)
      PROVE  GoldenInv'
  BY <1>6, RequestStep
<1>7. ASSUME NEW p \in GPods, JvmRestart(p)
      PROVE  GoldenInv'
  BY <1>7, RestartStep
<1>8. CASE UNCHANGED goldenVars
  <2>1. UNCHANGED <<meter, provider, plan, got, answered, outcome, served, calm>>
    BY <1>8 DEF goldenVars
  <2>2. GoldenType' /\ GoldenEnds'
    BY <2>1 DEF GoldenInv, GoldenType, GoldenEnds
  <2>3. NeverExceeds'
    BY <2>1 DEF GoldenInv, NeverExceeds, AtMost, Got
  <2>4. CalmCounts'
    BY <2>1 DEF GoldenInv, CalmCounts, NoPods
  <2>. QED
    BY <2>2, <2>3, <2>4 DEF GoldenInv
<1>. QED
  BY <1>1, <1>2, <1>3, <1>4, <1>5, <1>6, <1>7, <1>8 DEF GoldenNext

LEMMA GoldenWithin == GoldenInv => ErrorsWithinRequests
<1>. SUFFICES ASSUME GoldenInv, outcome = "signals"
              PROVE  /\ Errors <= got[Hits] + served
                     /\ got[ServerErrors] <= got[Hits] + served
                     /\ provider \in {"native", "prometheus", "splunk"} =>
                          \A u \in Uris : got[Of(u, {"server"})] <= got[Of(u, Outcomes)] + served
  BY DEF ErrorsWithinRequests, Signals, ServerErrors
<1>1. /\ GoldenType /\ plan = <<>> /\ got \in [Sums -> Nat] /\ served \in Nat
      /\ meter \in Meters /\ got[IF provider = "native" THEN ErrorsOf(Bad) ELSE ClientErrors] = 0
  <2>1. got[ErrorsOf(IF provider = "native" THEN Bad ELSE {"client"})] = 0 /\ plan = <<>>
    BY DEF GoldenInv, GoldenEnds
  <2>2. ErrorsOf(IF provider = "native" THEN Bad ELSE {"client"}) = IF provider = "native" THEN ErrorsOf(Bad) ELSE ClientErrors
    BY DEF ClientErrors
  <2>. QED
    BY <2>1, <2>2 DEF GoldenInv, GoldenType
<1>2. ASSUME NEW t \in Parts(provider)
      PROVE  Got(t[1]) + Got(t[2]) <= Got(t[3]) + served
  <2>1. AtMost(t[1], t[2], t[3])
    BY DEF GoldenInv, NeverExceeds
  <2>2. /\ Got(t[1]) \in Nat /\ Got(t[2]) \in Nat /\ Got(t[3]) \in Nat
        /\ CountIn(meter, Owed(plan, t[1], t[3]), t[1]) \in Nat
        /\ CountIn(meter, Owed(plan, t[2], t[3]), t[2]) \in Nat
    BY <1>1, GotTypes
  <2>. QED
    BY <1>1, <2>1, <2>2 DEF AtMost
<1>3. /\ Hits \in Sums /\ ServerErrors \in Sums /\ ClientErrors \in Sums /\ ErrorsOf(Bad) \in Sums /\ NoSum \notin Sums
      /\ \A u \in Uris : Of(u, Outcomes) \in Sums /\ Of(u, {"server"}) \in Sums
  BY SumsDiffer
<1>4. got[ClientErrors] + got[ServerErrors] <= got[Hits] + served
  <2>1. <<ClientErrors, ServerErrors, Hits>> \in Parts(provider)
    BY DEF Parts, ClientErrors, ServerErrors
  <2>2. Got(ClientErrors) + Got(ServerErrors) <= Got(Hits) + served
    BY <1>2, <2>1
  <2>. QED
    BY <1>3, <2>2 DEF Got
<1>5. got[ErrorsOf(Bad)] <= got[Hits] + served
  <2>1. <<ErrorsOf(Bad), NoSum, Hits>> \in Parts(provider)
    BY DEF Parts
  <2>2. Got(ErrorsOf(Bad)) + Got(NoSum) <= Got(Hits) + served
    BY <1>2, <2>1
  <2>. QED
    BY <1>1, <1>3, <2>2 DEF Got
<1>6. Errors <= got[Hits] + served
  BY <1>4, <1>5 DEF Errors, ClientErrors, ServerErrors
<1>7. got[ServerErrors] <= got[Hits] + served
  <2>1. got[ClientErrors] \in Nat /\ got[ServerErrors] \in Nat /\ got[Hits] \in Nat
    BY <1>1, <1>3
  <2>. QED
    BY <1>1, <1>4, <2>1
<1>8. ASSUME provider \in {"native", "prometheus", "splunk"}, NEW u \in Uris
      PROVE  got[Of(u, {"server"})] <= got[Of(u, Outcomes)] + served
  <2>1. <<Of(u, {"server"}), NoSum, Of(u, Outcomes)>> \in Parts(provider)
    BY <1>8 DEF Parts
  <2>2. Got(Of(u, {"server"})) + Got(NoSum) <= Got(Of(u, Outcomes)) + served
    BY <1>2, <2>1
  <2>. QED
    BY <1>1, <1>3, <2>2 DEF Got
<1>. QED
  BY <1>6, <1>7, <1>8

LEMMA GoldenCalm == GoldenInv => CalmExact
<1>. SUFFICES ASSUME GoldenInv, calm
              PROVE  /\ Signals =>
                          /\ got[Hits] = Count(GPods, Hits) /\ Errors = Count(GPods, ErrorsOf(Bad))
                          /\ got[ServerErrors] = Count(GPods, ServerErrors)
                          /\ \A u \in Uris : got[Of(u, Outcomes)] = Count(GPods, Of(u, Outcomes))
                     /\ outcome = "undefined" => NoTraffic /\ (provider = "native" => PodList = <<>>)
                     /\ outcome # "error"
  BY DEF CalmExact, ServerErrors
<1>1. meter \in Meters /\ CalmCounts /\ GoldenEnds
  BY DEF GoldenInv, GoldenType
<1>2. \A s \in Sums : Count(GPods, s) = CountIn(meter, GPods, s)
  BY <1>1, ToldShape, CountIs DEF Count
<1>3. /\ Hits \in Sums /\ ServerErrors \in Sums /\ ClientErrors \in Sums /\ ErrorsOf(Bad) \in Sums
      /\ \A u \in Uris : Of(u, Outcomes) \in Sums
  BY SumsDiffer
<1>4. ASSUME Signals
      PROVE  \A s \in Told(provider) : got[s] = Count(GPods, s)
  <2>1. plan = <<>> /\ outcome = "signals"
    BY <1>1, <1>4 DEF Signals, GoldenEnds
  <2>2. \A s : GPods \ Unanswered(plan, s) = GPods
    BY <2>1, NoQueries
  <2>3. \A s \in Told(provider) : got[s] = CountIn(meter, GPods \ Unanswered(plan, s), s)
    BY <1>1, <2>1 DEF CalmCounts
  <2>. QED
    BY <1>2, <2>2, <2>3, ToldShape
<1>5. ASSUME Signals
      PROVE  Errors = Count(GPods, ErrorsOf(Bad))
  <2>1. CASE provider = "native"
    <3>1. got[ClientErrors] = Count(GPods, ClientErrors) /\ got[ServerErrors] = Count(GPods, ServerErrors)
      BY <1>4, <1>5, <2>1 DEF Told, ClientErrors, ServerErrors
    <3>2. /\ CellsOf(ClientErrors) \cap CellsOf(ServerErrors) = {} /\
               CellsOf(ClientErrors) \cup CellsOf(ServerErrors) = CellsOf(ErrorsOf(Bad))
          /\ ClientErrors \in Summed /\ ServerErrors \in Summed /\ ErrorsOf(Bad) \in Summed
      BY <1>3 DEF CellsOf, ClientErrors, ServerErrors, ErrorsOf, Of, Bad, Summed
    <3>3. CountIn(meter, GPods, ClientErrors) + CountIn(meter, GPods, ServerErrors) = CountIn(meter, GPods, ErrorsOf(Bad))
      BY <1>1, <3>2, CountUnder
    <3>. QED
      BY <1>2, <1>3, <2>1, <3>1, <3>3 DEF Errors, ClientErrors, ServerErrors
  <2>2. CASE provider # "native"
    BY <1>4, <1>5, <2>2 DEF Told, Errors
  <2>. QED
    BY <2>1, <2>2
<1>6. Hits \in Told(provider) /\ ServerErrors \in Told(provider) /\ \A u \in Uris : Of(u, Outcomes) \in Told(provider)
  BY DEF Told, ServerErrors
<1>7. outcome = "undefined" => NoTraffic /\ (provider = "native" => PodList = <<>>)
  BY <1>1, <1>2, <1>3 DEF CalmCounts, NoTraffic
<1>8. outcome # "error"
  BY <1>1 DEF CalmCounts
<1>. QED
  BY <1>4, <1>5, <1>6, <1>7, <1>8

\* Whatever falls between the queries of a provider, requests, restarts and queries that
\* fail, no error rate of its answer exceeds the requests by more than came in meanwhile:
\* each query for errors comes behind the one for its requests, pod by pod, and is given
\* up with it (src/providers/native/index.ts 71-114, prometheus, datadog and splunk:
\* goldenSignals), for every set of pods and of uris.
THEOREM ErrorsAreWithin == ToolsSpec => []ErrorsWithinRequests
<1>1. ToolsInit => GoldenInv
  BY GoldenStart DEF ToolsInit
<1>2. GoldenInv /\ [ToolsNext]_toolVars => GoldenInv'
  BY GoldenStep DEF ToolsNext, toolVars
<1>. QED
  BY <1>1, <1>2, GoldenWithin, PTL DEF ToolsSpec

\* A call that nothing disturbs adds up the meters of all pods, each once, in total and
\* for every uri, and says that there is no answer only when there was nothing to count
\* (native 71-133, prometheus 92-123, datadog 172-203, splunk 110-136).
THEOREM CalmIsExact == ToolsSpec => []CalmExact
<1>1. ToolsInit => GoldenInv
  BY GoldenStart DEF ToolsInit
<1>2. GoldenInv /\ [ToolsNext]_toolVars => GoldenInv'
  BY GoldenStep DEF ToolsNext, toolVars
<1>. QED
  BY <1>1, <1>2, GoldenCalm, PTL DEF ToolsSpec
-----------------------------------------------------------------------------
(***************************************************************************)
(* A trace.                                                                *)
(***************************************************************************)

Spanned == \E n \in Nat : spans \in [1 .. n -> Span(n)]

LEMMA SpansShape ==
  ASSUME Spanned
  PROVE  /\ Len(spans) \in Nat /\ Ids = 1 .. Len(spans)
         /\ IsFiniteSet(Ids) /\ Cardinality(Ids) = Len(spans)
         /\ \A i \in Ids : /\ spans[i].parent \in 0 .. Len(spans) /\ spans[i].duration \in Nat
                           /\ spans[i].start \in Int /\ spans[i].error \in BOOLEAN
<1>1. PICK n \in Nat : spans \in [1 .. n -> Span(n)]
  BY DEF Spanned
<1>2. Len(spans) = n /\ DOMAIN spans = 1 .. n
  <2>1. DOMAIN spans = 1 .. n /\ spans \in Seq(Span(n))
    BY <1>1
  <2>. QED
    BY <1>1, <2>1
<1>3. IsFiniteSet(1 .. n) /\ Cardinality(1 .. n) = n
  BY FS_Interval
<1>4. \A i \in 1 .. n : /\ spans[i].parent \in 0 .. n /\ spans[i].duration \in Nat
                        /\ spans[i].start \in Int /\ spans[i].error \in BOOLEAN
  BY <1>1, TracesAssumption DEF Span
<1>. QED
  BY <1>2, <1>3, <1>4 DEF Ids

\* What a step up the tree makes of the spans reached.
Up(h) == [i \in Ids |-> IF h[i] = 0 THEN 0 ELSE spans[h[i]].parent]
Climbs(g, K) == g = [k \in K |-> IF k = 0 THEN [i \in Ids |-> i] ELSE Up(g[k - 1])]

LEMMA ClimbsExist ==
  ASSUME NEW n \in Nat
  PROVE  \E g : Climbs(g, 0 .. n)
<1>. DEFINE bad == {k \in Nat : ~\E g : Climbs(g, 0 .. k)}
<1>1. 0 \notin bad
  <2>. DEFINE g == [k \in 0 .. 0 |-> [i \in Ids |-> i]]
  <2>1. g = [k \in 0 .. 0 |-> IF k = 0 THEN [i \in Ids |-> i] ELSE Up(g[k - 1])]
    OBVIOUS
  <2>. QED
    BY <2>1 DEF Climbs
<1>2. ASSUME NEW k \in Nat, NEW g, Climbs(g, 0 .. k)
      PROVE  \E h : Climbs(h, 0 .. k + 1)
  <2>. DEFINE h == [j \in 0 .. k + 1 |-> IF j = 0 THEN [i \in Ids |-> i] ELSE Up(g[j - 1])]
  <2>1. \A j \in 0 .. k : g[j] = IF j = 0 THEN [i \in Ids |-> i] ELSE Up(g[j - 1])
    BY <1>2 DEF Climbs
  <2>2. \A j \in 0 .. k : h[j] = g[j]
    BY <2>1
  <2>3. \A j \in 0 .. k + 1 : j # 0 => j - 1 \in 0 .. k
    OBVIOUS
  <2>4. \A j \in 0 .. k + 1 : j # 0 => h[j - 1] = g[j - 1]
    BY <2>2, <2>3
  <2>5. h = [j \in 0 .. k + 1 |-> IF j = 0 THEN [i \in Ids |-> i] ELSE Up(h[j - 1])]
    BY <2>4
  <2>6. Climbs(h, 0 .. k + 1)
    BY <2>5 DEF Climbs
  <2>. QED
    BY <2>6
<1>3. bad = {}
  <2>1. SUFFICES ASSUME bad # {}
                 PROVE  FALSE
    OBVIOUS
  <2>2. PICK k \in bad : \A j \in bad : k <= j
    BY <2>1, LeastNumber
  <2>3. k - 1 \in Nat /\ k - 1 \notin bad
    <3>1. k \in Nat /\ k # 0 /\ \A j \in bad : k <= j
      BY <1>1, <2>2
    <3>. HIDE DEF bad
    <3>. QED
      BY <3>1
  <2>4. PICK g : Climbs(g, 0 .. k - 1)
    BY <2>3
  <2>5. \E h : Climbs(h, 0 .. (k - 1) + 1)
    BY <1>2, <2>3, <2>4
  <2>6. (k - 1) + 1 = k
    BY <2>2
  <2>. QED
    BY <2>2, <2>5, <2>6
<1>. QED
  BY <1>3

LEMMA ClimbsAgree ==
  ASSUME NEW m \in Nat, NEW n \in Nat, NEW g, Climbs(g, 0 .. m), NEW h, Climbs(h, 0 .. n),
         NEW k \in Nat, k <= m, k <= n
  PROVE  g[k] = h[k]
<1>. DEFINE bad == {j \in Nat : j <= k /\ g[j] # h[j]}
<1>1. /\ \A j \in 0 .. m : g[j] = IF j = 0 THEN [i \in Ids |-> i] ELSE Up(g[j - 1])
      /\ \A j \in 0 .. n : h[j] = IF j = 0 THEN [i \in Ids |-> i] ELSE Up(h[j - 1])
  BY DEF Climbs
<1>2. bad = {}
  <2>1. SUFFICES ASSUME bad # {}
                 PROVE  FALSE
    OBVIOUS
  <2>2. PICK j \in bad : \A l \in bad : j <= l
    BY <2>1, LeastNumber
  <2>3. j \in 0 .. k /\ j \in 0 .. m /\ j \in 0 .. n /\ g[j] # h[j]
    BY <2>2
  <2>4. j # 0
    BY <1>1, <2>3
  <2>5. j - 1 \in Nat /\ j - 1 <= k /\ j - 1 \notin bad
    BY <2>2, <2>3, <2>4
  <2>6. g[j - 1] = h[j - 1]
    BY <2>5
  <2>. QED
    BY <1>1, <2>3, <2>4, <2>6
<1>. QED
  BY <1>2

\* The recursion of depth is well defined: on every span, as far up as one goes.
LEMMA AncestorIs == Climbs(Ancestor, Nat)
<1>. DEFINE G == [n \in Nat |-> CHOOSE g : Climbs(g, 0 .. n)]
            f == [k \in Nat |-> G[k][k]]
            W(g) == g = [k \in Nat |-> [i \in Ids |-> IF k = 0 THEN i
                                          ELSE LET a == g[k - 1][i] IN IF a = 0 THEN 0 ELSE spans[a].parent]]
<1>1. \A n \in Nat : Climbs(G[n], 0 .. n)
  BY ClimbsExist
<1>2. ASSUME NEW k \in Nat
      PROVE  f[k] = IF k = 0 THEN [i \in Ids |-> i] ELSE Up(f[k - 1])
  <2>1. G[k][k] = IF k = 0 THEN [i \in Ids |-> i] ELSE Up(G[k][k - 1])
    <3>1. Climbs(G[k], 0 .. k) /\ k \in 0 .. k
      BY <1>1
    <3>. HIDE DEF G
    <3>. QED
      BY <3>1 DEF Climbs
  <2>2. CASE k # 0
    <3>1. k - 1 \in Nat /\ k - 1 <= k
      BY <2>2
    <3>2. Climbs(G[k], 0 .. k) /\ Climbs(G[k - 1], 0 .. k - 1)
      BY <1>1, <3>1
    <3>. HIDE DEF G
    <3>3. G[k][k - 1] = G[k - 1][k - 1]
      BY <3>1, <3>2, ClimbsAgree
    <3>. QED
      BY <2>1, <2>2, <3>1, <3>3
  <2>. QED
    BY <2>1, <2>2
<1>3. \A g : W(g) <=> Climbs(g, Nat)
  <2>. TAKE g
  <2>1. \A k \in Nat : [i \in Ids |-> IF k = 0 THEN i ELSE LET a == g[k - 1][i] IN IF a = 0 THEN 0 ELSE spans[a].parent]
                         = IF k = 0 THEN [i \in Ids |-> i] ELSE Up(g[k - 1])
    BY DEF Up
  <2>. QED
    BY <2>1 DEF Climbs
<1>4. Climbs(f, Nat)
  <2>. HIDE DEF G
  <2>1. f = [k \in Nat |-> f[k]]
    OBVIOUS
  <2>. HIDE DEF f
  <2>. QED
    BY <1>2, <2>1 DEF Climbs
<1>5. Ancestor = CHOOSE g : W(g)
  BY DEF Ancestor
<1>6. W(f)
  BY <1>3, <1>4
<1>7. W(CHOOSE g : W(g))
  BY <1>6
<1>. QED
  BY <1>3, <1>5, <1>7

LEMMA Ancestors ==
  ASSUME Spanned, NEW i \in Ids
  PROVE  /\ Ancestor[0][i] = i
         /\ \A k \in Nat : /\ Ancestor[k][i] \in 0 .. Len(spans)
                           /\ Ancestor[k + 1][i] = IF Ancestor[k][i] = 0 THEN 0 ELSE spans[Ancestor[k][i]].parent
<1>1. \A k \in Nat : Ancestor[k] = IF k = 0 THEN [j \in Ids |-> j] ELSE Up(Ancestor[k - 1])
  BY AncestorIs DEF Climbs
<1>2. Ancestor[0][i] = i
  BY <1>1
<1>3. ASSUME NEW k \in Nat
      PROVE  Ancestor[k + 1][i] = IF Ancestor[k][i] = 0 THEN 0 ELSE spans[Ancestor[k][i]].parent
  <2>1. k + 1 \in Nat /\ k + 1 # 0 /\ (k + 1) - 1 = k
    OBVIOUS
  <2>2. Ancestor[k + 1] = Up(Ancestor[k])
    BY <1>1, <2>1
  <2>. QED
    BY <2>2 DEF Up
<1>. DEFINE bad == {k \in Nat : Ancestor[k][i] \notin 0 .. Len(spans)}
<1>4. bad = {}
  <2>1. SUFFICES ASSUME bad # {}
                 PROVE  FALSE
    OBVIOUS
  <2>2. PICK k \in bad : \A l \in bad : k <= l
    BY <2>1, LeastNumber
  <2>3. k # 0
    BY <1>2, <2>2, SpansShape
  <2>4. k - 1 \in Nat /\ k - 1 \notin bad
    BY <2>2, <2>3
  <2>5. Ancestor[k - 1][i] \in 0 .. Len(spans)
    BY <2>4
  <2>6. Ancestor[(k - 1) + 1][i] = IF Ancestor[k - 1][i] = 0 THEN 0 ELSE spans[Ancestor[k - 1][i]].parent
    BY <1>3, <2>4
  <2>7. (k - 1) + 1 = k
    BY <2>2
  <2>8. Ancestor[k][i] \in 0 .. Len(spans)
    <3>1. CASE Ancestor[k - 1][i] = 0
      BY <2>6, <2>7, <3>1, SpansShape
    <3>2. CASE Ancestor[k - 1][i] # 0
      <4>1. Ancestor[k - 1][i] \in Ids
        BY <2>5, <3>2, SpansShape
      <4>. QED
        BY <2>6, <2>7, <3>2, <4>1, SpansShape
    <3>. QED
      BY <3>1, <3>2
  <2>. QED
    BY <2>2, <2>8
<1>. QED
  BY <1>2, <1>3, <1>4
-----------------------------------------------------------------------------
\* A total strict order of a finite set, as the pairs it holds of.
Orders(R, S) ==
  /\ \A r \in S : <<r, r>> \notin R
  /\ \A r, s, t \in S : <<r, s>> \in R /\ <<s, t>> \in R => <<r, t>> \in R
  /\ \A r, s \in S : r = s \/ <<r, s>> \in R \/ <<s, r>> \in R

Before(R, S, r) == {s \in S : <<s, r>> \in R}

\* Each element has a place of its own, after those before it, and each place is taken.
LEMMA Ranked ==
  ASSUME NEW S, IsFiniteSet(S), NEW R, Orders(R, S)
  PROVE  /\ \A r \in S : Cardinality(Before(R, S, r)) \in 0 .. Cardinality(S) - 1
         /\ \A r, s \in S : <<r, s>> \in R <=> Cardinality(Before(R, S, r)) < Cardinality(Before(R, S, s))
         /\ \A k \in 1 .. Cardinality(S) : \E r \in S : Cardinality(Before(R, S, r)) = k - 1
<1>. DEFINE n == Cardinality(S)
            place == [r \in S |-> Cardinality(Before(R, S, r)) + 1]
<1>1. n \in Nat /\ IsFiniteSet(1 .. n) /\ Cardinality(1 .. n) = n
  BY FS_CardinalityType, FS_Interval
<1>2. ASSUME NEW r \in S
      PROVE  /\ IsFiniteSet(Before(R, S, r)) /\ Cardinality(Before(R, S, r)) \in Nat
             /\ Cardinality(Before(R, S, r)) < n
  <2>1. Before(R, S, r) \in SUBSET S /\ Before(R, S, r) # S
    BY DEF Before, Orders
  <2>2. IsFiniteSet(Before(R, S, r)) /\ Cardinality(Before(R, S, r)) <= n /\ Cardinality(Before(R, S, r)) # n
    BY <2>1, FS_Subset
  <2>3. Cardinality(Before(R, S, r)) \in Nat
    BY <2>2, FS_CardinalityType
  <2>. QED
    BY <1>1, <2>2, <2>3
<1>3. ASSUME NEW r \in S, NEW s \in S, <<r, s>> \in R
      PROVE  Cardinality(Before(R, S, r)) < Cardinality(Before(R, S, s))
  <2>1. \A t \in S : <<t, r>> \in R => <<t, s>> \in R
    BY <1>3 DEF Orders
  <2>2. r \in Before(R, S, s) /\ r \notin Before(R, S, r)
    BY <1>3 DEF Before, Orders
  <2>3. Before(R, S, r) \in SUBSET Before(R, S, s) /\ Before(R, S, r) # Before(R, S, s)
    BY <2>1, <2>2 DEF Before
  <2>4. /\ Cardinality(Before(R, S, r)) <= Cardinality(Before(R, S, s))
        /\ Cardinality(Before(R, S, r)) # Cardinality(Before(R, S, s))
    BY <1>2, <2>3, FS_Subset
  <2>. QED
    BY <1>2, <2>4
<1>4. ASSUME NEW r \in S, NEW s \in S, Cardinality(Before(R, S, r)) < Cardinality(Before(R, S, s))
      PROVE  <<r, s>> \in R
  <2>1. r # s
    BY <1>2, <1>4
  <2>2. <<s, r>> \in R => Cardinality(Before(R, S, s)) < Cardinality(Before(R, S, r))
    BY <1>3
  <2>3. <<s, r>> \notin R
    BY <1>2, <1>4, <2>2
  <2>. QED
    BY <2>1, <2>3 DEF Orders
<1>5. place \in [S -> 1 .. n]
  BY <1>1, <1>2
<1>6. ASSUME NEW r \in S, NEW s \in S, r # s
      PROVE  place[r] # place[s]
  <2>1. <<r, s>> \in R \/ <<s, r>> \in R
    BY <1>6 DEF Orders
  <2>2. Cardinality(Before(R, S, r)) # Cardinality(Before(R, S, s))
    BY <1>2, <1>3, <2>1
  <2>. QED
    BY <1>2, <2>2
<1>7. place \in Surjection(S, 1 .. n)
  <2>1. place \in Injection(S, 1 .. n)
    BY <1>5, <1>6 DEF Injection, IsInjective
  <2>. QED
    BY <1>1, <2>1, FS_Injection
<1>8. ASSUME NEW k \in 1 .. n
      PROVE  \E r \in S : Cardinality(Before(R, S, r)) = k - 1
  <2>1. PICK r \in S : place[r] = k
    BY <1>7 DEF Surjection
  <2>2. Cardinality(Before(R, S, r)) + 1 = k
    BY <2>1
  <2>. QED
    BY <1>2, <2>2
<1>9. \A r \in S : Cardinality(Before(R, S, r)) \in 0 .. n - 1
  BY <1>1, <1>2
<1>10. \A r, s \in S : <<r, s>> \in R <=> Cardinality(Before(R, S, r)) < Cardinality(Before(R, S, s))
  BY <1>3, <1>4
<1>. QED
  BY <1>8, <1>9, <1>10

\* The spans stand in order of their start: all of them, once each.
LEMMA OrderOfSpans ==
  ASSUME Spanned
  PROVE  /\ \A k \in Ids : InOrder[k] \in Ids
         /\ \A k, l \in Ids : k <= l => spans[InOrder[k]].start <= spans[InOrder[l]].start
         /\ \A i \in Ids : \E k \in Ids : InOrder[k] = i
<1>. DEFINE R == {x \in Ids \X Ids : \/ spans[x[1]].start < spans[x[2]].start
                                     \/ spans[x[1]].start = spans[x[2]].start /\ x[1] < x[2]}
<1>1. /\ Len(spans) \in Nat /\ Ids = 1 .. Len(spans) /\ IsFiniteSet(Ids) /\ Cardinality(Ids) = Len(spans)
      /\ \A i \in Ids : i \in Nat /\ spans[i].start \in Int
  BY SpansShape
<1>2. \A i, j \in Ids : <<i, j>> \in R <=> \/ spans[i].start < spans[j].start
                                           \/ spans[i].start = spans[j].start /\ i < j
  OBVIOUS
<1>. HIDE DEF R
<1>3. Orders(R, Ids)
  <2>1. ASSUME NEW i \in Ids, NEW j \in Ids
        PROVE  <<i, i>> \notin R /\ (i = j \/ <<i, j>> \in R \/ <<j, i>> \in R)
    <3>1. i \in Nat /\ j \in Nat /\ spans[i].start \in Int /\ spans[j].start \in Int
      BY <1>1
    <3>. QED
      BY <1>2, <3>1
  <2>2. ASSUME NEW i \in Ids, NEW j \in Ids, NEW k \in Ids, <<i, j>> \in R, <<j, k>> \in R
        PROVE  <<i, k>> \in R
    <3>1. /\ i \in Nat /\ j \in Nat /\ k \in Nat
          /\ spans[i].start \in Int /\ spans[j].start \in Int /\ spans[k].start \in Int
      BY <1>1
    <3>2. /\ spans[i].start < spans[j].start \/ (spans[i].start = spans[j].start /\ i < j)
          /\ spans[j].start < spans[k].start \/ (spans[j].start = spans[k].start /\ j < k)
      BY <1>2, <2>2
    <3>3. spans[i].start < spans[k].start \/ (spans[i].start = spans[k].start /\ i < k)
      BY <3>1, <3>2
    <3>. QED
      BY <1>2, <3>3
  <2>3. \A i \in Ids : <<i, i>> \notin R
    BY <2>1
  <2>4. \A i, j \in Ids : i = j \/ <<i, j>> \in R \/ <<j, i>> \in R
    BY <2>1
  <2>5. \A i, j, k \in Ids : <<i, j>> \in R /\ <<j, k>> \in R => <<i, k>> \in R
    BY <2>2
  <2>. QED
    BY <2>3, <2>4, <2>5, Zenon DEF Orders
<1>4. \A i \in Ids : Before(R, Ids, i) = Earlier(i)
  BY <1>2 DEF Before, Earlier
<1>5. /\ \A i \in Ids : Cardinality(Earlier(i)) \in 0 .. Len(spans) - 1
      /\ \A i, j \in Ids : <<i, j>> \in R <=> Cardinality(Earlier(i)) < Cardinality(Earlier(j))
      /\ \A k \in 1 .. Len(spans) : \E i \in Ids : Cardinality(Earlier(i)) = k - 1
  <2>1. /\ \A r \in Ids : Cardinality(Before(R, Ids, r)) \in 0 .. Cardinality(Ids) - 1
        /\ \A r, s \in Ids : <<r, s>> \in R <=> Cardinality(Before(R, Ids, r)) < Cardinality(Before(R, Ids, s))
        /\ \A k \in 1 .. Cardinality(Ids) : \E r \in Ids : Cardinality(Before(R, Ids, r)) = k - 1
    <3>1. IsFiniteSet(Ids)
      BY <1>1
    <3>. QED
      BY <1>3, <3>1, Ranked, Zenon
  <2>. QED
    BY <1>1, <1>4, <2>1
<1>6. ASSUME NEW k \in Ids
      PROVE  InOrder[k] \in Ids /\ Cardinality(Earlier(InOrder[k])) = k - 1
  <2>1. \E i \in Ids : Cardinality(Earlier(i)) = k - 1
    BY <1>1, <1>5
  <2>2. InOrder[k] = CHOOSE i \in Ids : Cardinality(Earlier(i)) = k - 1
    BY DEF InOrder
  <2>. QED
    BY <2>1, <2>2
<1>7. ASSUME NEW k \in Ids, NEW l \in Ids, k <= l
      PROVE  spans[InOrder[k]].start <= spans[InOrder[l]].start
  <2>1. k \in Nat /\ l \in Nat
    BY <1>1
  <2>2. CASE k = l
    BY <1>1, <1>6, <2>2
  <2>3. CASE k < l
    <3>1. /\ InOrder[k] \in Ids /\ Cardinality(Earlier(InOrder[k])) = k - 1
          /\ InOrder[l] \in Ids /\ Cardinality(Earlier(InOrder[l])) = l - 1
      BY <1>6
    <3>2. <<InOrder[k], InOrder[l]>> \in R
      <4>1. <<InOrder[k], InOrder[l]>> \in R <=> Cardinality(Earlier(InOrder[k])) < Cardinality(Earlier(InOrder[l]))
        BY <1>5, <3>1
      <4>. QED
        BY <2>1, <2>3, <3>1, <4>1
    <3>3. spans[InOrder[k]].start \in Int /\ spans[InOrder[l]].start \in Int
      BY <1>1, <3>1
    <3>4. spans[InOrder[k]].start < spans[InOrder[l]].start \/ spans[InOrder[k]].start = spans[InOrder[l]].start
      BY <1>2, <3>1, <3>2
    <3>. QED
      BY <3>3, <3>4
  <2>. QED
    BY <1>7, <2>1, <2>2, <2>3
<1>8. ASSUME NEW i \in Ids
      PROVE  \E k \in Ids : InOrder[k] = i
  <2>. DEFINE k == Cardinality(Earlier(i)) + 1
  <2>1. k \in Ids /\ k - 1 = Cardinality(Earlier(i))
    BY <1>1, <1>5
  <2>. HIDE DEF k
  <2>2. InOrder[k] \in Ids /\ Cardinality(Earlier(InOrder[k])) = Cardinality(Earlier(i))
    BY <1>6, <2>1
  <2>3. <<InOrder[k], i>> \notin R /\ <<i, InOrder[k]>> \notin R
    <3>1. /\ <<InOrder[k], i>> \in R <=> Cardinality(Earlier(InOrder[k])) < Cardinality(Earlier(i))
          /\ <<i, InOrder[k]>> \in R <=> Cardinality(Earlier(i)) < Cardinality(Earlier(InOrder[k]))
          /\ Cardinality(Earlier(i)) \in 0 .. Len(spans) - 1
      BY <1>5, <2>2
    <3>2. Cardinality(Earlier(i)) \in Nat
      BY <1>1, <3>1
    <3>. QED
      BY <2>2, <3>1, <3>2
  <2>4. InOrder[k] = i
    BY <1>3, <2>2, <2>3 DEF Orders
  <2>. QED
    BY <2>1, <2>4
<1>. QED
  BY <1>6, <1>7, <1>8

\* The n-th numbers of a finite set: all of them, in order.
LEMMA NthOnes ==
  ASSUME NEW K \in SUBSET Nat, IsFiniteSet(K)
  PROVE  /\ Cardinality(K) \in Nat
         /\ \A n \in 1 .. Cardinality(K) : Nth(K, n) \in K
         /\ \A m, n \in 1 .. Cardinality(K) : m <= n => Nth(K, m) <= Nth(K, n)
         /\ \A k \in K : \E n \in 1 .. Cardinality(K) : Nth(K, n) = k
<1>. DEFINE R == {x \in K \X K : x[1] < x[2]}
            below(k) == {j \in K : j < k}
<1>1. Cardinality(K) \in Nat /\ \A k \in K : k \in Nat
  BY FS_CardinalityType
<1>2. \A i, j \in K : <<i, j>> \in R <=> i < j
  OBVIOUS
<1>. HIDE DEF R
<1>3. Orders(R, K)
  BY <1>2 DEF Orders
<1>4. \A k \in K : Before(R, K, k) = below(k)
  BY <1>2 DEF Before
<1>5. /\ \A k \in K : Cardinality(below(k)) \in 0 .. Cardinality(K) - 1
      /\ \A j, k \in K : j < k <=> Cardinality(below(j)) < Cardinality(below(k))
      /\ \A n \in 1 .. Cardinality(K) : \E k \in K : Cardinality(below(k)) = n - 1
  <2>1. /\ \A r \in K : Cardinality(Before(R, K, r)) \in 0 .. Cardinality(K) - 1
        /\ \A r, s \in K : <<r, s>> \in R <=> Cardinality(Before(R, K, r)) < Cardinality(Before(R, K, s))
        /\ \A k \in 1 .. Cardinality(K) : \E r \in K : Cardinality(Before(R, K, r)) = k - 1
    BY <1>3, Ranked
  <2>. HIDE DEF below
  <2>. QED
    BY <1>2, <1>4, <2>1
<1>6. \A n : Nth(K, n) = CHOOSE k \in K : Cardinality(below(k)) = n - 1
  BY DEF Nth
<1>. HIDE DEF below
<1>7. \A n \in 1 .. Cardinality(K) : Nth(K, n) \in K /\ Cardinality(below(Nth(K, n))) = n - 1
  BY <1>5, <1>6
<1>8. ASSUME NEW m \in 1 .. Cardinality(K), NEW n \in 1 .. Cardinality(K), m <= n
      PROVE  Nth(K, m) <= Nth(K, n)
  <2>1. /\ Nth(K, m) \in K /\ Cardinality(below(Nth(K, m))) = m - 1
        /\ Nth(K, n) \in K /\ Cardinality(below(Nth(K, n))) = n - 1
    BY <1>7
  <2>2. Nth(K, n) < Nth(K, m) <=> Cardinality(below(Nth(K, n))) < Cardinality(below(Nth(K, m)))
    BY <1>5, <2>1
  <2>3. m \in Nat /\ n \in Nat /\ Nth(K, m) \in Nat /\ Nth(K, n) \in Nat
    <3>1. m \in Nat /\ n \in Nat
      BY <1>1
    <3>2. Nth(K, m) \in Nat /\ Nth(K, n) \in Nat
      BY <1>1, <2>1
    <3>. QED
      BY <3>1, <3>2
  <2>4. ~(Nth(K, n) < Nth(K, m))
    BY <1>8, <2>1, <2>2, <2>3
  <2>. QED
    BY <2>3, <2>4
<1>9. ASSUME NEW k \in K
      PROVE  \E n \in 1 .. Cardinality(K) : Nth(K, n) = k
  <2>. DEFINE n == Cardinality(below(k)) + 1
  <2>1. n \in 1 .. Cardinality(K) /\ n - 1 = Cardinality(below(k))
    BY <1>1, <1>5
  <2>. HIDE DEF n
  <2>2. Nth(K, n) \in K /\ Cardinality(below(Nth(K, n))) = Cardinality(below(k))
    BY <1>7, <2>1
  <2>3. Cardinality(below(k)) \in Nat
    BY <1>1, <1>5
  <2>4. ~(Nth(K, n) < k) /\ ~(k < Nth(K, n))
    <3>1. /\ Nth(K, n) < k <=> Cardinality(below(Nth(K, n))) < Cardinality(below(k))
          /\ k < Nth(K, n) <=> Cardinality(below(k)) < Cardinality(below(Nth(K, n)))
      BY <1>5, <2>2
    <3>. QED
      BY <2>2, <2>3, <3>1
  <2>5. Nth(K, n) = k
    <3>1. Nth(K, n) \in Nat /\ k \in Nat
      BY <2>2
    <3>. QED
      BY <2>4, <3>1
  <2>. QED
    BY <2>1, <2>5
<1>. QED
  BY <1>1, <1>7, <1>8, <1>9
-----------------------------------------------------------------------------
\* The depth of a span is how far up its ancestors go.
LEMMA DepthIs ==
  ASSUME Spanned, ~Cyclic, NEW i \in Ids
  PROVE  /\ Depth(i) \in Nat /\ Depth(i) <= Len(spans)
         /\ Ancestor[Depth(i) + 1][i] = 0
         /\ \A k \in 0 .. Depth(i) : Ancestor[k][i] \in Ids
<1>. DEFINE T == {k \in 0 .. Len(spans) : Ancestor[k + 1][i] = 0}
<1>1. /\ Len(spans) \in Nat /\ Ids = 1 .. Len(spans)
      /\ Ancestor[0][i] = i
      /\ \A k \in Nat : Ancestor[k][i] \in 0 .. Len(spans)
  BY SpansShape, Ancestors
<1>2. Len(spans) - 1 \in T
  <2>1. Len(spans) - 1 \in 0 .. Len(spans) /\ (Len(spans) - 1) + 1 = Len(spans)
    <3>1. i \in 1 .. Len(spans)
      BY <1>1
    <3>. QED
      BY <1>1, <3>1
  <2>2. Ancestor[Len(spans)][i] = 0
    BY Zenon DEF Cyclic
  <2>. QED
    BY <2>1, <2>2
<1>3. PICK m \in T : \A k \in T : m <= k
  <2>1. T \subseteq Nat /\ T # {}
    <3>1. \A k \in 0 .. Len(spans) : k \in Nat
      BY <1>1
    <3>2. T \subseteq Nat
      BY <3>1
    <3>. HIDE DEF T
    <3>. QED
      BY <1>2, <3>2
  <2>. QED
    BY <2>1, LeastNumber
<1>4. Depth(i) = Min(T)
  BY DEF Depth
<1>5. Min(T) \in T /\ \A k \in T : Min(T) <= k
  <2>. HIDE DEF T
  <2>. QED
    BY <1>3 DEF Min
<1>6. Depth(i) \in 0 .. Len(spans) /\ Ancestor[Depth(i) + 1][i] = 0
  BY <1>4, <1>5
<1>7. \A k \in 0 .. Len(spans) : Ancestor[k + 1][i] = 0 => Depth(i) <= k
  BY <1>4, <1>5
<1>8. ASSUME NEW k \in 0 .. Depth(i)
      PROVE  Ancestor[k][i] \in Ids
  <2>1. CASE k = 0
    BY <1>1, <2>1
  <2>2. CASE k # 0
    <3>1. k - 1 \in 0 .. Len(spans) /\ (k - 1) + 1 = k /\ k \in Nat /\ ~(Depth(i) <= k - 1)
      BY <1>1, <1>6, <2>2
    <3>2. Ancestor[k][i] # 0
      BY <1>7, <3>1
    <3>3. Ancestor[k][i] \in 0 .. Len(spans)
      BY <1>1, <3>1
    <3>. QED
      BY <1>1, <3>2, <3>3
  <2>. QED
    BY <2>1, <2>2
<1>9. Depth(i) \in Nat /\ Depth(i) <= Len(spans)
  BY <1>1, <1>6
<1>. QED
  BY <1>6, <1>8, <1>9

\* Where two ways up meet, they stay together.
LEMMA SameWay ==
  ASSUME Spanned, NEW i \in Ids, NEW a \in Nat, NEW b \in Nat, Ancestor[a][i] = Ancestor[b][i], NEW m \in Nat
  PROVE  Ancestor[a + m][i] = Ancestor[b + m][i]
<1>. DEFINE bad == {k \in Nat : Ancestor[a + k][i] # Ancestor[b + k][i]}
<1>1. 0 \notin bad
  BY a + 0 = a, b + 0 = b
<1>2. bad = {}
  <2>1. SUFFICES ASSUME bad # {}
                 PROVE  FALSE
    OBVIOUS
  <2>2. PICK k \in bad : \A l \in bad : k <= l
    BY <2>1, LeastNumber
  <2>3. k - 1 \in Nat /\ k - 1 \notin bad
    <3>1. k \in Nat /\ k # 0 /\ \A l \in bad : k <= l
      BY <1>1, <2>2
    <3>. HIDE DEF bad
    <3>. QED
      BY <3>1
  <2>4. Ancestor[a + (k - 1)][i] = Ancestor[b + (k - 1)][i]
    BY <2>3
  <2>5. /\ a + (k - 1) \in Nat /\ (a + (k - 1)) + 1 = a + k
        /\ b + (k - 1) \in Nat /\ (b + (k - 1)) + 1 = b + k
    BY <2>2, <2>3
  <2>6. Ancestor[a + k][i] = Ancestor[b + k][i]
    <3>1. \A l \in Nat : Ancestor[l + 1][i] = IF Ancestor[l][i] = 0 THEN 0 ELSE spans[Ancestor[l][i]].parent
      BY Ancestors
    <3>2. /\ Ancestor[(a + (k - 1)) + 1][i] = IF Ancestor[a + (k - 1)][i] = 0 THEN 0 ELSE spans[Ancestor[a + (k - 1)][i]].parent
          /\ Ancestor[(b + (k - 1)) + 1][i] = IF Ancestor[b + (k - 1)][i] = 0 THEN 0 ELSE spans[Ancestor[b + (k - 1)][i]].parent
      BY <2>5, <3>1
    <3>. QED
      BY <2>4, <2>5, <3>2
  <2>. QED
    BY <2>2, <2>6
<1>. QED
  BY <1>2

\* The ancestors of a span are as many as it is deep, and it is none of them.
LEMMA AncestorsApart ==
  ASSUME Spanned, ~Cyclic, NEW i \in Ids, NEW a \in 0 .. Depth(i), NEW b \in 0 .. Depth(i), a < b
  PROVE  Ancestor[a][i] # Ancestor[b][i]
<1>1. SUFFICES ASSUME Ancestor[a][i] = Ancestor[b][i]
               PROVE  FALSE
  OBVIOUS
<1>. DEFINE m == (Depth(i) + 1) - b
<1>2. Depth(i) \in Nat /\ Ancestor[Depth(i) + 1][i] = 0 /\ \A k \in 0 .. Depth(i) : Ancestor[k][i] \in Ids
  BY DepthIs
<1>3. a \in Nat /\ b \in Nat /\ m \in Nat /\ b + m = Depth(i) + 1 /\ a + m \in 0 .. Depth(i)
  BY <1>2
<1>. HIDE DEF m
<1>4. Ancestor[a + m][i] = Ancestor[b + m][i]
  BY <1>1, <1>3, SameWay
<1>5. Ancestor[a + m][i] = 0 /\ Ancestor[a + m][i] \in Ids
  BY <1>2, <1>3, <1>4
<1>. QED
  BY <1>5, SpansShape

\* B holds the parents of all of B and of i.
ClosedAbove(B, i) == \A j \in B \cup {i} : spans[j].parent \in B \cup {0}

LEMMA AboveIs ==
  ASSUME Spanned, ~Cyclic, NEW i \in Ids
  PROVE  Above(i) = {Ancestor[k][i] : k \in 1 .. Depth(i)}
<1>. DEFINE X == {Ancestor[k][i] : k \in 1 .. Depth(i)}
<1>1. /\ Depth(i) \in Nat /\ Ancestor[Depth(i) + 1][i] = 0 /\ \A k \in 0 .. Depth(i) : Ancestor[k][i] \in Ids
      /\ Ancestor[0][i] = i
      /\ \A k \in Nat : Ancestor[k + 1][i] = IF Ancestor[k][i] = 0 THEN 0 ELSE spans[Ancestor[k][i]].parent
      /\ \A j \in Ids : j # 0
  <2>1. Depth(i) \in Nat /\ Ancestor[Depth(i) + 1][i] = 0 /\ \A k \in 0 .. Depth(i) : Ancestor[k][i] \in Ids
    BY DepthIs
  <2>2. /\ Ancestor[0][i] = i
        /\ \A k \in Nat : Ancestor[k + 1][i] = IF Ancestor[k][i] = 0 THEN 0 ELSE spans[Ancestor[k][i]].parent
    BY Ancestors
  <2>3. \A j \in Ids : j # 0
    BY SpansShape
  <2>. QED
    BY <2>1, <2>2, <2>3
<1>2. \A k \in 0 .. Depth(i) : spans[Ancestor[k][i]].parent = Ancestor[k + 1][i]
  <2>. TAKE k \in 0 .. Depth(i)
  <2>1. k \in Nat /\ Ancestor[k][i] # 0
    BY <1>1
  <2>. QED
    BY <1>1, <2>1
<1>3. X \in SUBSET Ids
  BY <1>1
<1>4. ClosedAbove(X, i)
  <2>1. ASSUME NEW j \in X \cup {i}
        PROVE  spans[j].parent \in X \cup {0}
    <3>1. PICK k \in 0 .. Depth(i) : j = Ancestor[k][i]
      <4>1. 0 \in 0 .. Depth(i)
        BY <1>1
      <4>. QED
        BY <1>1, <4>1
    <3>2. spans[j].parent = Ancestor[k + 1][i]
      BY <1>2, <3>1
    <3>3. CASE k = Depth(i)
      BY <1>1, <3>2, <3>3
    <3>4. CASE k # Depth(i)
      <4>1. k + 1 \in 1 .. Depth(i)
        BY <1>1, <3>4
      <4>. QED
        BY <3>2, <4>1
    <3>. QED
      BY <3>3, <3>4
  <2>. QED
    BY <2>1 DEF ClosedAbove
<1>5. ASSUME NEW B \in SUBSET Ids, ClosedAbove(B, i)
      PROVE  X \subseteq B
  <2>. DEFINE bad == {k \in Nat : k \in 1 .. Depth(i) /\ Ancestor[k][i] \notin B}
  <2>1. SUFFICES ASSUME bad # {}
                 PROVE  FALSE
    BY <1>1
  <2>2. PICK k \in bad : \A l \in bad : k <= l
    BY <2>1, LeastNumber
  <2>3. k \in Nat /\ k \in 1 .. Depth(i) /\ Ancestor[k][i] \notin B
    BY <2>2
  <2>4. k - 1 \in Nat /\ (k - 1) + 1 = k /\ k - 1 \in 0 .. Depth(i) /\ k - 1 \notin bad
    <3>1. \A l \in bad : k <= l
      BY <2>2
    <3>. HIDE DEF bad
    <3>. QED
      BY <1>1, <2>3, <3>1
  <2>5. Ancestor[k - 1][i] \in B \cup {i}
    <3>1. CASE k - 1 = 0
      BY <1>1, <3>1
    <3>2. CASE k - 1 # 0
      <4>1. k - 1 \in 1 .. Depth(i)
        BY <1>1, <2>4, <3>2
      <4>. QED
        BY <2>4, <4>1
    <3>. QED
      BY <3>1, <3>2
  <2>6. Ancestor[k][i] \in B \cup {0}
    <3>1. spans[Ancestor[k - 1][i]].parent \in B \cup {0}
      BY <1>5, <2>5 DEF ClosedAbove
    <3>. QED
      BY <1>2, <2>4, <3>1
  <2>7. k \in 0 .. Depth(i)
    BY <1>1, <2>3
  <2>. QED
    BY <1>1, <2>3, <2>6, <2>7
<1>6. Above(i) = CHOOSE A \in SUBSET Ids : ClosedAbove(A, i) /\ \A B \in SUBSET Ids : ClosedAbove(B, i) => A \subseteq B
  BY Zenon DEF Above, ClosedAbove
<1>. HIDE DEF X
<1>7. \A A \in SUBSET Ids : ClosedAbove(A, i) /\ (\A B \in SUBSET Ids : ClosedAbove(B, i) => A \subseteq B) => A = X
  BY <1>3, <1>4, <1>5
<1>8. ClosedAbove(X, i) /\ \A B \in SUBSET Ids : ClosedAbove(B, i) => X \subseteq B
  BY <1>4, <1>5
<1>. QED
  BY <1>3, <1>6, <1>7, <1>8 DEF X

LEMMA DepthsBorneOut ==
  ASSUME Spanned, ~Cyclic, NEW i \in Ids
  PROVE  Depth(i) = Cardinality(Above(i)) /\ i \notin Above(i)
<1>. DEFINE X == {Ancestor[k][i] : k \in 1 .. Depth(i)}
            f == [k \in 1 .. Depth(i) |-> Ancestor[k][i]]
<1>1. Depth(i) \in Nat /\ IsFiniteSet(1 .. Depth(i)) /\ Cardinality(1 .. Depth(i)) = Depth(i)
  BY DepthIs, FS_Interval
<1>2. ASSUME NEW a \in 0 .. Depth(i), NEW b \in 0 .. Depth(i), a # b
      PROVE  Ancestor[a][i] # Ancestor[b][i]
  <2>1. a < b \/ b < a
    BY <1>1, <1>2
  <2>. QED
    BY <2>1, AncestorsApart
<1>3. \A k \in 1 .. Depth(i) : k \in 0 .. Depth(i)
  BY <1>1
<1>4. f \in Bijection(1 .. Depth(i), X)
  <2>1. f \in [1 .. Depth(i) -> X] /\ \A x \in X : \E k \in 1 .. Depth(i) : f[k] = x
    OBVIOUS
  <2>2. \A a, b \in 1 .. Depth(i) : a # b => f[a] # f[b]
    BY <1>2, <1>3
  <2>. QED
    BY <2>1, <2>2 DEF Bijection, Injection, Surjection, IsInjective
<1>5. Cardinality(X) = Depth(i)
  <2>. HIDE DEF X, f
  <2>1. ExistsBijection(1 .. Depth(i), X)
    BY <1>4 DEF ExistsBijection
  <2>. QED
    BY <1>1, <2>1, FS_Bijection
<1>6. i \notin X
  <2>1. 0 \in 0 .. Depth(i) /\ Ancestor[0][i] = i
    BY <1>1, Ancestors
  <2>2. \A k \in 1 .. Depth(i) : k # 0
    BY <1>1
  <2>. QED
    BY <1>2, <1>3, <2>1, <2>2
<1>. QED
  BY <1>5, <1>6, AboveIs
-----------------------------------------------------------------------------
\* The time of the spans below one is a number.
LEMMA TimeBelowType ==
  ASSUME Spanned, NEW i \in Ids
  PROVE  TimeBelow(i) \in Nat
<1>. DEFINE A == Children(i)
            F == [j \in A |-> spans[j].duration]
            W(g) == g = [t \in SUBSET A |-> IF t = {} THEN 0
                                            ELSE LET j == Some(t) IN spans[j].duration + g[t \ {j}]]
<1>1. IsFiniteSet(A) /\ F \in [A -> Nat]
  <2>1. A \in SUBSET Ids /\ IsFiniteSet(Ids) /\ \A j \in Ids : spans[j].duration \in Nat
    BY SpansShape DEF Children
  <2>2. IsFiniteSet(A)
    BY <2>1, FS_Subset
  <2>. QED
    BY <2>1, <2>2
<1>2. TimeBelow(i) = (CHOOSE g : W(g))[A]
  BY Zenon DEF TimeBelow, MapThenSumSet, MapThenFoldSet, Some
<1>3. \A g : W(g) <=> Adds(g, F, A)
  <2>. TAKE g
  <2>1. \A t \in SUBSET A : t # {} => Some(t) \in A
    BY DEF Some
  <2>2. \A t \in SUBSET A : (IF t = {} THEN 0 ELSE LET j == Some(t) IN spans[j].duration + g[t \ {j}])
                             = IF t = {} THEN 0 ELSE F[Some(t)] + g[t \ {Some(t)}]
    BY <2>1
  <2>. QED
    BY <2>2 DEF Adds
<1>4. PICK h : Adds(h, F, A)
  BY <1>1, SumsExist
<1>5. W(CHOOSE g : W(g))
  BY <1>3, <1>4
<1>. DEFINE k == CHOOSE g : W(g)
<1>6. Adds(k, F, A)
  BY <1>3, <1>5
<1>7. TimeBelow(i) = k[A]
  BY <1>2
<1>. HIDE DEF k, F, A
<1>8. k[A] \in Nat
  BY <1>1, <1>6, SumOfIs
<1>. QED
  BY <1>7, <1>8

LEMMA RootIs ==
  ASSUME Spanned, Ids # {}
  PROVE  Root \in Ids
<1>. DEFINE tops == {i \in Ids : spans[i].parent = 0}
<1>1. Ids = 1 .. Len(spans) /\ Len(spans) \in Nat
  BY SpansShape
<1>2. Root = IF tops = {} THEN 1 ELSE Min(tops)
  BY DEF Root
<1>3. CASE tops = {}
  BY <1>1, <1>2, <1>3
<1>4. CASE tops # {}
  <2>1. tops \subseteq Nat /\ tops \subseteq Ids
    BY <1>1
  <2>. HIDE DEF tops
  <2>2. \E m \in tops : \A k \in tops : m <= k
    BY <1>4, <2>1, LeastNumber
  <2>3. Min(tops) \in tops
    BY <2>2 DEF Min
  <2>. QED
    BY <1>2, <1>4, <2>1, <2>3
<1>. QED
  BY <1>3, <1>4

\* The time a span has by itself bears out its share, but for a root without any.
LEMMA SelfIs ==
  ASSUME Spanned, NEW i \in Ids
  PROVE  /\ Self(i) <= spans[i].duration
         /\ Self(i) * SHARE >= spans[Root].duration => Owns(i) \/ spans[Root].duration = 0
         /\ Owns(i) => Self(i) * SHARE >= spans[Root].duration
<1>. DEFINE d == spans[i].duration
            b == TimeBelow(i)
            r == spans[Root].duration
<1>1. d \in Nat /\ b \in Nat /\ r \in Nat /\ SHARE \in Nat /\ SHARE # 0
  BY TimeBelowType, SpansShape, RootIs, TracesAssumption
<1>2. Self(i) = Max({0, d - b})
  BY DEF Self
<1>3. Owns(i) <=> d * SHARE >= r + SHARE * b
  BY DEF Owns
<1>. HIDE DEF d, b, r
<1>4. Self(i) = IF d < b THEN 0 ELSE d - b
  <2>1. d - b \in Int
    BY <1>1
  <2>2. \A x \in Int : Max({0, x}) = IF x < 0 THEN 0 ELSE x
    <3>. TAKE x \in Int
    <3>1. CASE x < 0
      BY <3>1 DEF Max
    <3>2. CASE ~(x < 0)
      BY <3>2 DEF Max
    <3>. QED
      BY <3>1, <3>2
  <2>3. Max({0, d - b}) = IF d - b < 0 THEN 0 ELSE d - b
    BY <2>1, <2>2
  <2>4. d - b < 0 <=> d < b
    BY <1>1
  <2>. QED
    BY <1>2, <2>3, <2>4
<1>5. d * SHARE \in Nat /\ SHARE * b \in Nat /\ b * SHARE \in Nat /\ SHARE * b = b * SHARE
  BY <1>1, SMTT(20)
<1>6. CASE d < b
  <2>1. Self(i) = 0
    BY <1>4, <1>6
  <2>2. 0 * SHARE = 0
    BY <1>1
  <2>3. d * SHARE <= b * SHARE
    BY <1>1, <1>6, Product
  <2>. QED
    BY <1>1, <1>3, <1>5, <2>1, <2>2, <2>3 DEF d, r
<1>7. CASE ~(d < b)
  <2>1. Self(i) = d - b /\ d - b \in Nat /\ (d - b) + b = d
    BY <1>1, <1>4, <1>7
  <2>2. d * SHARE = (d - b) * SHARE + b * SHARE /\ (d - b) * SHARE \in Nat
    BY <1>1, <2>1, Product
  <2>3. (d - b) * SHARE >= r <=> d * SHARE >= r + SHARE * b
    BY <1>1, <1>5, <2>2
  <2>4. Self(i) <= d
    BY <1>1, <2>1
  <2>. QED
    BY <1>3, <2>1, <2>3, <2>4 DEF d, r
<1>. QED
  BY <1>6, <1>7
-----------------------------------------------------------------------------
\* What a trace says, of any spans and any list.
BelowOf(sp, i) == MapThenSumSet(LAMBDA j : sp[j].duration, {j \in DOMAIN sp : sp[j].parent = i})
RootOf(sp) == LET tops == {i \in DOMAIN sp : sp[i].parent = 0} IN IF tops = {} THEN 1 ELSE Min(tops)
OwnsOf(sp, i) == sp[i].duration * SHARE >= sp[RootOf(sp)].duration + SHARE * BelowOf(sp, i)
AboveOf(sp, i) ==
  LET closed(B) == \A j \in B \cup {i} : sp[j].parent \in B \cup {0}
  IN  CHOOSE A \in SUBSET DOMAIN sp : closed(A) /\ \A B \in SUBSET DOMAIN sp : closed(B) => A \subseteq B

Says(sp, ls) ==
  /\ \A k \in DOMAIN ls :
       /\ ls[k].depth = Cardinality(AboveOf(sp, ls[k].span)) /\ ls[k].span \notin AboveOf(sp, ls[k].span)
       /\ \A l \in 1 .. k - 1 : sp[ls[l].span].start <= sp[ls[k].span].start
       /\ ls[k].self <= sp[ls[k].span].duration
       /\ \/ OwnsOf(sp, ls[k].span) \/ sp[ls[k].span].error \/ sp[RootOf(sp)].duration = 0
          \/ \A j \in DOMAIN sp : sp[ls[k].span].start <= sp[j].start
  /\ \A i \in DOMAIN sp \ {ls[k].span : k \in DOMAIN ls} :
       \/ ~sp[i].error /\ ~OwnsOf(sp, i)
       \/ Len(ls) = SPAN_CAP /\ \A k \in DOMAIN ls : sp[ls[k].span].start <= sp[i].start

LEMMA OfSpans ==
  /\ \A i : AboveOf(spans, i) = Above(i)
  /\ \A i : BelowOf(spans, i) = TimeBelow(i)
  /\ RootOf(spans) = Root
  /\ \A i : OwnsOf(spans, i) <=> Owns(i)
<1>1. \A i : AboveOf(spans, i) = Above(i)
  BY Zenon DEF AboveOf, Above, Ids
<1>2. \A i : BelowOf(spans, i) = TimeBelow(i)
  BY Zenon DEF BelowOf, TimeBelow, Children, Ids
<1>3. RootOf(spans) = Root
  BY Zenon DEF RootOf, Root, Ids
<1>4. \A i : OwnsOf(spans, i) <=> Owns(i)
  BY <1>2, <1>3, Zenon DEF OwnsOf, Owns
<1>. QED
  BY <1>1, <1>2, <1>3, <1>4

TraceInv == Spanned /\ traced \in {"none", "error", "listed"} /\ (traced = "listed" => Says(spans, listed))

\* The list that is told of spans without a cycle.
Kept == {k \in Ids : Matters(InOrder[k], k)}

LEMMA ListSays ==
  ASSUME Spanned, ~Cyclic, spans # <<>>, NEW ls,
         ls = [n \in 1 .. Min({Cardinality(Kept), SPAN_CAP}) |->
                 [span |-> InOrder[Nth(Kept, n)], self |-> Self(InOrder[Nth(Kept, n)]),
                  depth |-> Depth(InOrder[Nth(Kept, n)])]]
  PROVE  Says(spans, ls)
<1>. DEFINE L == Min({Cardinality(Kept), SPAN_CAP})
            at(n) == InOrder[Nth(Kept, n)]
<1>1. /\ Len(spans) \in Nat /\ Ids = 1 .. Len(spans) /\ IsFiniteSet(Ids) /\ 1 \in Ids
      /\ \A i \in Ids : i \in Nat /\ spans[i].start \in Int
  <2>1. /\ Len(spans) \in Nat /\ Ids = 1 .. Len(spans) /\ IsFiniteSet(Ids)
        /\ \A i \in Ids : i \in Nat /\ spans[i].start \in Int
    BY SpansShape
  <2>2. Len(spans) # 0
    <3>1. PICK n \in Nat : spans \in [1 .. n -> Span(n)]
      BY DEF Spanned
    <3>2. spans \in Seq(Span(n))
      BY <3>1
    <3>. QED
      BY <3>2
  <2>. QED
    BY <2>1, <2>2
<1>2. Root \in Ids
  BY <1>1, RootIs
<1>3. Kept \in SUBSET Ids /\ Kept \in SUBSET Nat /\ IsFiniteSet(Kept)
  <2>1. Kept \in SUBSET Ids
    BY DEF Kept
  <2>2. IsFiniteSet(Kept)
    BY <1>1, <2>1, FS_Subset
  <2>. QED
    BY <1>1, <2>1, <2>2
<1>4. /\ Cardinality(Kept) \in Nat
      /\ \A n \in 1 .. Cardinality(Kept) : Nth(Kept, n) \in Kept
      /\ \A m, n \in 1 .. Cardinality(Kept) : m <= n => Nth(Kept, m) <= Nth(Kept, n)
      /\ \A k \in Kept : \E n \in 1 .. Cardinality(Kept) : Nth(Kept, n) = k
  BY <1>3, NthOnes
<1>5. L \in Nat /\ L <= Cardinality(Kept) /\ (L = Cardinality(Kept) \/ L = SPAN_CAP)
  BY <1>4, TracesAssumption DEF Min
<1>. HIDE DEF L
<1>6. DOMAIN ls = 1 .. L /\ Len(ls) = L
  BY <1>5 DEF L
<1>7. \A n \in 1 .. L : ls[n].span = at(n) /\ ls[n].self = Self(at(n)) /\ ls[n].depth = Depth(at(n))
  BY DEF L
<1>8. \A n \in 1 .. Cardinality(Kept) : Nth(Kept, n) \in Ids /\ Matters(at(n), Nth(Kept, n)) /\ at(n) \in Ids
  BY <1>4, OrderOfSpans DEF Kept
<1>9. \A n \in 1 .. L : n \in 1 .. Cardinality(Kept)
  BY <1>4, <1>5
<1>10. ASSUME NEW m \in 1 .. Cardinality(Kept), NEW n \in 1 .. Cardinality(Kept), m <= n
       PROVE  spans[at(m)].start <= spans[at(n)].start
  <2>1. Nth(Kept, m) <= Nth(Kept, n)
    BY <1>4, <1>10
  <2>2. Nth(Kept, m) \in Ids /\ Nth(Kept, n) \in Ids
    BY <1>8
  <2>. QED
    BY <2>1, <2>2, OrderOfSpans
<1>. HIDE DEF at
<1>11. ASSUME NEW n \in 1 .. L
       PROVE  /\ Depth(at(n)) = Cardinality(Above(at(n))) /\ at(n) \notin Above(at(n))
              /\ \A l \in 1 .. n - 1 : spans[at(l)].start <= spans[at(n)].start
              /\ Self(at(n)) <= spans[at(n)].duration
              /\ \/ Owns(at(n)) \/ spans[at(n)].error \/ spans[Root].duration = 0
                 \/ \A j \in Ids : spans[at(n)].start <= spans[j].start
  <2>1. n \in 1 .. Cardinality(Kept) /\ at(n) \in Ids /\ Matters(at(n), Nth(Kept, n)) /\ Nth(Kept, n) \in Ids
    BY <1>8, <1>9
  <2>2. Depth(at(n)) = Cardinality(Above(at(n))) /\ at(n) \notin Above(at(n))
    BY <2>1, DepthsBorneOut
  <2>3. ASSUME NEW l \in 1 .. n - 1
        PROVE  spans[at(l)].start <= spans[at(n)].start
    <3>1. n \in Nat /\ Cardinality(Kept) \in Nat
      BY <1>4, <2>1
    <3>2. l \in 1 .. Cardinality(Kept) /\ l <= n
      BY <2>1, <3>1
    <3>. QED
      BY <1>10, <2>1, <3>2
  <2>4. /\ Self(at(n)) <= spans[at(n)].duration
        /\ Self(at(n)) * SHARE >= spans[Root].duration => Owns(at(n)) \/ spans[Root].duration = 0
    BY <2>1, SelfIs
  <2>5. CASE Nth(Kept, n) = 1
    <3>1. at(n) = InOrder[1]
      BY <2>5 DEF at
    <3>2. ASSUME NEW j \in Ids
          PROVE  spans[at(n)].start <= spans[j].start
      <4>1. PICK k \in Ids : InOrder[k] = j
        BY OrderOfSpans
      <4>2. 1 <= k
        BY <1>1
      <4>3. spans[InOrder[1]].start <= spans[InOrder[k]].start
        BY <1>1, <4>2, OrderOfSpans
      <4>. QED
        BY <3>1, <4>1, <4>3
    <3>. QED
      BY <2>2, <2>3, <2>4, <3>2
  <2>6. CASE Nth(Kept, n) # 1
    <3>1. Self(at(n)) * SHARE >= spans[Root].duration \/ spans[at(n)].error
      BY <2>1, <2>6 DEF Matters
    <3>. QED
      BY <2>2, <2>3, <2>4, <3>1
  <2>. QED
    BY <2>5, <2>6
<1>12. ASSUME NEW i \in Ids, \A n \in 1 .. L : at(n) # i
       PROVE  \/ ~spans[i].error /\ ~Owns(i)
              \/ L = SPAN_CAP /\ \A n \in 1 .. L : spans[at(n)].start <= spans[i].start
  <2>1. SUFFICES ASSUME spans[i].error \/ Owns(i)
                 PROVE  L = SPAN_CAP /\ \A n \in 1 .. L : spans[at(n)].start <= spans[i].start
    OBVIOUS
  <2>2. PICK k \in Ids : InOrder[k] = i
    BY OrderOfSpans
  <2>3. Matters(i, k)
    <3>1. Owns(i) => Self(i) * SHARE >= spans[Root].duration
      BY SelfIs
    <3>. QED
      BY <2>1, <3>1 DEF Matters
  <2>4. k \in Kept
    BY <2>2, <2>3 DEF Kept
  <2>5. PICK n \in 1 .. Cardinality(Kept) : Nth(Kept, n) = k
    BY <1>4, <2>4
  <2>6. at(n) = i
    BY <2>2, <2>5 DEF at
  <2>7. n \notin 1 .. L
    BY <1>12, <2>6
  <2>8. n \in Nat /\ n > L /\ n <= Cardinality(Kept)
    BY <1>4, <1>5, <2>7
  <2>9. L = SPAN_CAP
    BY <1>4, <1>5, <2>8
  <2>10. ASSUME NEW m \in 1 .. L
         PROVE  spans[at(m)].start <= spans[i].start
    <3>1. m \in 1 .. Cardinality(Kept) /\ m <= n
      BY <1>4, <1>5, <2>8
    <3>. QED
      BY <1>10, <2>6, <3>1
  <2>. QED
    BY <2>9, <2>10
<1>13. \A k \in DOMAIN ls :
         /\ ls[k].depth = Cardinality(AboveOf(spans, ls[k].span)) /\ ls[k].span \notin AboveOf(spans, ls[k].span)
         /\ \A l \in 1 .. k - 1 : spans[ls[l].span].start <= spans[ls[k].span].start
         /\ ls[k].self <= spans[ls[k].span].duration
         /\ \/ OwnsOf(spans, ls[k].span) \/ spans[ls[k].span].error \/ spans[RootOf(spans)].duration = 0
            \/ \A j \in DOMAIN spans : spans[ls[k].span].start <= spans[j].start
  <2>. TAKE k \in DOMAIN ls
  <2>1. k \in 1 .. L /\ ls[k].span = at(k) /\ ls[k].self = Self(at(k)) /\ ls[k].depth = Depth(at(k))
    BY <1>6, <1>7
  <2>2. /\ AboveOf(spans, at(k)) = Above(at(k)) /\ (OwnsOf(spans, at(k)) <=> Owns(at(k)))
        /\ RootOf(spans) = Root /\ DOMAIN spans = Ids
    BY OfSpans DEF Ids
  <2>3. /\ Depth(at(k)) = Cardinality(Above(at(k))) /\ at(k) \notin Above(at(k))
        /\ \A l \in 1 .. k - 1 : spans[at(l)].start <= spans[at(k)].start
        /\ Self(at(k)) <= spans[at(k)].duration
        /\ \/ Owns(at(k)) \/ spans[at(k)].error \/ spans[Root].duration = 0
           \/ \A j \in Ids : spans[at(k)].start <= spans[j].start
    BY <1>11, <2>1
  <2>4. \A l \in 1 .. k - 1 : ls[l].span = at(l)
    <3>1. \A l \in 1 .. k - 1 : l \in 1 .. L
      BY <1>5, <2>1
    <3>. QED
      BY <1>7, <3>1
  <2>5. \A l \in 1 .. k - 1 : spans[ls[l].span].start <= spans[ls[k].span].start
    BY <2>1, <2>3, <2>4
  <2>. QED
    BY <2>1, <2>2, <2>3, <2>5
<1>14. \A i \in DOMAIN spans \ {ls[k].span : k \in DOMAIN ls} :
         \/ ~spans[i].error /\ ~OwnsOf(spans, i)
         \/ Len(ls) = SPAN_CAP /\ \A k \in DOMAIN ls : spans[ls[k].span].start <= spans[i].start
  <2>. TAKE i \in DOMAIN spans \ {ls[k].span : k \in DOMAIN ls}
  <2>1. i \in Ids /\ (OwnsOf(spans, i) <=> Owns(i))
    BY OfSpans DEF Ids
  <2>2. \A n \in 1 .. L : at(n) # i
    BY <1>6, <1>7
  <2>3. \/ ~spans[i].error /\ ~Owns(i)
        \/ L = SPAN_CAP /\ \A n \in 1 .. L : spans[at(n)].start <= spans[i].start
    BY <1>12, <2>1, <2>2
  <2>4. L = SPAN_CAP /\ (\A n \in 1 .. L : spans[at(n)].start <= spans[i].start) =>
          Len(ls) = SPAN_CAP /\ \A k \in DOMAIN ls : spans[ls[k].span].start <= spans[i].start
    BY <1>6, <1>7
  <2>. QED
    BY <2>1, <2>3, <2>4
<1>. QED
  BY <1>13, <1>14 DEF Says

LEMMA TraceStart == TracesIdle \/ TracesInit => TraceInv
<1>1. TracesIdle => Spanned
  BY 0 \in Nat, 1 .. 0 = {} DEF TracesIdle, Spanned
<1>2. TracesInit => Spanned
  BY TracesAssumption DEF TracesInit, Spanned
<1>. QED
  BY <1>1, <1>2 DEF TracesIdle, TracesInit, TraceInv

LEMMA TraceStep == TraceInv /\ [Trace]_traceVars => TraceInv'
<1>. SUFFICES ASSUME TraceInv, [Trace]_traceVars
              PROVE  TraceInv'
  OBVIOUS
<1>1. CASE UNCHANGED traceVars
  <2>1. spans' = spans /\ traced' = traced /\ listed' = listed
    BY <1>1 DEF traceVars
  <2>. QED
    BY <2>1 DEF TraceInv, Spanned
<1>2. CASE Trace
  <2>1. spans' = spans /\ spans # <<>> /\ Spanned /\ Spanned'
    BY <1>2 DEF Trace, TraceInv, Spanned
  <2>2. CASE Cyclic
    <3>1. traced' = "error"
      BY <1>2, <2>2 DEF Trace
    <3>. QED
      BY <2>1, <3>1 DEF TraceInv
  <2>3. CASE ~Cyclic
    <3>1. /\ traced' = "listed"
          /\ listed' = [n \in 1 .. Min({Cardinality(Kept), SPAN_CAP}) |->
                          [span |-> InOrder[Nth(Kept, n)], self |-> Self(InOrder[Nth(Kept, n)]),
                           depth |-> Depth(InOrder[Nth(Kept, n)])]]
      BY <1>2, <2>3, Zenon DEF Trace, Kept
    <3>2. Says(spans, listed')
      BY <2>1, <2>3, <3>1, ListSays
    <3>. QED
      BY <2>1, <3>1, <3>2 DEF TraceInv
  <2>. QED
    BY <2>2, <2>3
<1>. QED
  BY <1>1, <1>2

LEMMA TraceBorneOut == TraceInv => TraceExact
<1>. SUFFICES ASSUME TraceInv, traced = "listed"
              PROVE  TraceExact
  BY DEF TraceExact
<1>1. Says(spans, listed) /\ DOMAIN spans = Ids /\ RootOf(spans) = Root
  BY OfSpans DEF TraceInv, Ids
<1>2. ListedSpans = {listed[k].span : k \in DOMAIN listed}
  BY DEF ListedSpans
<1>3. \A i : AboveOf(spans, i) = Above(i)
  BY OfSpans
<1>4. \A i : OwnsOf(spans, i) <=> Owns(i)
  BY OfSpans
<1>5. \A k \in DOMAIN listed :
        /\ listed[k].depth = Cardinality(Above(listed[k].span)) /\ listed[k].span \notin Above(listed[k].span)
        /\ \A l \in 1 .. k - 1 : spans[listed[l].span].start <= spans[listed[k].span].start
        /\ listed[k].self <= spans[listed[k].span].duration
        /\ \/ Owns(listed[k].span) \/ spans[listed[k].span].error \/ spans[Root].duration = 0
           \/ \A j \in Ids : spans[listed[k].span].start <= spans[j].start
  BY <1>1, <1>3, <1>4 DEF Says
<1>6. \A i \in Ids \ ListedSpans :
        \/ ~spans[i].error /\ ~Owns(i)
        \/ Len(listed) = SPAN_CAP /\ \A j \in ListedSpans : spans[j].start <= spans[i].start
  BY <1>1, <1>2, <1>4 DEF Says
<1>. QED
  BY <1>5, <1>6, Zenon DEF TraceExact

\* What a trace lists stands in order at the depth of its ancestors, and what it leaves
\* out is no error and no span with time of its own unless the list is full of earlier
\* ones, for every trace, every share and every cap (datadog 283-308).
THEOREM TracesAreExact == ToolsSpec => []TraceExact
<1>1. ToolsInit => TraceInv
  BY TraceStart DEF ToolsInit
<1>2. TraceInv /\ [ToolsNext]_toolVars => TraceInv'
  BY TraceStep DEF ToolsNext, toolVars
<1>. QED
  BY <1>1, <1>2, TraceBorneOut, PTL DEF ToolsSpec
=============================================================================
