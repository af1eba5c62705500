-------------------------- MODULE ProbeClientProofs --------------------------
(***************************************************************************)
(* Safety of the probe client's negative cache, for any number of calls    *)
(* and probes and any durations.                                           *)
(***************************************************************************)
EXTENDS ProbeClient, TLAPS

LEMMA IdleOrFlight ==
  ASSUME TypeOK, NEW c \in Calls, Flying(c)
  PROVE  calls[c] \in Flight
BY DEF TypeOK, Flying, Idle

LEMMA SentType ==
  ASSUME TypeOK, NEW b \in Bases, NEW p \in Paths
  PROVE  Sent(b, p) \in Flight
<1>1. up[b] \in BOOLEAN
  BY DEF TypeOK
<1>. QED
  BY <1>1, Zenon DEF Sent, Flight

LEMMA InitType == Init => TypeOK
BY TimesAssumption DEF Init, TypeOK, Idle

LEMMA EndType ==
  ASSUME TypeOK, NEW c \in Calls, NEW how \in {"ok", "unavailable"}, End(c, how)
  PROVE  /\ calls' \in [Calls -> {Idle} \cup Flight]
         /\ result' \in [Calls -> {"none", "ok", "unavailable"}]
         /\ UNCHANGED <<up, jvm>>
BY DEF End, TypeOK

LEMMA SendType ==
  ASSUME TypeOK, NEW c \in Calls, NEW b \in Bases, NEW p \in Paths, Send(c, b, p)
  PROVE  TypeOK'
<1>1. Sent(b, p) \in Flight
  BY SentType
<1>2. calls' \in [Calls -> {Idle} \cup Flight]
  BY <1>1 DEF Send, TypeOK
<1>. QED
  BY <1>2 DEF Send, TypeOK

LEMMA OkType ==
  ASSUME TypeOK, NEW c \in Calls, Ok(c)
  PROVE  TypeOK'
<1>. DEFINE b == calls[c].base
            entry == [was |-> "ok", since |-> 0]
<1>1. b \in Bases /\ calls[c].clean \in BOOLEAN
  <2>1. calls[c] \in Flight
    BY IdleOrFlight DEF Ok, Answerable
  <2>. QED
    BY <2>1 DEF Flight
<1>2. End(c, "ok") /\ until' = [until EXCEPT ![b] = 0] /\ past' = [past EXCEPT ![b] = entry]
  BY DEF Ok
<1>3. entry \in [was : {"none", "ok", "failed"}, since : 0 .. NEGATIVE_CACHE]
  BY <1>1, TimesAssumption
<1>4. until' \in [Bases -> 0 .. NEGATIVE_CACHE]
  <2>1. 0 \in 0 .. NEGATIVE_CACHE /\ NEGATIVE_CACHE \in 0 .. NEGATIVE_CACHE
    BY TimesAssumption
  <2>2. until \in [Bases -> 0 .. NEGATIVE_CACHE]
    BY DEF TypeOK
  <2>. QED
    BY <1>1, <1>2, <2>1, <2>2
<1>5. past' \in [Bases -> [was : {"none", "ok", "failed"}, since : 0 .. NEGATIVE_CACHE]]
  BY <1>2, <1>3 DEF TypeOK
<1>. QED
  BY <1>2, <1>4, <1>5, EndType DEF TypeOK

\* What the catch of get() leaves behind.
LEMMA UnreachableType ==
  ASSUME TypeOK, NEW c \in Calls, Flying(c), Unreachable(c)
  PROVE  TypeOK'
<1>. DEFINE b == calls[c].base
            entry == [was |-> "failed", since |-> 0]
<1>1. b \in Bases /\ calls[c].clean \in BOOLEAN
  BY IdleOrFlight DEF Flight
<1>2. /\ End(c, "unavailable") /\ until' = [until EXCEPT ![b] = NEGATIVE_CACHE]
      /\ past' = [past EXCEPT ![b] = entry]
  BY DEF Unreachable
<1>3. entry \in [was : {"none", "ok", "failed"}, since : 0 .. NEGATIVE_CACHE]
  BY <1>1, TimesAssumption
<1>4. until' \in [Bases -> 0 .. NEGATIVE_CACHE]
  <2>1. 0 \in 0 .. NEGATIVE_CACHE /\ NEGATIVE_CACHE \in 0 .. NEGATIVE_CACHE
    BY TimesAssumption
  <2>2. until \in [Bases -> 0 .. NEGATIVE_CACHE]
    BY DEF TypeOK
  <2>. QED
    BY <1>1, <1>2, <2>1, <2>2
<1>5. past' \in [Bases -> [was : {"none", "ok", "failed"}, since : 0 .. NEGATIVE_CACHE]]
  BY <1>2, <1>3 DEF TypeOK
<1>. QED
  BY <1>2, <1>4, <1>5, EndType DEF TypeOK

LEMMA ReachType ==
  ASSUME TypeOK, NEW b \in Bases, Reach(b)
  PROVE  TypeOK'
<1>1. up' \in [Bases -> BOOLEAN]
  BY Zenon DEF Reach, TypeOK
<1>2. ASSUME NEW c \in Calls
      PROVE  calls'[c] \in {Idle} \cup Flight
  <2>1. calls'[c] \in {calls[c], [calls[c] EXCEPT !.clean = FALSE]}
        /\ (calls'[c] = calls[c] \/ Flying(c))
    BY DEF Reach
  <2>2. CASE Flying(c)
    <3>1. calls[c] \in Flight
      BY <2>2, IdleOrFlight
    <3>2. [calls[c] EXCEPT !.clean = FALSE] \in Flight
      BY <3>1 DEF Flight
    <3>. QED
      BY <2>1, <3>1, <3>2
  <2>3. CASE calls'[c] = calls[c]
    BY <2>3 DEF TypeOK
  <2>. QED
    BY <2>1, <2>2, <2>3
<1>3. calls' \in [Calls -> {Idle} \cup Flight]
  BY <1>2 DEF Reach
<1>. QED
  BY <1>1, <1>3 DEF Reach, TypeOK

LEMMA TickType ==
  ASSUME TypeOK, Tick
  PROVE  TypeOK'
<1>1. ASSUME NEW c \in Calls
      PROVE  calls'[c] \in {Idle} \cup Flight
  <2>1. CASE Flying(c)
    <3>1. calls[c] \in Flight
      BY <2>1, IdleOrFlight
    <3>2. [calls[c] EXCEPT !.age = @ + 1] \in Flight
      BY <3>1 DEF Flight
    <3>. QED
      BY <2>1, <3>2 DEF Tick
  <2>2. CASE ~Flying(c)
    BY <2>2 DEF Tick, TypeOK
  <2>. QED
    BY <2>1, <2>2
<1>2. calls' \in [Calls -> {Idle} \cup Flight]
  BY <1>1 DEF Tick
<1>3. until' \in [Bases -> 0 .. NEGATIVE_CACHE]
  BY TimesAssumption DEF Tick, TypeOK
<1>. DEFINE Past == [was : {"none", "ok", "failed"}, since : 0 .. NEGATIVE_CACHE]
<1>4. past' \in [Bases -> Past]
  <2>1. ASSUME NEW b \in Bases
        PROVE  [past[b] EXCEPT !.since = IF @ < NEGATIVE_CACHE THEN @ + 1 ELSE @] \in Past
    <3>1. past[b] \in Past
      BY DEF TypeOK
    <3>2. PICK n \in 0 .. NEGATIVE_CACHE :
            n = IF past[b].since < NEGATIVE_CACHE THEN past[b].since + 1 ELSE past[b].since
      BY <3>1, TimesAssumption
    <3>. QED
      BY <3>1, <3>2
  <2>. QED
    BY <2>1 DEF Tick
<1>. QED
  BY <1>2, <1>3, <1>4 DEF Tick, TypeOK

LEMMA NextType == TypeOK /\ [Next]_vars => TypeOK'
<1>. SUFFICES ASSUME TypeOK, [Next]_vars
              PROVE  TypeOK'
  OBVIOUS
<1>1. ASSUME NEW c \in Calls, NEW b \in Bases, FailFast(c, b)
      PROVE  TypeOK'
  BY <1>1 DEF FailFast, TypeOK
<1>2. ASSUME NEW c \in Calls, HttpError(c)
      PROVE  TypeOK'
  BY <1>2, EndType DEF HttpError, TypeOK
<1>3. ASSUME NEW b \in Bases, Jvm(b)
      PROVE  TypeOK'
  <2>1. jvm' \in [Bases -> BOOLEAN]
    BY <1>3, Zenon DEF Jvm, TypeOK
  <2>. QED
    BY <1>3, <2>1 DEF Jvm, TypeOK
<1>4. ASSUME NEW c \in Calls, Refused(c) \/ Abort(c)
      PROVE  TypeOK'
  BY <1>4, UnreachableType DEF Refused, Abort
<1>5. CASE UNCHANGED vars
  BY <1>5 DEF vars, TypeOK
<1>. QED
  BY <1>1, <1>2, <1>3, <1>4, <1>5, SendType, OkType, ReachType, TickType DEF Next

\* The client's state keeps its types; in particular no cache entry ever
\* reaches further than NEGATIVE_CACHE ahead.
THEOREM TypeCorrect == Spec => []TypeOK
BY InitType, NextType, PTL DEF Spec
-----------------------------------------------------------------------------
(***************************************************************************)
(* The cache tells the age of the latest failure.  Both properties are     *)
(* inductive once the types are known.                                     *)
(***************************************************************************)

CacheInv == TypeOK /\ CacheExact /\ WindowRespected

\* What a step does to one base.
Entry(b) == until[b] = IF past[b].was = "failed" THEN NEGATIVE_CACHE - past[b].since ELSE 0

LEMMA CacheInit == Init => CacheInv
BY InitType DEF Init, CacheInv, CacheExact, WindowRespected, InFlight, Flying, Idle

LEMMA CacheStep == CacheInv /\ [Next]_vars => CacheExact'
<1>. SUFFICES ASSUME CacheInv, [Next]_vars, NEW b \in Bases
              PROVE  Entry(b)'
  BY DEF CacheExact, Entry
<1>1. TypeOK /\ Entry(b)
  BY DEF CacheInv, CacheExact, Entry
<1>2. /\ past[b].since \in 0 .. NEGATIVE_CACHE /\ until[b] \in 0 .. NEGATIVE_CACHE
      /\ NEGATIVE_CACHE \in Nat
  BY <1>1, TimesAssumption DEF TypeOK
<1>3. CASE UNCHANGED <<until, past>>
  BY <1>1, <1>3 DEF Entry
<1>4. ASSUME NEW c \in Calls, Ok(c)
      PROVE  Entry(b)'
  <2>1. CASE calls[c].base = b
    BY <1>1, <1>4, <2>1 DEF Ok, Entry, TypeOK
  <2>2. CASE calls[c].base # b
    BY <1>1, <1>4, <2>2 DEF Ok, Entry, TypeOK
  <2>. QED
    BY <2>1, <2>2
<1>5. ASSUME NEW c \in Calls, Unreachable(c)
      PROVE  Entry(b)'
  <2>1. CASE calls[c].base = b
    BY <1>1, <1>2, <1>5, <2>1 DEF Unreachable, Entry, TypeOK
  <2>2. CASE calls[c].base # b
    BY <1>1, <1>5, <2>2 DEF Unreachable, Entry, TypeOK
  <2>. QED
    BY <2>1, <2>2
<1>6. CASE Tick
  <2>1. /\ until'[b] = IF until[b] > 0 THEN until[b] - 1 ELSE 0
        /\ past'[b].was = past[b].was
        /\ past'[b].since = IF past[b].since < NEGATIVE_CACHE THEN past[b].since + 1
                                                              ELSE past[b].since
    BY <1>1, <1>6 DEF Tick, TypeOK
  <2>. QED
    BY <1>1, <1>2, <2>1 DEF Entry
<1>7. CASE \/ \E c \in Calls, d \in Bases : FailFast(c, d)
           \/ \E c \in Calls, d \in Bases, p \in Paths : Send(c, d, p)
           \/ \E c \in Calls : HttpError(c)
           \/ \E d \in Bases : Reach(d) \/ Jvm(d)
           \/ UNCHANGED vars
  BY <1>3, <1>7 DEF FailFast, Send, HttpError, Reach, Jvm, vars
<1>. QED
  BY <1>4, <1>5, <1>6, <1>7 DEF Next, Refused, Abort

\* The same for one call on its way.
Behind(c) ==
  Flying(c) /\ until[calls[c].base] > 0 => calls[c].age >= NEGATIVE_CACHE - until[calls[c].base]

LEMMA BehindStep == CacheInv /\ [Next]_vars => WindowRespected'
<1>. SUFFICES ASSUME CacheInv, [Next]_vars, NEW c \in Calls
              PROVE  Behind(c)'
  BY DEF WindowRespected, InFlight, Behind
<1>1. TypeOK /\ Behind(c)
  BY DEF CacheInv, WindowRespected, InFlight, Behind
<1>2. NEGATIVE_CACHE \in Nat /\ \A b \in Bases : until[b] \in 0 .. NEGATIVE_CACHE
  BY <1>1, TimesAssumption DEF TypeOK
<1>3. Flying(c) => calls[c].base \in Bases /\ calls[c].age \in Nat
  BY <1>1, IdleOrFlight DEF Flight
<1>4. CASE UNCHANGED <<calls, until>>
  BY <1>1, <1>4 DEF Behind, Flying
<1>5. ASSUME NEW d \in Calls, NEW b \in Bases, NEW p \in Paths, Send(d, b, p)
      PROVE  Behind(c)'
  <2>1. CASE c = d
    BY <1>1, <1>5, <2>1 DEF Send, Sent, Behind, TypeOK
  <2>2. CASE c # d
    BY <1>1, <1>5, <2>2 DEF Send, Behind, Flying, TypeOK
  <2>. QED
    BY <2>1, <2>2
<1>6. ASSUME NEW d \in Calls, Flying(d), NEW n, NEW how, End(d, how),
             n \in {0, NEGATIVE_CACHE}, until' = [until EXCEPT ![calls[d].base] = n]
      PROVE  Behind(c)'
  <2>1. CASE c = d
    BY <1>1, <1>6, <2>1 DEF End, Behind, Flying, Idle, TypeOK
  <2>2. CASE c # d
    <3>1. calls'[c] = calls[c]
      BY <1>1, <1>6, <2>2 DEF End, TypeOK
    <3>. SUFFICES ASSUME Flying(c), until'[calls[c].base] > 0
                  PROVE  calls[c].age >= NEGATIVE_CACHE - until'[calls[c].base]
      BY <3>1 DEF Behind, Flying
    <3>2. until'[calls[c].base] \in {n, until[calls[c].base]}
      BY <1>1, <1>3, <1>6 DEF TypeOK
    <3>. QED
      BY <1>1, <1>2, <1>3, <1>6, <3>2 DEF Behind
  <2>. QED
    BY <2>1, <2>2
<1>7. ASSUME NEW d \in Calls, HttpError(d)
      PROVE  Behind(c)'
  <2>1. CASE c = d
    BY <1>1, <1>7, <2>1 DEF HttpError, End, Behind, Flying, Idle, TypeOK
  <2>2. CASE c # d
    BY <1>1, <1>7, <2>2 DEF HttpError, End, Behind, Flying, TypeOK
  <2>. QED
    BY <2>1, <2>2
<1>8. ASSUME NEW b \in Bases, Reach(b)
      PROVE  Behind(c)'
  <2>1. calls'[c] \in {calls[c], [calls[c] EXCEPT !.clean = FALSE]} /\ until' = until
    BY <1>8 DEF Reach
  <2>2. calls'[c] = calls[c] \/ Flying(c)
    BY <1>8 DEF Reach
  <2>3. CASE calls'[c] = calls[c]
    BY <1>1, <2>1, <2>3 DEF Behind, Flying
  <2>4. CASE Flying(c)
    <3>1. calls'[c].base = calls[c].base /\ calls'[c].age = calls[c].age
      BY <1>1, <2>1, <2>4, IdleOrFlight DEF Flight
    <3>. QED
      BY <1>1, <2>1, <2>4, <3>1 DEF Behind
  <2>. QED
    BY <2>2, <2>3, <2>4
<1>9. CASE Tick
  <2>1. CASE ~Flying(c)
    <3>1. calls'[c] = calls[c]
      BY <1>9, <2>1 DEF Tick
    <3>. QED
      BY <2>1, <3>1 DEF Behind, Flying
  <2>2. CASE Flying(c)
    <3>. DEFINE b == calls[c].base
    <3>1. calls[c] \in Flight
      BY <1>1, <2>2, IdleOrFlight
    <3>2. calls'[c].base = b /\ calls'[c].age = calls[c].age + 1
      BY <1>9, <2>2, <3>1 DEF Tick, Flight
    <3>3. until'[b] = IF until[b] > 0 THEN until[b] - 1 ELSE 0
      BY <1>3, <1>9, <2>2 DEF Tick
    <3>. QED
      BY <1>1, <1>2, <1>3, <2>2, <3>2, <3>3 DEF Behind
  <2>. QED
    BY <2>1, <2>2
<1>10. CASE \/ \E d \in Calls, b \in Bases : FailFast(d, b)
            \/ \E b \in Bases : Jvm(b)
            \/ UNCHANGED vars
  BY <1>4, <1>10 DEF FailFast, Jvm, vars
<1>. QED
  BY <1>5, <1>6, <1>7, <1>8, <1>9, <1>10 DEF Next, Ok, Answerable, Refused, Abort, Unreachable

LEMMA CacheInvariant == Spec => []CacheInv
<1>1. CacheInv /\ [Next]_vars => CacheInv'
  BY NextType, CacheStep, BehindStep DEF CacheInv
<1>. QED
  BY <1>1, CacheInit, PTL DEF Spec

\* A base is cached exactly while its latest result that bears on the cache is
\* a failure less than NEGATIVE_CACHE ago (client.ts:62-68).
THEOREM CacheIsExact == Spec => []CacheExact
<1>1. CacheInv => CacheExact
  BY DEF CacheInv
<1>. QED
  BY <1>1, CacheInvariant, PTL

\* No call is sent to a base inside its window (client.ts:46).
THEOREM WindowIsRespected == Spec => []WindowRespected
<1>1. CacheInv => WindowRespected
  BY DEF CacheInv
<1>. QED
  BY <1>1, CacheInvariant, PTL
=============================================================================
