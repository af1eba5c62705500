--------------------------- MODULE RumClientProofs ---------------------------
(***************************************************************************)
(* Safety of the browser client for every batch size, every set of metrics *)
(* and every order of callbacks, calls and answers of beforeSend; and of   *)
(* its beacons on their way to the probe, for every limit of the handler.  *)
(*                                                                         *)
(* The flush builds its events in steps: an event is pushed, the vitals    *)
(* are drained behind it, everything is handed over.  The invariant is     *)
(* therefore a predicate on what a flush has in hand, not on the           *)
(* variables.                                                              *)
(***************************************************************************)
EXTENDS RumDelivery, FiniteSetTheorems, FunctionTheorems, TLAPS

VitalsOf(k, S) == {e \in S : e.type = "vital" /\ e.key = k}

LatestOf(k, S) == {e \in VitalsOf(k, S) : \A f \in VitalsOf(k, S) : f.n <= e.n}

\* The numbers 1 to n are those of the events in b, s and d, which share none.
Placed(b, s, d, n) ==
  /\ b \cap s = {} /\ b \cap d = {} /\ s \cap d = {}
  /\ {e.n : e \in b \cup s \cup d} = 1 .. n

\* What the Map of a metric says of the vitals that were made of it.
Tracked(S, lat, k) ==
  /\ lat[k].value = 0 => lat[k].sent = 0
  /\ lat[k].sent = 0 <=> VitalsOf(k, S) = {}
  /\ VitalsOf(k, S) # {} => LatestOf(k, S) # {}
  /\ \A e \in LatestOf(k, S) : e.value = lat[k].sent
  /\ \A e \in VitalsOf(k, S) : e.route = lat[k].route
  /\ \A e, f \in VitalsOf(k, S) :
       e.n < f.n /\ (\A g \in VitalsOf(k, S) : ~(e.n < g.n /\ g.n < f.n)) => e.value # f.value

Typed(b, s, d, lat, n) ==
  /\ b \subseteq Event /\ s \subseteq Event /\ d \subseteq Event
  /\ lat \in [Keys -> [value : Nat, route : Routes, sent : Nat]]
  /\ n \in Nat

Good(b, s, d, lat, n) ==
  /\ Typed(b, s, d, lat, n)
  /\ Placed(b, s, d, n)
  /\ \A k \in Keys : Tracked(b \cup s \cup d, lat, k)

ClientInv ==
  /\ TypeOK
  /\ Good(buffer, sent, dropped, latest, made)
  /\ BatchBounded

-----------------------------------------------------------------------------
LEMMA EventFields ==
  ASSUME NEW e \in Event
  PROVE  /\ e.n \in Nat
         /\ e.type \in {"vital", "view", "nav", "resource", "error"}
         /\ e.type = "vital" => (e.value \in Nat /\ e.route \in Routes /\ e.key \in Keys)
BY DEF Event, Vital, Plain

\* No event is numbered above the count.
LEMMA Numbered ==
  ASSUME NEW b, NEW s, NEW d, NEW n \in Nat, Placed(b, s, d, n), NEW e \in b \cup s \cup d
  PROVE  e.n \in 1 .. n
<1>1. e.n \in {x.n : x \in b \cup s \cup d}
  OBVIOUS
<1>. QED
  BY <1>1 DEF Placed

LEMMA UnreportedType == Unreported \in [value : Nat, route : Routes, sent : Nat]
<1>1. (CHOOSE r \in Routes : TRUE) \in Routes
  BY ClientAssumption
<1>. QED
  BY <1>1 DEF Unreported

\* A page starts with nothing.
LEMMA InitGood == Init => ClientInv
<1>. SUFFICES ASSUME Init
              PROVE  ClientInv
  OBVIOUS
<1>1. latest \in [Keys -> [value : Nat, route : Routes, sent : Nat]]
  BY UnreportedType DEF Init
<1>2. TypeOK
  BY <1>1 DEF Init, TypeOK
<1>3. Typed(buffer, sent, dropped, latest, made)
  BY <1>2 DEF TypeOK, Typed
<1>4. Placed(buffer, sent, dropped, made)
  <2>1. 1 .. 0 = {}
    OBVIOUS
  <2>. QED
    BY <2>1 DEF Init, Placed
<1>5. \A k \in Keys : latest[k].value = 0 /\ latest[k].sent = 0
  BY DEF Init, Unreported
<1>6. \A k \in Keys : VitalsOf(k, buffer \cup sent \cup dropped) = {} /\ LatestOf(k, buffer \cup sent \cup dropped) = {}
  BY DEF Init, VitalsOf, LatestOf
<1>7. \A k \in Keys : Tracked(buffer \cup sent \cup dropped, latest, k)
  BY <1>5, <1>6 DEF Tracked
<1>8. BatchBounded
  BY DEF Init, BatchBounded
<1>. QED
  BY <1>2, <1>3, <1>4, <1>7, <1>8 DEF ClientInv, Good

-----------------------------------------------------------------------------
(***************************************************************************)
(* The three steps of a flush.                                             *)
(***************************************************************************)

\* An event that is no vital, with the next number.
LEMMA PushGood ==
  ASSUME NEW b, NEW s, NEW d, NEW lat, NEW n, Good(b, s, d, lat, n),
         NEW e \in Plain, e.n = n + 1
  PROVE  Good(b \cup {e}, s, d, lat, n + 1)
<1>1. n \in Nat /\ Typed(b \cup {e}, s, d, lat, n + 1)
  BY DEF Good, Typed, Event
<1>2. e \notin s /\ e \notin d
  BY <1>1, Numbered DEF Good
<1>3. {x.n : x \in (b \cup {e}) \cup s \cup d} = 1 .. n + 1
  <2>1. {x.n : x \in (b \cup {e}) \cup s \cup d} = {x.n : x \in b \cup s \cup d} \cup {n + 1}
    OBVIOUS
  <2>2. (1 .. n) \cup {n + 1} = 1 .. n + 1
    BY <1>1
  <2>. QED
    BY <2>1, <2>2 DEF Good, Placed
<1>4. Placed(b \cup {e}, s, d, n + 1)
  BY <1>2, <1>3 DEF Good, Placed
<1>5. \A k \in Keys : VitalsOf(k, (b \cup {e}) \cup s \cup d) = VitalsOf(k, b \cup s \cup d)
  <2>1. e.type # "vital"
    BY DEF Plain
  <2>. QED
    BY <2>1 DEF VitalsOf
<1>6. \A k \in Keys : LatestOf(k, (b \cup {e}) \cup s \cup d) = LatestOf(k, b \cup s \cup d)
  BY <1>5 DEF LatestOf
<1>7. ASSUME NEW k \in Keys
      PROVE  Tracked((b \cup {e}) \cup s \cup d, lat, k)
  <2>1. Tracked(b \cup s \cup d, lat, k)
    BY DEF Good
  <2>. QED
    BY <1>5, <1>6, <2>1 DEF Tracked
<1>. QED
  BY <1>1, <1>4, <1>7 DEF Good

\* Where the events are does not matter to the vitals: a flush that goes through
\* moves all of the buffer.
LEMMA MoveGood ==
  ASSUME NEW b, NEW s, NEW d, NEW lat, NEW n, Good(b, s, d, lat, n)
  PROVE  /\ Good({}, s \cup b, d, lat, n)
         /\ Good({}, s, d \cup b, lat, n)
<1>1. {} \cup (s \cup b) \cup d = b \cup s \cup d /\ {} \cup s \cup (d \cup b) = b \cup s \cup d
  OBVIOUS
<1>2. Placed({}, s \cup b, d, n) /\ Placed({}, s, d \cup b, n)
  BY <1>1 DEF Good, Placed
<1>3. Typed({}, s \cup b, d, lat, n) /\ Typed({}, s, d \cup b, lat, n)
  BY DEF Good, Typed
<1>4. \A k \in Keys : /\ Tracked({} \cup (s \cup b) \cup d, lat, k)
                      /\ Tracked({} \cup s \cup (d \cup b), lat, k)
  BY <1>1 DEF Good
<1>. QED
  BY <1>2, <1>3, <1>4 DEF Good

\* A vital with a number above all others, whose value is not the one sent last.
LEMMA VitalTracked ==
  ASSUME NEW S, S \subseteq Event, NEW lat, NEW k \in Keys, Tracked(S, lat, k),
         NEW e \in Vital, e.key = k, e.value = lat[k].value, e.route = lat[k].route,
         lat[k].value # lat[k].sent, lat[k].value \in Nat,
         \A f \in S : f.n < e.n,
         NEW T, VitalsOf(k, T) = VitalsOf(k, S) \cup {e},
         NEW marked, marked[k] = [lat[k] EXCEPT !.sent = lat[k].value],
         lat[k] \in [value : Nat, route : Routes, sent : Nat]
  PROVE  Tracked(T, marked, k)
<1>1. marked[k].value = lat[k].value /\ marked[k].sent = lat[k].value /\ marked[k].route = lat[k].route
  OBVIOUS
<1>2. lat[k].value # 0
  BY DEF Tracked
<1>3. \A f \in VitalsOf(k, S) : f \in Event /\ f.n \in Nat /\ f.n < e.n /\ f # e
  BY EventFields DEF VitalsOf
<1>4. e.n \in Nat
  BY DEF Vital
<1>5. LatestOf(k, T) = {e}
  BY <1>3, <1>4 DEF LatestOf
<1>6. \A f \in VitalsOf(k, T) : f.route = marked[k].route
  BY <1>1 DEF Tracked
<1>7. ASSUME NEW x \in VitalsOf(k, T), NEW y \in VitalsOf(k, T), x.n < y.n,
             \A g \in VitalsOf(k, T) : ~(x.n < g.n /\ g.n < y.n)
      PROVE  x.value # y.value
  <2>1. CASE y = e
    <3>1. x \in VitalsOf(k, S)
      BY <1>4, <1>7, <2>1
    <3>2. \A g \in VitalsOf(k, S) : g.n <= x.n
      BY <1>3, <1>7, <2>1, <3>1
    <3>3. x \in LatestOf(k, S)
      BY <3>1, <3>2 DEF LatestOf
    <3>. QED
      BY <2>1, <3>3 DEF Tracked
  <2>2. CASE y # e
    <3>1. y \in VitalsOf(k, S) /\ x \in VitalsOf(k, S)
      BY <1>3, <1>4, <1>7, <2>2
    <3>. QED
      BY <1>7, <3>1 DEF Tracked
  <2>. QED
    BY <2>1, <2>2
<1>. QED
  BY <1>1, <1>2, <1>5, <1>6, <1>7 DEF Tracked

\* The vitals of all metrics that changed, behind everything so far.
LEMMA DrainGood ==
  ASSUME NEW b, NEW s, NEW d, NEW n, Good(b, s, d, latest, n),
         NEW all, all = b \cup Drained(n + 1).events,
         NEW m, m = IF Drained(n + 1).events = {} THEN n ELSE n + 1
  PROVE  /\ Good(all, s, d, Drained(n + 1).marked, m)
         /\ \A k \in Keys : Drained(n + 1).marked[k].sent = Drained(n + 1).marked[k].value
<1>. DEFINE new    == Drained(n + 1).events
            marked == Drained(n + 1).marked
            vital(k) == [type |-> "vital", n |-> n + 1, key |-> k,
                         value |-> latest[k].value, route |-> latest[k].route]
            S == b \cup s \cup d
            T == all \cup s \cup d
<1>1. /\ n \in Nat /\ latest \in [Keys -> [value : Nat, route : Routes, sent : Nat]]
      /\ b \subseteq Event /\ s \subseteq Event /\ d \subseteq Event /\ S \subseteq Event
  BY DEF Good, Typed
<1>2. new = {vital(k) : k \in Changed} /\ marked = [k \in Keys |-> [latest[k] EXCEPT !.sent = latest[k].value]]
  BY DEF Drained
<1>3. \A k \in Keys : /\ marked[k] = [latest[k] EXCEPT !.sent = latest[k].value]
                      /\ latest[k] \in [value : Nat, route : Routes, sent : Nat]
  BY <1>1, <1>2
<1>4. marked \in [Keys -> [value : Nat, route : Routes, sent : Nat]]
  BY <1>1, <1>2
<1>5. \A k \in Keys : vital(k) \in Vital
  BY <1>1, <1>3 DEF Vital
<1>6. new \subseteq Vital /\ \A e \in new : e.n = n + 1
  BY <1>2, <1>5 DEF Changed
<1>7. m \in Nat /\ all \subseteq Event /\ Typed(all, s, d, marked, m)
  BY <1>1, <1>4, <1>6 DEF Typed, Event
<1>8. \A e \in S : e.n \in 1 .. n
  BY <1>1, Numbered DEF Good
<1>9. Placed(all, s, d, m)
  <2>1. new \cap s = {} /\ new \cap d = {}
    BY <1>1, <1>6, <1>8
  <2>2. all \cap s = {} /\ all \cap d = {} /\ s \cap d = {}
    BY <2>1 DEF Good, Placed
  <2>3. {e.n : e \in S} = 1 .. n
    BY DEF Good, Placed
  <2>4. CASE new = {}
    BY <2>2, <2>3, <2>4 DEF Placed
  <2>5. CASE new # {}
    <3>1. m = n + 1 /\ (1 .. n) \cup {n + 1} = 1 .. n + 1
      BY <1>1, <2>5
    <3>2. {e.n : e \in new} = {n + 1}
      BY <1>6, <2>5
    <3>3. {e.n : e \in all \cup s \cup d} = {e.n : e \in S} \cup {e.n : e \in new}
      OBVIOUS
    <3>. QED
      BY <2>2, <2>3, <3>1, <3>2, <3>3 DEF Placed
  <2>. QED
    BY <2>4, <2>5
<1>10. ASSUME NEW k \in Keys
       PROVE  Tracked(T, marked, k)
  <2>1. Tracked(S, latest, k)
    BY DEF Good
  <2>2. CASE latest[k].value = latest[k].sent
    <3>1. marked[k].value = latest[k].value /\ marked[k].sent = latest[k].sent /\ marked[k].route = latest[k].route
      BY <1>3, <2>2
    <3>2. \A e \in new : e.key # k
      BY <1>2, <2>2 DEF Changed
    <3>3. VitalsOf(k, T) = VitalsOf(k, S)
      BY <3>2 DEF VitalsOf
    <3>4. LatestOf(k, T) = LatestOf(k, S)
      BY <3>3 DEF LatestOf
    <3>. HIDE DEF vital, S, T, new, marked
    <3>. QED
      BY <2>1, <3>1, <3>3, <3>4 DEF Tracked
  <2>3. CASE latest[k].value # latest[k].sent
    <3>1. k \in Changed
      BY <2>3 DEF Changed
    <3>2. \A e \in new : e.type = "vital" /\ (e.key = k <=> e = vital(k))
      BY <1>2
    <3>3. vital(k) \in new
      BY <1>2, <3>1
    <3>4. VitalsOf(k, T) = VitalsOf(k, S) \cup {vital(k)}
      BY <3>2, <3>3 DEF VitalsOf
    <3>5. \A f \in S : f.n < vital(k).n
      BY <1>1, <1>8
    <3>6. /\ vital(k) \in Vital /\ vital(k).key = k
          /\ vital(k).value = latest[k].value /\ vital(k).route = latest[k].route
          /\ latest[k].value \in Nat
      BY <1>3, <1>5
    <3>. HIDE DEF vital, S, T, new, marked
    <3>7. marked[k] = [latest[k] EXCEPT !.sent = latest[k].value] /\ latest[k] \in [value : Nat, route : Routes, sent : Nat]
      BY <1>3
    <3>. QED
      BY <1>1, <2>1, <2>3, <3>4, <3>5, <3>6, <3>7, VitalTracked
  <2>. QED
    BY <2>2, <2>3
<1>11. ASSUME NEW k \in Keys
       PROVE  marked[k].sent = marked[k].value
  <2>1. PICK r \in [value : Nat, route : Routes, sent : Nat] : marked[k] = [r EXCEPT !.sent = latest[k].value] /\ r = latest[k]
    BY <1>3
  <2>. HIDE DEF marked
  <2>. QED
    BY <2>1
<1>. QED
  BY <1>7, <1>9, <1>10, <1>11 DEF Good

\* What a flush leaves behind: everything in its place, whatever beforeSend does,
\* and the vitals marked.
Flushed(a) ==
  /\ Good(buffer', sent', dropped', latest', made')
  /\ \A k \in Keys : latest'[k].sent = latest'[k].value
  /\ \/ buffer' = {}
     \/ asked' = "throws" /\ UNCHANGED <<sent, dropped>>
  /\ asked' \in {asked, a}

LEMMA FlushGood ==
  ASSUME NEW b, NEW n, Good(b, sent, dropped, latest, n), NEW a \in Answers, FlushHeld(b, n, a),
         b = {} => buffer = {}
  PROVE  Flushed(a)
<1>. DEFINE all == b \cup Drained(n + 1).events
            m   == IF Drained(n + 1).events = {} THEN n ELSE n + 1
<1>1. /\ Good(all, sent, dropped, latest', m)
      /\ \A k \in Keys : latest'[k].sent = latest'[k].value
      /\ made' = m
  BY DrainGood DEF FlushHeld
<1>. HIDE DEF m
<1>2. CASE all = {}
  <2>1. UNCHANGED <<buffer, asked, sent, dropped>> /\ buffer = all
    BY <1>2 DEF FlushHeld
  <2>. QED
    BY <1>1, <1>2, <2>1 DEF Flushed
<1>3. CASE all # {}
  <2>1. Settle(all, a)
    BY <1>3 DEF FlushHeld
  <2>. HIDE DEF all
  <2>2. CASE buffer' = {} /\ sent' = sent \cup all /\ UNCHANGED dropped
    BY <1>1, <2>1, <2>2, MoveGood DEF Flushed, Settle
  <2>3. CASE buffer' = {} /\ dropped' = dropped \cup all /\ UNCHANGED sent
    BY <1>1, <2>1, <2>3, MoveGood DEF Flushed, Settle
  <2>4. CASE a = "throws" /\ buffer' = all /\ UNCHANGED <<sent, dropped>>
    BY <1>1, <2>1, <2>4 DEF Flushed, Settle
  <2>. QED
    BY <2>1, <2>2, <2>3, <2>4 DEF Settle
<1>. QED
  BY <1>2, <1>3

-----------------------------------------------------------------------------
(***************************************************************************)
(* Every step of the page is one of five.                                  *)
(***************************************************************************)

Rest == UNCHANGED <<buffer, latest, asked, made, sent, dropped>>

Reported ==
  /\ UNCHANGED <<buffer, asked, made, sent, dropped>>
  /\ \E k \in Keys, v \in Values :
       latest' = [latest EXCEPT ![k] = [value |-> v, route |-> IF @.value = 0 THEN route ELSE @.route,
                                        sent |-> @.sent]]

Held(e) == e \in Plain /\ e.n = made + 1

Buffered ==
  /\ UNCHANGED <<latest, asked, sent, dropped>>
  /\ \E e \in Plain : Held(e) /\ buffer' = buffer \cup {e} /\ made' = made + 1
  /\ ~(Cardinality(buffer') >= BATCH_SIZE)

FlushStep ==
  \E a \in Answers :
    \/ FlushHeld(buffer, made, a)
    \/ \E e \in Plain : Held(e) /\ FlushHeld(buffer \cup {e}, made + 1, a)

Moved == Rest \/ Reported \/ Buffered \/ FlushStep

LEMMA PushShape ==
  ASSUME made \in Nat, NEW type \in {"view", "nav", "resource", "error"}, NEW a \in Answers, Push(type, a)
  PROVE  Rest \/ Buffered \/ FlushStep
<1>. DEFINE e == [type |-> type, n |-> made + 1]
<1>1. e \in Plain /\ Held(e)
  BY DEF Plain, Held
<1>2. CASE ~sampled
  BY <1>2 DEF Push, Rest
<1>3. CASE sampled /\ Cardinality(buffer \cup {e}) >= BATCH_SIZE
  <2>1. FlushHeld(buffer \cup {e}, made + 1, a)
    BY <1>3 DEF Push
  <2>. QED
    BY <1>1, <2>1 DEF FlushStep
<1>4. CASE sampled /\ ~(Cardinality(buffer \cup {e}) >= BATCH_SIZE)
  <2>1. buffer' = buffer \cup {e} /\ made' = made + 1 /\ UNCHANGED <<latest, asked, sent, dropped>>
    BY <1>4 DEF Push
  <2>. QED
    BY <1>1, <1>4, <2>1 DEF Buffered
<1>. QED
  BY <1>2, <1>3, <1>4

LEMMA FlushShape ==
  ASSUME NEW a \in Answers, Flush(a)
  PROVE  Rest \/ FlushStep
BY DEF Flush, Rest, FlushStep

\* What a step does to the variables around the buffer.
Around ==
  /\ phase' \in {phase, "failed", "running", "destroyed"}
  /\ page' \in {page, "visible", "hidden", "gone"}
  /\ sampled' = sampled
  /\ route' \in Routes \cup {route}
  /\ navTimer' \in {navTimer, "scheduled", "done"}

LEMMA StepShape ==
  ASSUME TypeOK, [Next]_vars
  PROVE  Moved /\ Around
<1>1. made \in Nat
  BY DEF TypeOK
<1>2. CASE UNCHANGED vars
  BY <1>2 DEF vars, Moved, Rest, Around
<1>3. ASSUME NEW a \in Answers, Start(a)
      PROVE  Moved /\ Around
  BY <1>1, <1>3, PushShape DEF Start, Moved, Around
<1>4. ASSUME NEW a \in Answers, Nav(a)
      PROVE  Moved /\ Around
  BY <1>1, <1>4, PushShape DEF Nav, Moved, Around, Rest
<1>5. ASSUME NEW a \in Answers, Observed("resource", a) \/ Observed("error", a)
      PROVE  Moved /\ Around
  BY <1>1, <1>5, PushShape DEF Observed, Moved, Around
<1>6. ASSUME NEW a \in Answers, NEW r \in Routes, RouteChanged(r, a)
      PROVE  Moved /\ Around
  BY <1>1, <1>6, PushShape DEF RouteChanged, Moved, Around
<1>7. ASSUME NEW a \in Answers, AppError(a)
      PROVE  Moved /\ Around
  BY <1>1, <1>7, PushShape DEF AppError, Moved, Around
<1>8. ASSUME NEW a \in Answers, AppFlush(a) \/ Destroy(a) \/ Interval(a)
      PROVE  Moved /\ Around
  BY <1>8, FlushShape DEF AppFlush, Destroy, Interval, Moved, Around
<1>9. ASSUME NEW a \in Answers, Hide(a) \/ PageHide(a)
      PROVE  Moved /\ Around
  BY <1>9, FlushShape DEF Hide, PageHide, FlushOnHide, Moved, Around, Rest
<1>10. ASSUME NEW k \in Keys, NEW v \in Values, Report(k, v)
       PROVE  Moved /\ Around
  BY <1>10 DEF Report, Reported, Moved, Around
<1>11. CASE Load \/ Show
  BY <1>11 DEF Load, Show, Moved, Around, Rest
<1>. QED
  BY <1>2, <1>3, <1>4, <1>5, <1>6, <1>7, <1>8, <1>9, <1>10, <1>11 DEF Next

-----------------------------------------------------------------------------
(***************************************************************************)
(* The invariant.                                                          *)
(***************************************************************************)

\* A report changes the entry of its metric, its route only before the first.
LEMMA ReportGood ==
  ASSUME ClientInv, Reported
  PROVE  Good(buffer', sent', dropped', latest', made')
<1>. DEFINE S == buffer \cup sent \cup dropped
<1>1. /\ Good(buffer, sent, dropped, latest, made) /\ route \in Routes
      /\ latest \in [Keys -> [value : Nat, route : Routes, sent : Nat]]
  BY DEF ClientInv, TypeOK
<1>2. PICK k \in Keys, v \in Values :
        latest' = [latest EXCEPT ![k] = [value |-> v, route |-> IF @.value = 0 THEN route ELSE @.route,
                                         sent |-> @.sent]]
  BY DEF Reported
<1>3. v \in Nat /\ v # 0
  BY ClientAssumption
<1>4. /\ latest'[k].value = v /\ latest'[k].sent = latest[k].sent
      /\ latest[k].value # 0 => latest'[k].route = latest[k].route
      /\ \A j \in Keys : j # k => latest'[j] = latest[j]
  BY <1>1, <1>2
<1>5. latest' \in [Keys -> [value : Nat, route : Routes, sent : Nat]]
  <2>1. latest[k] \in [value : Nat, route : Routes, sent : Nat]
    BY <1>1
  <2>2. [value |-> v, route |-> IF latest[k].value = 0 THEN route ELSE latest[k].route, sent |-> latest[k].sent]
          \in [value : Nat, route : Routes, sent : Nat]
    BY <1>1, <1>3, <2>1
  <2>. QED
    BY <1>1, <1>2, <2>2
<1>6. ASSUME NEW j \in Keys
      PROVE  Tracked(S, latest', j)
  <2>1. Tracked(S, latest, j)
    BY <1>1 DEF Good
  <2>2. CASE j # k
    BY <1>4, <2>1, <2>2 DEF Tracked
  <2>3. CASE j = k
    <3>1. CASE latest[k].value = 0
      <4>1. latest'[k].sent = 0 /\ VitalsOf(k, S) = {} /\ LatestOf(k, S) = {}
        BY <1>4, <2>1, <2>3, <3>1 DEF Tracked, LatestOf
      <4>. QED
        BY <1>3, <1>4, <2>3, <4>1 DEF Tracked
    <3>2. CASE latest[k].value # 0
      BY <1>3, <1>4, <2>1, <2>3, <3>2 DEF Tracked
    <3>. QED
      BY <3>1, <3>2
  <2>. QED
    BY <2>2, <2>3
<1>7. Typed(buffer, sent, dropped, latest', made) /\ Placed(buffer, sent, dropped, made)
  BY <1>1, <1>5 DEF Good, Typed
<1>8. UNCHANGED <<buffer, made, sent, dropped>>
  BY DEF Reported
<1>. QED
  BY <1>6, <1>7, <1>8 DEF Good

\* A flush, with or without an event pushed before.
LEMMA FlushStepGood ==
  ASSUME ClientInv, FlushStep
  PROVE  \E a \in Answers : Flushed(a)
<1>1. Good(buffer, sent, dropped, latest, made)
  BY DEF ClientInv
<1>2. ASSUME NEW a \in Answers, FlushHeld(buffer, made, a)
      PROVE  Flushed(a)
  BY <1>1, <1>2, FlushGood
<1>3. ASSUME NEW a \in Answers, NEW e \in Plain, Held(e), FlushHeld(buffer \cup {e}, made + 1, a)
      PROVE  Flushed(a)
  <2>1. Good(buffer \cup {e}, sent, dropped, latest, made + 1)
    BY <1>1, <1>3, PushGood DEF Held
  <2>. QED
    BY <1>3, <2>1, FlushGood
<1>. QED
  BY <1>2, <1>3 DEF FlushStep

LEMMA StepGood ==
  ASSUME ClientInv, [Next]_vars
  PROVE  ClientInv' /\ asked' \in {asked} \cup Answers
<1>1. TypeOK /\ BatchBounded /\ Good(buffer, sent, dropped, latest, made)
  BY DEF ClientInv
<1>2. Moved /\ Around
  BY <1>1, StepShape
<1>3. Good(buffer', sent', dropped', latest', made') /\ asked' \in {asked} \cup Answers /\ BatchBounded'
  <2>1. CASE Rest
    BY <1>1, <2>1 DEF Rest, BatchBounded
  <2>2. CASE Reported
    BY <1>1, <2>2, ReportGood DEF Reported, BatchBounded
  <2>3. CASE Buffered
    <3>1. PICK e \in Plain : e.n = made + 1 /\ buffer' = buffer \cup {e} /\ made' = made + 1
      BY <2>3 DEF Buffered, Held
    <3>2. Good(buffer', sent', dropped', latest', made')
      BY <1>1, <2>3, <3>1, PushGood DEF Buffered
    <3>3. BatchBounded'
      BY <2>3 DEF Buffered, BatchBounded
    <3>. QED
      BY <2>3, <3>2, <3>3 DEF Buffered
  <2>4. CASE FlushStep
    <3>1. PICK a \in Answers : Flushed(a)
      BY <2>4, FlushStepGood
    <3>. QED
      BY <3>1 DEF Flushed, BatchBounded
  <2>. QED
    BY <1>2, <2>1, <2>2, <2>3, <2>4 DEF Moved
<1>4. TypeOK'
  <2>1. /\ buffer' \subseteq Event /\ sent' \subseteq Event /\ dropped' \subseteq Event /\ made' \in Nat
        /\ latest' \in [Keys -> [value : Nat, route : Routes, sent : Nat]]
    BY <1>3 DEF Good, Typed
  <2>2. asked' \in {"none", "yes", "no", "throws"}
    BY <1>1, <1>3, ClientAssumption DEF TypeOK
  <2>3. /\ phase' \in {"new", "running", "failed", "destroyed"}
        /\ page' \in {"visible", "hidden", "gone"}
        /\ sampled' \in BOOLEAN /\ route' \in Routes
        /\ navTimer' \in {"waiting", "scheduled", "done"}
    BY <1>1, <1>2 DEF TypeOK, Around
  <2>. QED
    BY <2>1, <2>2, <2>3 DEF TypeOK
<1>. QED
  BY <1>3, <1>4 DEF ClientInv

THEOREM Invariance == Spec => []ClientInv
<1>1. Init => ClientInv
  BY InitGood
<1>2. ClientInv /\ [Next]_vars => ClientInv'
  BY StepGood
<1>. QED
  BY <1>1, <1>2, PTL DEF Spec

-----------------------------------------------------------------------------
(***************************************************************************)
(* The properties.                                                         *)
(***************************************************************************)

\* The state of the client keeps its types.
THEOREM TypeCorrect == Spec => []TypeOK
<1>1. ClientInv => TypeOK
  BY DEF ClientInv
<1>. QED
  BY <1>1, Invariance, PTL

\* Whatever follows what, every event made is waiting, sent or dropped, and only one
\* of these (index.ts:97-118).
THEOREM EventsConserved == Spec => []Conserved
<1>1. ClientInv => Conserved
  BY DEF ClientInv, Good, Placed, Conserved, All
<1>. QED
  BY <1>1, Invariance, PTL

\* Two reports of a metric in a row never repeat a value (index.ts:122, 135-141).
THEOREM OnlyChangesAreSent == Spec => []OnlyChanges
<1>1. ClientInv => OnlyChanges
  <2>1. \A k \in Keys : Of(k) = VitalsOf(k, All)
    BY DEF Of, VitalsOf
  <2>2. ClientInv => \A k \in Keys : Tracked(All, latest, k)
    BY DEF ClientInv, Good, All
  <2>. QED
    BY <2>1, <2>2 DEF Tracked, OnlyChanges
<1>. QED
  BY <1>1, Invariance, PTL

\* All reports of a metric are for the route it was first seen on (index.ts:127).
THEOREM RoutesStay == Spec => []AttributedOnce
<1>1. ClientInv => AttributedOnce
  <2>1. \A k \in Keys : Of(k) = VitalsOf(k, All)
    BY DEF Of, VitalsOf
  <2>2. ClientInv => \A k \in Keys : Tracked(All, latest, k)
    BY DEF ClientInv, Good, All
  <2>. QED
    BY <2>1, <2>2 DEF Tracked, AttributedOnce
<1>. QED
  BY <1>1, Invariance, PTL

\* A full batch waits only behind an exception of beforeSend (index.ts:117).
THEOREM BatchesStayBounded == Spec => []BatchBounded
<1>1. ClientInv => BatchBounded
  BY DEF ClientInv
<1>. QED
  BY <1>1, Invariance, PTL

\* A flush that goes through takes the current value of every metric with it
\* (index.ts:99, 135-141).
THEOREM FlushesTakeAll == Spec => FlushTakesAll
<1>1. ClientInv /\ [Next]_vars => [FlushesAll]_vars
  <2>. SUFFICES ASSUME ClientInv, [Next]_vars, sent' # sent \/ dropped' # dropped
                PROVE  FlushesAll
    BY DEF FlushesAll
  <2>1. Moved
    BY StepShape DEF ClientInv
  <2>2. FlushStep
    BY <2>1 DEF Moved, Rest, Reported, Buffered
  <2>3. PICK a \in Answers : Flushed(a)
    BY <2>2, FlushStepGood
  <2>4. buffer' = {}
    BY <2>3 DEF Flushed
  <2>5. ASSUME NEW k \in Keys, latest'[k].value # 0
        PROVE  Last(Of(k)').value = latest'[k].value
    <3>. DEFINE S == buffer' \cup sent' \cup dropped'
    <3>1. Tracked(S, latest', k) /\ latest'[k].sent = latest'[k].value
      BY <2>3 DEF Flushed, Good
    <3>2. LatestOf(k, S) # {}
      BY <2>5, <3>1 DEF Tracked
    <3>3. Of(k)' = VitalsOf(k, S)
      BY DEF Of, All, VitalsOf
    <3>4. Last(VitalsOf(k, S)) \in LatestOf(k, S)
      BY <3>2 DEF Last, LatestOf
    <3>. QED
      BY <3>1, <3>3, <3>4 DEF Tracked
  <2>. QED
    BY <2>4, <2>5 DEF FlushesAll
<1>. QED
  BY <1>1, Invariance, PTL DEF Spec, FlushTakesAll
-----------------------------------------------------------------------------
(***************************************************************************)
(* Beacons on their way: none is larger than what ingest() reads.          *)
(***************************************************************************)

Calm == Roomy /\ "throws" \notin Answers

DeliveryInv ==
  /\ ClientInv
  /\ IsFiniteSet(buffer)
  /\ wire \subseteq beacons /\ ingested \subseteq UNION beacons
  /\ \A b \in beacons : b \subseteq sent /\ IsFiniteSet(b)
  /\ \A b, c \in beacons : b = c \/ b \cap c = {}
  /\ Calm => /\ asked # "throws"
             /\ \A b \in beacons : Cardinality(b) <= MAX_EVENTS /\ b \cap ingested \in {{}, b}

\* A flush drains one event per metric at most.
LEMMA DrainedFew ==
  ASSUME NEW n
  PROVE  /\ IsFiniteSet(Drained(n).events)
         /\ Cardinality(Drained(n).events) <= Cardinality(Keys)
<1>. DEFINE vital(k) == [type |-> "vital", n |-> n, key |-> k,
                         value |-> latest[k].value, route |-> latest[k].route]
<1>1. Drained(n).events = {vital(k) : k \in Changed}
  BY DEF Drained
<1>2. IsFiniteSet(Changed) /\ Cardinality(Changed) <= Cardinality(Keys)
  BY KeysAssumption, FS_Subset DEF Changed
<1>3. PICK f : f = [k \in Changed |-> vital(k)]
  OBVIOUS
<1>4. f \in Surjection(Changed, Drained(n).events)
  BY <1>1, <1>3 DEF Surjection
<1>5. /\ IsFiniteSet(Drained(n).events)
      /\ Cardinality(Drained(n).events) <= Cardinality(Changed)
  BY <1>2, <1>4, FS_Surjection
<1>. QED
  BY <1>2, <1>5, KeysAssumption, FS_CardinalityType

\* What a flush hands over is one beacon of what it had in hand.
LEMMA HandedOver ==
  ASSUME NEW b, IsFiniteSet(b), NEW n, NEW a \in Answers, FlushHeld(b, n, a)
  PROVE  \E all : /\ IsFiniteSet(all) /\ Cardinality(all) <= Cardinality(b) + Cardinality(Keys)
                  /\ sent' \in {sent, sent \cup all}
                  /\ buffer' \in {buffer, {}, all}
<1>1. PICK all : all = b \cup Drained(n + 1).events
  OBVIOUS
<1>2. IsFiniteSet(Drained(n + 1).events) /\ Cardinality(Drained(n + 1).events) <= Cardinality(Keys)
  BY DrainedFew
<1>3. /\ IsFiniteSet(all)
      /\ Cardinality(all) = Cardinality(b) + Cardinality(Drained(n + 1).events)
                              - Cardinality(b \cap Drained(n + 1).events)
  BY <1>1, <1>2, FS_Union
<1>4. /\ Cardinality(b) \in Nat /\ Cardinality(Drained(n + 1).events) \in Nat
      /\ Cardinality(b \cap Drained(n + 1).events) \in Nat /\ Cardinality(Keys) \in Nat
  BY <1>2, KeysAssumption, FS_CardinalityType, FS_Intersection
<1>5. Cardinality(all) <= Cardinality(b) + Cardinality(Keys)
  BY <1>2, <1>3, <1>4
<1>6. sent' \in {sent, sent \cup all} /\ buffer' \in {buffer, {}, all}
  BY <1>1 DEF FlushHeld, Settle
<1>. QED
  BY <1>3, <1>5, <1>6

\* What a step of the page adds to what is sent.
LEMMA PageSends ==
  ASSUME ClientInv, IsFiniteSet(buffer), [Next]_vars,
         NEW b, b = sent' \ sent
  PROVE  /\ sent \subseteq sent'
         /\ IsFiniteSet(buffer') /\ IsFiniteSet(b)
         /\ Calm /\ asked # "throws" => Cardinality(b) <= MAX_EVENTS
<1>1. Moved
  BY StepShape DEF ClientInv
<1>2. Cardinality(buffer) \in Nat /\ Cardinality(Keys) \in Nat /\ BATCH_SIZE \in Nat /\ MAX_EVENTS \in Nat
  BY KeysAssumption, FS_CardinalityType, ClientAssumption, SizeAssumption
<1>3. CASE Rest \/ Reported \/ Buffered
  <2>1. b = {} /\ sent' = sent
    BY <1>3 DEF Rest, Reported, Buffered
  <2>2. IsFiniteSet(buffer')
    BY <1>3, FS_AddElement DEF Rest, Reported, Buffered
  <2>. QED
    BY <1>2, <2>1, <2>2, FS_EmptySet
<1>4. CASE FlushStep
  <2>1. PICK a \in Answers : \/ FlushHeld(buffer, made, a)
                             \/ \E e \in Plain : FlushHeld(buffer \cup {e}, made + 1, a)
    BY <1>4 DEF FlushStep
  <2>2. \E h : \E n : FlushHeld(h, n, a) /\ (h = buffer \/ \E e : h = buffer \cup {e})
    <3>1. CASE FlushHeld(buffer, made, a)
      BY <3>1
    <3>2. ASSUME NEW e \in Plain, FlushHeld(buffer \cup {e}, made + 1, a)
          PROVE  \E h : \E n : FlushHeld(h, n, a) /\ (h = buffer \/ \E g : h = buffer \cup {g})
      BY <3>2
    <3>. QED
      BY <2>1, <3>1, <3>2
  <2>3. PICK h : \E n : FlushHeld(h, n, a) /\ (h = buffer \/ \E e : h = buffer \cup {e})
    BY <2>2
  <2>4. PICK n : FlushHeld(h, n, a)
    BY <2>3
  <2>5. /\ IsFiniteSet(h) /\ Cardinality(h) \in Nat
         /\ Cardinality(h) <= Cardinality(buffer) + 1
    <3>1. CASE h = buffer
      BY <1>2, <3>1
    <3>2. ASSUME NEW e, h = buffer \cup {e}
          PROVE  /\ IsFiniteSet(h) /\ Cardinality(h) \in Nat
                 /\ Cardinality(h) <= Cardinality(buffer) + 1
      <4>1. IsFiniteSet(h) /\ Cardinality(h) \in {Cardinality(buffer), Cardinality(buffer) + 1}
        BY <3>2, FS_AddElement
      <4>. QED
        BY <1>2, <4>1
    <3>. QED
      BY <2>3, <3>1, <3>2
  <2>6. PICK all : /\ IsFiniteSet(all) /\ Cardinality(all) <= Cardinality(h) + Cardinality(Keys)
                   /\ sent' \in {sent, sent \cup all}
                   /\ buffer' \in {buffer, {}, all}
    BY <2>4, <2>5, HandedOver
  <2>7. b \subseteq all /\ sent \subseteq sent'
    BY <2>6
  <2>8. IsFiniteSet(b) /\ Cardinality(b) <= Cardinality(all) /\ Cardinality(b) \in Nat /\ Cardinality(all) \in Nat
    BY <2>6, <2>7, FS_Subset, FS_CardinalityType
  <2>9. IsFiniteSet(buffer')
    BY <2>6, FS_EmptySet
  <2>10. ASSUME Calm, asked # "throws"
        PROVE  Cardinality(b) <= MAX_EVENTS
    <3>1. BATCH_SIZE > 0 /\ BATCH_SIZE + Cardinality(Keys) <= MAX_EVENTS
      BY <2>10 DEF Calm, Roomy
    <3>2. buffer = {} \/ Cardinality(buffer) < BATCH_SIZE
      BY <1>2, <2>10 DEF ClientInv, BatchBounded
    <3>3. Cardinality(buffer) < BATCH_SIZE
      BY <1>2, <3>1, <3>2, FS_EmptySet
    <3>. QED
      BY <1>2, <2>5, <2>6, <2>8, <3>1, <3>3
  <2>. QED
    BY <2>7, <2>8, <2>9, <2>10
<1>. QED
  BY <1>1, <1>3, <1>4 DEF Moved

LEMMA DeliveryStart == DeliveryInit => DeliveryInv
<1>. SUFFICES ASSUME DeliveryInit
              PROVE  DeliveryInv
  OBVIOUS
<1>1. ClientInv /\ buffer = {} /\ asked = "none" /\ beacons = {} /\ wire = {} /\ ingested = {}
  BY InitGood DEF DeliveryInit, Init
<1>. QED
  BY <1>1, FS_EmptySet DEF DeliveryInv

LEMMA PageStep ==
  ASSUME DeliveryInv, Page
  PROVE  DeliveryInv'
<1>1. PICK new : new = sent' \ sent
  OBVIOUS
<1>2. /\ sent \subseteq sent' /\ IsFiniteSet(buffer') /\ IsFiniteSet(new)
      /\ Calm => Cardinality(new) <= MAX_EVENTS
  BY <1>1, PageSends DEF DeliveryInv, Page
<1>3. ClientInv'
  BY StepGood DEF DeliveryInv, Page
<1>4. Calm => asked' # "throws"
  <2>1. asked' \in {asked} \cup Answers
    BY StepGood DEF DeliveryInv, Page
  <2>. QED
    BY <2>1 DEF DeliveryInv, Calm
<1>5. ingested' = ingested
  BY DEF Page
<1>6. CASE new = {}
  <2>1. beacons' = beacons /\ wire' = wire
    BY <1>1, <1>6 DEF Page
  <2>. QED
    BY <1>2, <1>3, <1>4, <1>5, <2>1 DEF DeliveryInv, Calm, Roomy
<1>7. CASE new # {}
  <2>1. beacons' = beacons \cup {new} /\ wire' = wire \cup {new}
    BY <1>1, <1>7 DEF Page
  <2>2. \A b \in beacons : b \cap new = {}
    BY <1>1 DEF DeliveryInv
  <2>3. new \cap ingested = {}
    BY <2>2 DEF DeliveryInv
  <2>4. \A b \in beacons' : b \subseteq sent' /\ IsFiniteSet(b)
    BY <1>1, <1>2, <2>1 DEF DeliveryInv
  <2>5. \A b, c \in beacons' : b = c \/ b \cap c = {}
    BY <2>1, <2>2 DEF DeliveryInv
  <2>6. wire' \subseteq beacons' /\ ingested' \subseteq UNION beacons'
    BY <1>5, <2>1 DEF DeliveryInv
  <2>7. ASSUME Calm, NEW b \in beacons'
        PROVE  Cardinality(b) <= MAX_EVENTS /\ b \cap ingested' \in {{}, b}
    BY <1>2, <1>5, <2>1, <2>3, <2>7 DEF DeliveryInv
  <2>. QED
    BY <1>2, <1>3, <1>4, <2>4, <2>5, <2>6, <2>7 DEF DeliveryInv, Calm, Roomy
<1>. QED
  BY <1>6, <1>7

LEMMA IngestedStep ==
  ASSUME DeliveryInv, NEW b \in wire, Ingested(b)
  PROVE  DeliveryInv'
<1>1. /\ UNCHANGED <<vars, beacons>> /\ wire' \subseteq wire
      /\ b \in beacons /\ IsFiniteSet(b)
  BY DEF Ingested, DeliveryInv
<1>2. PICK read \in SUBSET b : /\ Cardinality(read) = Min({MAX_EVENTS, Cardinality(b)})
                               /\ ingested' = ingested \cup read
  BY DEF Ingested
<1>3. ingested' \subseteq UNION beacons
  BY <1>1, <1>2 DEF DeliveryInv
<1>4. ASSUME Calm
      PROVE  read = b
  <2>1. Cardinality(b) <= MAX_EVENTS /\ Cardinality(b) \in Nat /\ MAX_EVENTS \in Nat
    BY <1>1, <1>4, FS_CardinalityType, SizeAssumption DEF DeliveryInv
  <2>2. Min({MAX_EVENTS, Cardinality(b)}) = Cardinality(b)
    BY <2>1 DEF Min
  <2>. QED
    BY <1>1, <1>2, <2>2, FS_Subset
<1>5. ASSUME Calm, NEW c \in beacons
      PROVE  c \cap ingested' \in {{}, c}
  <2>1. ingested' = ingested \cup b
    BY <1>2, <1>4, <1>5
  <2>2. c = b \/ c \cap b = {}
    BY <1>1 DEF DeliveryInv
  <2>3. c \cap ingested \in {{}, c}
    BY <1>5 DEF DeliveryInv
  <2>. QED
    BY <2>1, <2>2, <2>3
<1>6. ClientInv'
  BY <1>1, StepGood DEF DeliveryInv
<1>. QED
  BY <1>1, <1>3, <1>5, <1>6 DEF DeliveryInv, Calm, Roomy, vars

LEMMA DeliveryStep == DeliveryInv /\ [DeliveryNext]_deliveryVars => DeliveryInv'
<1>. SUFFICES ASSUME DeliveryInv, [DeliveryNext]_deliveryVars
              PROVE  DeliveryInv'
  OBVIOUS
<1>1. ASSUME UNCHANGED <<vars, beacons, ingested>>, wire' \subseteq wire
      PROVE  DeliveryInv'
  <2>1. ClientInv'
    BY <1>1, StepGood DEF DeliveryInv
  <2>. QED
    BY <1>1, <2>1 DEF DeliveryInv, Calm, Roomy, vars
<1>2. ASSUME NEW b \in wire, Lost(b) \/ TooLarge(b)
      PROVE  DeliveryInv'
  BY <1>1, <1>2 DEF Lost, TooLarge
<1>3. CASE UNCHANGED deliveryVars
  BY <1>1, <1>3 DEF deliveryVars
<1>. QED
  BY <1>2, <1>3, PageStep, IngestedStep DEF DeliveryNext

\* Where a full batch and the vitals of all metrics fit into what ingest() reads, a
\* beacon is ingested whole or not at all (index.ts:117, 135-141, rum.ts:102).
THEOREM BeaconsStayWhole == DeliverySpec => []WholeBeacons
<1>1. DeliveryInv => WholeBeacons
  BY DEF DeliveryInv, Calm, WholeBeacons
<1>. QED
  BY <1>1, DeliveryStart, DeliveryStep, PTL DEF DeliverySpec
=============================================================================
