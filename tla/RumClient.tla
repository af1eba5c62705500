------------------------------ MODULE RumClient ------------------------------
(***************************************************************************)
(* The browser's RUM client (rum-client/src/index.ts): one page, the       *)
(* callbacks that web-vitals and the browser make, the application's calls *)
(* and the timer, each running to completion on the page's event loop.     *)
(*                                                                         *)
(* An event is its type and a number, in the order they were made; the     *)
(* vitals drained by one flush share one.  The buffer is a set of events:  *)
(* nothing in the client looks at their order.  "sent" and "dropped" are   *)
(* history: what was handed to the browser for sending, and what was       *)
(* cleared because beforeSend refused.                                     *)
(***************************************************************************)
EXTENDS Integers, FiniteSets

CONSTANTS
  Keys,         \* metrics, as name:id
  Values,       \* values a metric may report
  Routes,
  Answers,      \* what beforeSend may do: "yes", "no", "throws"
  BATCH_SIZE,   \* batchSize, 25 by default
  MaxEvents     \* bound on the events made

ASSUME ClientAssumption ==
  /\ Values \subseteq Nat \ {0}
  /\ Routes # {}
  /\ Answers \subseteq {"yes", "no", "throws"} /\ Answers # {}
  /\ BATCH_SIZE \in Nat /\ MaxEvents \in Nat

VARIABLES
  phase,        \* of the client: "new", "running", "failed", "destroyed"
  page,         \* "visible", "hidden" or "gone"
  sampled,      \* this session is measured
  route,        \* currentRoute
  buffer,
  latest,       \* per metric: value (0: not reported), its route, value sent (0: none)
  navTimer,     \* "waiting" for load, "scheduled", "done"
  asked,        \* beforeSend's latest answer
  made, sent, dropped

vars == <<phase, page, sampled, route, buffer, latest, navTimer, asked, made, sent, dropped>>

Unreported == [value |-> 0, route |-> CHOOSE r \in Routes : TRUE, sent |-> 0]

Init ==
  /\ phase = "new" /\ page \in {"visible", "hidden"}
  /\ sampled \in BOOLEAN
  /\ route \in Routes
  /\ buffer = {}
  /\ latest = [k \in Keys |-> Unreported]
  /\ navTimer \in {"waiting", "scheduled"}
  /\ asked = "none"
  /\ made = 0 /\ sent = {} /\ dropped = {}

-----------------------------------------------------------------------------
\* Metrics whose value is not the one sent last.
Changed == {k \in Keys : latest[k].value # latest[k].sent}

\* Slip: what is drained is not marked.
DrainedUnmarked(n) ==
  LET vital(k) == [type |-> "vital", n |-> n, key |-> k,
                   value |-> latest[k].value, route |-> latest[k].route]
  IN  [events |-> {vital(k) : k \in Changed}, marked |-> latest]

\* drainVitals: the events it appends, and the Map afterwards.
Drained(n) ==
  LET vital(k) == [type |-> "vital", n |-> n, key |-> k,
                   value |-> latest[k].value, route |-> latest[k].route]
  IN  [events |-> {vital(k) : k \in Changed},
       marked |-> [k \in Keys |-> [latest[k] EXCEPT !.sent = latest[k].value]]]

\* Slip: a refusal leaves the events for the next flush.
SettleKeeps(all, answer) ==
  /\ asked' = answer
  /\ \/ answer = "yes" /\ buffer' = {} /\ sent' = sent \cup all /\ UNCHANGED dropped
     \/ answer = "no" /\ buffer' = all /\ dropped' = dropped \cup all /\ UNCHANGED sent
     \/ answer = "throws" /\ buffer' = all /\ UNCHANGED <<sent, dropped>>

\* The buffer is not empty: beforeSend has the word.  A refusal clears it, an
\* exception leaves it as it is.
Settle(all, answer) ==
  /\ asked' = answer
  /\ \/ answer = "yes" /\ buffer' = {} /\ sent' = sent \cup all /\ UNCHANGED dropped
     \/ answer = "no" /\ buffer' = {} /\ dropped' = dropped \cup all /\ UNCHANGED sent
     \/ answer = "throws" /\ buffer' = all /\ UNCHANGED <<sent, dropped>>

\* Slip: the vitals are drained after the payload is made.
FlushHeldFirst(held, n, answer) ==
  LET drained == Drained(n + 1)
  IN  /\ latest' = drained.marked
      /\ made' = IF drained.events = {} THEN n ELSE n + 1
      /\ IF held = {}
           THEN buffer' = drained.events /\ UNCHANGED <<asked, sent, dropped>>
           ELSE /\ asked' = answer /\ buffer' = drained.events
                /\ \/ answer = "yes" /\ sent' = sent \cup held /\ UNCHANGED dropped
                   \/ answer = "no" /\ dropped' = dropped \cup held /\ UNCHANGED sent

\* flush, the buffer holding the events "held", n of them made so far.
FlushHeld(held, n, answer) ==
  LET drained == Drained(n + 1)
      all     == held \cup drained.events
  IN  /\ latest' = drained.marked
      /\ made' = IF drained.events = {} THEN n ELSE n + 1
      /\ IF all = {} THEN UNCHANGED <<buffer, asked, sent, dropped>>
                     ELSE Settle(all, answer)

Flush(answer) ==
  IF sampled THEN FlushHeld(buffer, made, answer)
             ELSE UNCHANGED <<buffer, latest, asked, made, sent, dropped>>

\* Slip: the batch is counted before the event is in it.
PushLate(type, answer) ==
  LET held == buffer \cup {[type |-> type, n |-> made + 1]}
  IN  /\ made < MaxEvents
      /\ IF ~sampled THEN UNCHANGED <<buffer, latest, asked, made, sent, dropped>>
         ELSE IF Cardinality(buffer) >= BATCH_SIZE THEN FlushHeld(held, made + 1, answer)
         ELSE /\ buffer' = held /\ made' = made + 1
              /\ UNCHANGED <<latest, asked, sent, dropped>>

\* push: buffer the event, and flush a full batch.
Push(type, answer) ==
  LET held == buffer \cup {[type |-> type, n |-> made + 1]}
  IN  /\ made < MaxEvents
      /\ IF ~sampled THEN UNCHANGED <<buffer, latest, asked, made, sent, dropped>>
         ELSE IF Cardinality(held) >= BATCH_SIZE THEN FlushHeld(held, made + 1, answer)
         ELSE /\ buffer' = held /\ made' = made + 1
              /\ UNCHANGED <<latest, asked, sent, dropped>>

-----------------------------------------------------------------------------
Alive     == page # "gone"
Listening == phase \in {"running", "failed"} /\ Alive   \* resources, errors, load
Handle    == phase \in {"running", "destroyed"} /\ Alive   \* the application has one

\* initRum: the landing view is the last thing pushed before the flush on hide
\* and the timer are set up, and before the application gets its handle.
Start(answer) ==
  /\ phase = "new"
  /\ Push("view", answer)
  /\ phase' = IF asked' = "throws" THEN "failed" ELSE "running"
  /\ UNCHANGED <<page, sampled, route, navTimer>>

\* Slip: the route is the one on screen when the value changes.
ReportHere(k, v) ==
  /\ phase # "new" /\ Alive /\ made <= MaxEvents
  /\ latest[k].value # v
  /\ latest' = [latest EXCEPT ![k] = [value |-> v, route |-> route, sent |-> @.sent]]
  /\ UNCHANGED <<phase, page, sampled, route, buffer, navTimer, asked, made, sent, dropped>>

\* A web-vitals callback.  The library has no way to unsubscribe, and destroy
\* does not try.
Report(k, v) ==
  /\ phase # "new" /\ Alive /\ made <= MaxEvents
  /\ latest[k].value # v
  /\ latest' = [latest EXCEPT ![k] =
       [value |-> v,
        route |-> IF @.value = 0 THEN route ELSE @.route,
        sent  |-> @.sent]]
  /\ UNCHANGED <<phase, page, sampled, route, buffer, navTimer, asked, made, sent, dropped>>

\* The load event schedules the navigation timing ...
Load ==
  /\ Listening /\ navTimer = "waiting"
  /\ navTimer' = "scheduled"
  /\ UNCHANGED <<phase, page, sampled, route, buffer, latest, asked, made, sent, dropped>>

\* ... which is reported in a turn of its own, if the browser has an entry.
Nav(answer) ==
  /\ phase # "new" /\ Alive /\ navTimer = "scheduled"
  /\ navTimer' = "done"
  /\ \/ Push("nav", answer)
     \/ UNCHANGED <<buffer, latest, asked, made, sent, dropped>>
  /\ UNCHANGED <<phase, page, sampled, route>>

\* The resource observer, or the listeners for errors and rejections.
Observed(type, answer) ==
  /\ Listening
  /\ Push(type, answer)
  /\ UNCHANGED <<phase, page, sampled, route, navTimer>>

\* The application's calls.
RouteChanged(r, answer) ==
  /\ Handle
  /\ route' = r
  /\ Push("view", answer)
  /\ UNCHANGED <<phase, page, sampled, navTimer>>

AppError(answer) ==
  /\ Handle
  /\ Push("error", answer)
  /\ UNCHANGED <<phase, page, sampled, route, navTimer>>

AppFlush(answer) ==
  /\ Handle
  /\ Flush(answer)
  /\ UNCHANGED <<phase, page, sampled, route, navTimer>>

\* Slip: the listeners go without a last flush.
DestroyAtOnce(answer) ==
  /\ Handle
  /\ phase' = "destroyed" /\ asked' = answer
  /\ UNCHANGED <<page, sampled, route, buffer, latest, navTimer, made, sent, dropped>>

\* A flush that throws leaves the client as it was.
Destroy(answer) ==
  /\ Handle
  /\ Flush(answer)
  /\ phase' = IF buffer' = {} THEN "destroyed" ELSE phase
  /\ UNCHANGED <<page, sampled, route, navTimer>>

\* The timer.
Interval(answer) ==
  /\ phase = "running" /\ Alive
  /\ Flush(answer)
  /\ UNCHANGED <<phase, page, sampled, route, navTimer>>

\* visibilitychange and pagehide flush while their listeners are there.
FlushOnHide(answer) ==
  IF phase = "running" THEN Flush(answer)
                       ELSE UNCHANGED <<buffer, latest, asked, made, sent, dropped>>

Hide(answer) ==
  /\ page = "visible" /\ phase # "new"
  /\ page' = "hidden"
  /\ FlushOnHide(answer)
  /\ UNCHANGED <<phase, sampled, route, navTimer>>

Show ==
  /\ page = "hidden" /\ phase # "new"
  /\ page' = "visible"
  /\ UNCHANGED <<phase, sampled, route, buffer, latest, navTimer, asked, made, sent, dropped>>

PageHide(answer) ==
  /\ Alive /\ phase # "new"
  /\ page' = "gone"
  /\ FlushOnHide(answer)
  /\ UNCHANGED <<phase, sampled, route, navTimer>>

Next ==
  \/ \E a \in Answers :
       \/ Start(a) \/ Nav(a) \/ Observed("resource", a) \/ Observed("error", a)
       \/ \E r \in Routes : RouteChanged(r, a)
       \/ AppError(a) \/ AppFlush(a) \/ Destroy(a)
       \/ Interval(a) \/ Hide(a) \/ PageHide(a)
  \/ \E k \in Keys, v \in Values : Report(k, v)
  \/ Load \/ Show

\* The browser runs the timer as long as the page is there.
Spec == Init /\ [][Next]_vars
FairSpec == Spec /\ WF_vars(\E a \in Answers : Interval(a))

-----------------------------------------------------------------------------
Vital == [type : {"vital"}, n : Nat, key : Keys, value : Nat, route : Routes]
Plain == [type : {"view", "nav", "resource", "error"}, n : Nat]
Event == Vital \cup Plain

All     == buffer \cup sent \cup dropped
Of(k)   == {e \in All : e.type = "vital" /\ e.key = k}
Last(S) == CHOOSE e \in S : \A f \in S : f.n <= e.n

\* The types of the client's state.
TypeOK ==
  /\ phase \in {"new", "running", "failed", "destroyed"}
  /\ page \in {"visible", "hidden", "gone"}
  /\ sampled \in BOOLEAN /\ route \in Routes
  /\ buffer \subseteq Event /\ sent \subseteq Event /\ dropped \subseteq Event
  /\ latest \in [Keys -> [value : Nat, route : Routes, sent : Nat]]
  /\ navTimer \in {"waiting", "scheduled", "done"}
  /\ asked \in {"none", "yes", "no", "throws"}
  /\ made \in Nat

\* Every event made is in exactly one place: waiting, sent once, or dropped for
\* want of consent; what was refused is never sent later, what was sent never
\* waits again, however pushes, flushes and exceptions follow each other
\* (index.ts:97-118).
Conserved ==
  /\ buffer \cap sent = {} /\ buffer \cap dropped = {} /\ sent \cap dropped = {}
  /\ {e.n : e \in All} = 1 .. made

\* index.ts:122 "only if it changed since the last send": two reports of a metric
\* in a row never repeat a value.
OnlyChanges ==
  \A k \in Keys : \A e, f \in Of(k) :
    e.n < f.n /\ (\A g \in Of(k) : ~(e.n < g.n /\ g.n < f.n)) => e.value # f.value

\* A metric is reported for one route, whatever the application shows when it
\* changes: the one it was first seen on (index.ts:127).
AttributedOnce == \A k \in Keys : \A e, f \in Of(k) : e.route = f.route

\* A full batch waits only when beforeSend has thrown (index.ts:117).
BatchBounded == buffer # {} /\ Cardinality(buffer) >= BATCH_SIZE => asked = "throws"

FlushesAll ==
  sent' # sent \/ dropped' # dropped =>
    /\ buffer' = {}
    /\ \A k \in Keys : latest'[k].value # 0 => Last(Of(k)').value = latest'[k].value

\* A flush that goes through takes the current value of every metric with it,
\* also the one a full batch sets off (index.ts:99, 135-141).
FlushTakesAll == [][FlushesAll]_vars

\* What a running client has recorded leaves it in the end, whether by the timer,
\* with the page or by destroy, unless beforeSend throws (index.ts:97-105,
\* 200-209, 224).
EventuallyFlushed ==
  (phase = "running" /\ Alive /\ (buffer # {} \/ Changed # {}) /\ sampled)
    ~> ((buffer = {} /\ Changed = {}) \/ asked = "throws")

SendsFinal ==
  sent' # sent =>
    \A k \in Keys : latest'[k].value # 0 =>
      \E e \in sent' : e.type = "vital" /\ e.key = k /\ e.value = latest'[k].value

\* index.ts:121 "we track the latest value of every metric ... and send it on the
\* next flush only if it changed since the last send": after a flush that sends,
\* the current value of every metric has been sent.
FinalValueSent == [][SendsFinal]_vars
=============================================================================
