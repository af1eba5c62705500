----------------------------- MODULE ProbeClient -----------------------------
(***************************************************************************)
(* The hub's client of the probe sidecars (src/probe/client.ts): get(),    *)
(* its abort timer, and the negative cache unreachableUntil, under the     *)
(* concurrent calls that tools and runbooks make.                          *)
(*                                                                         *)
(* Times are differences with Date.now(): until[b] is what is left of b's  *)
(* cache entry, 0 when there is none or it has run out; a call's age is    *)
(* the time since its fetch began.  The probe side is external to the      *)
(* client: it may be reachable or not, and its /actuator handler waits for *)
(* the JVM up to a bound of its own (src/probe/server.ts:299).             *)
(***************************************************************************)
EXTENDS Integers

CONSTANTS
  Calls,            \* concurrent invocations of get()
  Bases,            \* probe base URLs
  NEGATIVE_CACHE,   \* NEGATIVE_CACHE_MS, 20 s
  PROBE_TIMEOUT,    \* probeTimeoutMs, 5 s
  ACTUATOR_TIMEOUT, \* the probe's own bound on the JVM's answer, 8 s
  LATENCY,          \* the probe answers any other request within this
  LATENESS          \* how late the event loop may run an expired timer

ASSUME TimesAssumption ==
  /\ NEGATIVE_CACHE \in Nat \ {0} /\ PROBE_TIMEOUT \in Nat \ {0}
  /\ ACTUATOR_TIMEOUT \in Nat /\ LATENCY \in Nat /\ LATENESS \in Nat

VARIABLES
  up, jvm,   \* per base: the probe can be reached; the JVM answers Actuator
  calls,     \* per call: where it is and what it waits for
  until,     \* the negative cache
  result,    \* how each call's latest get() ended
  past       \* history, per base: the latest result that bears on the cache
             \* and its age

vars == <<up, jvm, calls, until, result, past>>

Paths == {"actuator", "other"}
Idle  == [st |-> "idle"]
Sent(b, p) == [st |-> "sent", base |-> b, path |-> p, age |-> 0, clean |-> up[b]]

Flying(c) == calls[c].st = "sent"
InFlight  == {c \in Calls : Flying(c)}

Init ==
  /\ up \in [Bases -> BOOLEAN] /\ jvm \in [Bases -> BOOLEAN]
  /\ calls = [c \in Calls |-> Idle]
  /\ until = [b \in Bases |-> 0]
  /\ result = [c \in Calls |-> "none"]
  /\ past = [b \in Bases |-> [was |-> "none", since |-> 0]]

-----------------------------------------------------------------------------
\* The entry is in the future: get() throws before any request is made.
FailFast(c, b) ==
  /\ ~Flying(c) /\ until[b] > 0
  /\ result' = [result EXCEPT ![c] = "unavailable"]
  /\ UNCHANGED <<up, jvm, calls, until, past>>

\* Slip: the cache is not consulted.
SendUnchecked(c, b, p) ==
  /\ ~Flying(c)
  /\ calls' = [calls EXCEPT ![c] = Sent(b, p)]
  /\ UNCHANGED <<up, jvm, until, result, past>>

Send(c, b, p) ==
  /\ ~Flying(c) /\ until[b] = 0
  /\ calls' = [calls EXCEPT ![c] = Sent(b, p)]
  /\ UNCHANGED <<up, jvm, until, result, past>>

\* The probe has an answer for the call: it is reachable, and does not wait
\* for the JVM (any more).
Answerable(c) ==
  /\ Flying(c) /\ up[calls[c].base]
  /\ \/ calls[c].path = "other" \/ jvm[calls[c].base]
     \/ calls[c].age >= ACTUATOR_TIMEOUT

End(c, how) == /\ calls' = [calls EXCEPT ![c] = Idle]
               /\ result' = [result EXCEPT ![c] = how]
               /\ UNCHANGED <<up, jvm>>

Ok(c) ==
  LET b == calls[c].base
  IN  /\ Answerable(c)
      /\ calls[c].path = "other" \/ jvm[b]
      /\ End(c, "ok")
      /\ until' = [until EXCEPT ![b] = 0]
      /\ past' = [past EXCEPT ![b] = [was |-> "ok", since |-> 0]]

\* Slip: an HTTP error is cached like a failure to reach the probe.
HttpErrorCached(c) ==
  /\ Answerable(c)
  /\ End(c, "unavailable")
  /\ until' = [until EXCEPT ![calls[c].base] = NEGATIVE_CACHE]
  /\ UNCHANGED past

\* An answer with an error status: thrown on as it is, the cache is not touched.
HttpError(c) ==
  /\ Answerable(c)
  /\ End(c, "unavailable")
  /\ UNCHANGED <<until, past>>

\* Everything else ends in the catch: a refused connection, a body that is no
\* JSON (both here: something other than the probe answered) ...
Unreachable(c) ==
  LET b == calls[c].base
  IN  /\ End(c, "unavailable")
      /\ until' = [until EXCEPT ![b] = NEGATIVE_CACHE]
      /\ past' = [past EXCEPT ![b] = [was |-> "failed", since |-> 0]]

Refused(c) == Flying(c) /\ ~calls[c].clean /\ Unreachable(c)

\* Slip: the timer is started when the headers are in.
AbortBodyOnly(c) ==
  Flying(c) /\ up[calls[c].base] /\ calls[c].age >= PROBE_TIMEOUT /\ Unreachable(c)

\* ... and the abort timer, which covers the headers and the body.
Abort(c) == Flying(c) /\ calls[c].age >= PROBE_TIMEOUT /\ Unreachable(c)

-----------------------------------------------------------------------------
\* The probe goes out of reach or comes back (pod restart, network).
Reach(b) ==
  /\ up' = [up EXCEPT ![b] = ~@]
  /\ calls' = [c \in Calls |-> IF Flying(c) /\ calls[c].base = b /\ ~up'[b]
                               THEN [calls[c] EXCEPT !.clean = FALSE] ELSE calls[c]]
  /\ UNCHANGED <<jvm, until, result, past>>

\* The JVM behind the probe stops or resumes answering (GC, pool exhausted).
Jvm(b) ==
  /\ jvm' = [jvm EXCEPT ![b] = ~@]
  /\ UNCHANGED <<up, calls, until, result, past>>

\* Time does not pass a timer's lateness, nor an answer's latency.
Overdue(c) ==
  /\ Flying(c)
  /\ \/ calls[c].age >= PROBE_TIMEOUT + LATENESS
     \/ Answerable(c) /\ calls[c].clean /\ calls[c].age >= LATENCY

\* Slip: an entry is never compared with the clock.
TickKeepsEntry ==
  /\ \A c \in Calls : ~Overdue(c)
  /\ calls' = [c \in Calls |-> IF Flying(c) THEN [calls[c] EXCEPT !.age = @ + 1] ELSE calls[c]]
  /\ past' = [b \in Bases |-> [past[b] EXCEPT !.since = IF @ < NEGATIVE_CACHE THEN @ + 1 ELSE @]]
  /\ UNCHANGED <<up, jvm, until, result>>

Tick ==
  /\ \A c \in Calls : ~Overdue(c)
  /\ calls' = [c \in Calls |-> IF Flying(c) THEN [calls[c] EXCEPT !.age = @ + 1] ELSE calls[c]]
  /\ until' = [b \in Bases |-> IF until[b] > 0 THEN until[b] - 1 ELSE 0]
  /\ past' = [b \in Bases |-> [past[b] EXCEPT !.since = IF @ < NEGATIVE_CACHE THEN @ + 1 ELSE @]]
  /\ UNCHANGED <<up, jvm, result>>

Next ==
  \/ \E c \in Calls, b \in Bases : FailFast(c, b)
  \/ \E c \in Calls, b \in Bases, p \in Paths : Send(c, b, p)
  \/ \E c \in Calls : Ok(c) \/ HttpError(c) \/ Refused(c) \/ Abort(c)
  \/ \E b \in Bases : Reach(b) \/ Jvm(b)
  \/ Tick

\* Timers fire, answers on their way arrive, and time passes however often the
\* environment changes in between.
Fairness ==
  /\ SF_vars(Tick)
  /\ \A c \in Calls : WF_vars(Abort(c)) /\ WF_vars(Ok(c) \/ HttpError(c))

Spec     == Init /\ [][Next]_vars
FairSpec == Spec /\ Fairness

-----------------------------------------------------------------------------
Flight == [st : {"sent"}, base : Bases, path : Paths, age : Nat, clean : BOOLEAN]

\* The types of the client's state.
TypeOK ==
  /\ up \in [Bases -> BOOLEAN] /\ jvm \in [Bases -> BOOLEAN]
  /\ calls \in [Calls -> {Idle} \cup Flight]
  /\ until \in [Bases -> 0 .. NEGATIVE_CACHE]
  /\ result \in [Calls -> {"none", "ok", "unavailable"}]
  /\ past \in [Bases -> [was : {"none", "ok", "failed"}, since : 0 .. NEGATIVE_CACHE]]

\* While a base is cached every call on its way to it was sent before the
\* failure that cached it: none is sent inside the window (client.ts:46).
WindowRespected ==
  \A c \in InFlight :
    LET b == calls[c].base
    IN  until[b] > 0 => calls[c].age >= NEGATIVE_CACHE - until[b]

\* Whatever the interleaving of calls, a base is cached exactly while its
\* latest result, HTTP errors apart, is a failure less than the cache's
\* lifetime ago (client.ts:62-68).
CacheExact ==
  \A b \in Bases :
    until[b] = IF past[b].was = "failed" THEN NEGATIVE_CACHE - past[b].since ELSE 0

\* Every get() ends (client.ts:52-70).
CallsEnd == \A c \in Calls : Flying(c) ~> ~Flying(c)

\* Once a probe stays reachable and its JVM responsive, the client in the end
\* stops refusing to call it (client.ts:46, 62, 66).
Recovers ==
  \A b \in Bases : <>[](up[b] /\ jvm[b]) => <>[](until[b] = 0)
=============================================================================
