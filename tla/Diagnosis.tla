------------------------------ MODULE Diagnosis ------------------------------
(***************************************************************************)
(* The runbooks diagnose_service and diagnose_slow_requests of the hub     *)
(* (src/hub/runbooks.ts): steps that run at once and of which some ask the *)
(* probes of the workload's pods, one call after the other, through one    *)
(* ProbeClient and its negative cache.                                     *)
(*                                                                         *)
(* What a step does with an answer is left out, where it goes on is not:   *)
(* per pod a step makes its calls in groups; a call that fails skips the   *)
(* rest of its group, and the rest of the pod if it is the first and the   *)
(* step is guarded by it.  The steps that ask Kubernetes only are one.     *)
(***************************************************************************)
EXTENDS Integers, Sequences

CONSTANTS
  Steps,          \* the steps of the runbook, of StepNames
  Pods,           \* the pods a step may look at, 10 at most
  JVM, POOL,      \* calls per pod: 13 meters of the JVM, 10 of the pool
  TARGETS, URIS,  \* downstreams and endpoints looked at, at most 30 and 25
  EXTERNALS,      \* providers before the native one
  NEGATIVE_CACHE, PROBE_TIMEOUT, ACTUATOR_TIMEOUT, LATENCY, LATENESS

StepNames == {"kubernetes", "jvm", "pool", "outbound", "golden", "threads", "access"}

ASSUME DiagnosisAssumption ==
  /\ Steps \subseteq StepNames
  /\ JVM \in Nat \ {0} /\ POOL \in Nat \ {0}
  /\ TARGETS \in Nat /\ URIS \in Nat /\ EXTERNALS \in Nat
  /\ NEGATIVE_CACHE \in Nat \ {0} /\ PROBE_TIMEOUT \in Nat \ {0}
  /\ ACTUATOR_TIMEOUT \in Nat /\ LATENCY \in Nat /\ LATENESS \in Nat

VARIABLES
  up, jvm, calls, until, result, past,   \* of ProbeClient
  bare,      \* pods without a probe or without an IP
  phase,     \* of the tool call: "idle", "resolving", "running"
  outcome,   \* what the latest tool call was answered with
  step,      \* per step: where it is
  vain       \* history, per step and pod: the step's calls that ended at the
             \* pod's probe in vain since it last answered

client == <<up, jvm, calls, until, result, past>>
vars   == <<client, bare, phase, outcome, step, vain>>

Probe == INSTANCE ProbeClient WITH Calls <- Steps, Bases <- Pods

Ones(n) == [i \in 1 .. n |-> 1]

\* Per step its groups of calls at a pod, the groups after which the pod may be
\* over, and what a first call that fails means.
JvmCalls      == [groups |-> Ones(JVM), ends |-> {JVM}, first |-> "goes on"]
PoolCalls     == [groups |-> Ones(POOL), ends |-> {POOL}, first |-> "next pod"]
OutboundCalls == [groups |-> Ones(1 + 2 * TARGETS), first |-> "next pod",
                  ends |-> {1 + 2 * n : n \in 0 .. TARGETS}]
GoldenCalls   == [groups |-> <<1, 1, 2>> \o [i \in 1 .. URIS |-> 2], first |-> "next pod",
                  ends |-> {3 + n : n \in 0 .. URIS}]
ThreadCalls   == [groups |-> Ones(1), ends |-> {1}, first |-> "throws"]
AccessCalls   == [groups |-> Ones(1), ends |-> {1}, first |-> "goes on"]

Program(s) ==
  CASE s = "jvm"      -> JvmCalls
    [] s = "pool"     -> PoolCalls
    [] s = "outbound" -> OutboundCalls
    [] s = "golden"   -> GoldenCalls
    [] s = "threads"  -> ThreadCalls
    [] OTHER          -> AccessCalls

Path(s) == IF s = "access" THEN "other" ELSE "actuator"

At(st)      == [st |-> st]
Done(ok)    == At(IF ok THEN "ok" ELSE "failed")
Asks(p, ps) == [st |-> "asking", pod |-> p, left |-> ps, group |-> 1, call |-> 1]
Tries(n)    == [st |-> "providers", nth |-> n]

Asking(s) == step[s].st = "asking"
AtWork(s) == Asking(s) /\ ~Probe!Flying(s)   \* it runs, or is about to
Pod(s)    == step[s].pod
Over(s)   == step[s].st \in {"ok", "failed"}
Moves(s, to) == step' = [step EXCEPT ![s] = to]

Init ==
  /\ Probe!Init
  /\ bare \in SUBSET Pods
  /\ phase = "idle" /\ outcome = "none"
  /\ step = [s \in Steps |-> At("waiting")]
  /\ vain = [s \in Steps |-> [p \in Pods |-> 0]]

-----------------------------------------------------------------------------
\* The client calls the tool, which resolves the workload first ...
Invoke ==
  /\ phase = "idle"
  /\ phase' = "resolving"
  /\ step' = [s \in Steps |-> At("waiting")]
  /\ vain' = [s \in Steps |-> [p \in Pods |-> 0]]
  /\ UNCHANGED <<client, bare, outcome>>

\* ... and fails with it: makeRunner turns the exception into a result.
Unresolved ==
  /\ phase = "resolving"
  /\ phase' = "idle" /\ outcome' = "error"
  /\ UNCHANGED <<client, bare, step, vain>>

\* Promise.all: every step is started, none waits for another.
StartAll ==
  /\ phase = "resolving"
  /\ phase' = "running"
  /\ step' = [s \in Steps |-> At("looking")]
  /\ UNCHANGED <<client, bare, outcome, vain>>

\* Promise.all resolves when the last step has ended, failed ones included.
Return ==
  /\ phase = "running" /\ \A s \in Steps : Over(s)
  /\ phase' = "idle" /\ outcome' = "report"
  /\ UNCHANGED <<client, bare, step, vain>>

-----------------------------------------------------------------------------
\* One pod after the other, in the order in which Kubernetes listed them.
NextOf(ps) == IF ps = {} THEN {Done(TRUE)} ELSE {Asks(p, ps \ {p}) : p \in ps}

\* A step with the pods ps to ask; the thread dump is of the first.
AskPods(s, ps) ==
  IF s # "threads" THEN NextOf(ps)
  ELSE IF ps = {} THEN {Done(FALSE)} ELSE {Asks(p, {}) : p \in ps}

\* Each step asks Kubernetes for itself, most by resolving the workload again:
\* its call fails, or finds some of the pods running.
Look(s) ==
  /\ step[s].st = "looking"
  /\ \/ Moves(s, Done(FALSE))
     \/ s = "kubernetes" /\ Moves(s, Done(TRUE))
     \/ s = "golden" /\ Moves(s, Tries(1))
     \/ s \notin {"kubernetes", "golden"}
        /\ \E ps \in SUBSET Pods : \E y \in AskPods(s, ps) : Moves(s, y)
  /\ UNCHANGED <<client, bare, phase, outcome, vain>>

\* ProviderRegistry.first: a provider has the signals, or nothing, or throws,
\* and the next one is tried; the last is the native one, which lists the pods.
Provider(s) ==
  /\ step[s].st = "providers"
  /\ \/ Moves(s, Done(TRUE))
     \/ step[s].nth <= EXTERNALS /\ Moves(s, Tries(step[s].nth + 1))
     \/ step[s].nth > EXTERNALS
        /\ \E ps \in SUBSET Pods : \E y \in AskPods(s, ps) : Moves(s, y)
  /\ UNCHANGED <<client, bare, phase, outcome, vain>>

-----------------------------------------------------------------------------
NextPod(x) == NextOf(x.left)

NextGroup(s, x) ==
  {y \in NextPod(x) : x.group \in Program(s).ends} \cup
  {y \in {[x EXCEPT !.group = @ + 1, !.call = 1]} : x.group < Len(Program(s).groups)}

\* After a call that brought something.
Onward(s, x) ==
  IF x.call < Program(s).groups[x.group] THEN {[x EXCEPT !.call = @ + 1]} ELSE NextGroup(s, x)

\* Slip: it is tried again.
SkippedRetries(s, x) == {x}

\* After one that did not: caught, except in the thread dump.
Skipped(s, x) ==
  IF x.group > 1 \/ Program(s).first = "goes on" THEN NextGroup(s, x)
  ELSE IF Program(s).first = "throws" THEN {Done(FALSE)} ELSE NextPod(x)

Fails(s) == \E y \in Skipped(s, step[s]) : Moves(s, y)

-----------------------------------------------------------------------------
\* baseUrl: there is no probe to call.
NoProbe(s) ==
  /\ AtWork(s) /\ Pod(s) \in bare
  /\ Fails(s)
  /\ UNCHANGED <<client, bare, phase, outcome, vain>>

FailFast(s) ==
  /\ AtWork(s) /\ Pod(s) \notin bare
  /\ Probe!FailFast(s, Pod(s))
  /\ Fails(s)
  /\ UNCHANGED <<bare, phase, outcome, vain>>

Send(s) ==
  /\ AtWork(s) /\ Pod(s) \notin bare
  /\ Probe!Send(s, Pod(s), Path(s))
  /\ UNCHANGED <<bare, phase, outcome, step, vain>>

\* The probe's answer holds the value or says that there is none, which only the
\* thread dump takes for an answer; a body that is no metric throws out of the
\* native provider, and the registry catches it.
Answer(s) ==
  /\ Asking(s) /\ Probe!Ok(s)
  /\ \/ \E y \in Onward(s, step[s]) : Moves(s, y)
     \/ Program(s).first # "throws" /\ Fails(s)
     \/ s = "golden" /\ step[s].group = 1 /\ Moves(s, Done(TRUE))
  /\ vain' = [t \in Steps |-> [vain[t] EXCEPT ![Pod(s)] = 0]]
  /\ UNCHANGED <<bare, phase, outcome>>

HttpError(s) ==
  /\ Asking(s) /\ Probe!HttpError(s)
  /\ Fails(s)
  /\ UNCHANGED <<bare, phase, outcome, vain>>

InVain(s) ==
  /\ Asking(s) /\ (Probe!Refused(s) \/ Probe!Abort(s))
  /\ Fails(s)
  /\ vain' = [vain EXCEPT ![s][Pod(s)] = @ + 1]
  /\ UNCHANGED <<bare, phase, outcome>>

\* What a step does between two calls takes no time.
Tick ==
  /\ \A s \in Steps : ~AtWork(s)
  /\ Probe!Tick
  /\ UNCHANGED <<bare, phase, outcome, step, vain>>

Outside ==
  /\ \E p \in Pods : Probe!Reach(p) \/ Probe!Jvm(p)
  /\ UNCHANGED <<bare, phase, outcome, step, vain>>

Turn(s) == NoProbe(s) \/ FailFast(s) \/ Send(s)
Ends(s) == Answer(s) \/ HttpError(s) \/ InVain(s)

Next ==
  \/ Invoke \/ Unresolved \/ StartAll \/ Return
  \/ \E s \in Steps : Look(s) \/ Provider(s) \/ Turn(s) \/ Ends(s)
  \/ Tick \/ Outside

Spec == Init /\ [][Next]_vars

\* Kubernetes and the providers answer or time out, the event loop runs what is
\* ready and the timers that are due, answers that are on their way again and
\* again arrive, and time passes: the world does not change its mind for ever in
\* one instant.
Fairness ==
  /\ WF_vars(Unresolved \/ StartAll) /\ WF_vars(Return) /\ SF_vars(Tick)
  /\ \A s \in Steps :
       /\ WF_vars(Look(s)) /\ WF_vars(Provider(s)) /\ WF_vars(Turn(s))
       /\ WF_vars(Asking(s) /\ Probe!Abort(s) /\ InVain(s))
       /\ SF_vars(Answer(s) \/ HttpError(s))

FairSpec == Spec /\ Fairness

-----------------------------------------------------------------------------
Places ==
  {At(st) : st \in {"waiting", "looking", "ok", "failed"}} \cup {Tries(n) : n \in 1 .. EXTERNALS + 1} \cup
  [st : {"asking"}, pod : Pods, left : SUBSET Pods, group : Nat \ {0}, call : Nat \ {0}]

\* The types of a diagnosis; a step that asks is at a call of its program.
TypeOK ==
  /\ Probe!TypeOK
  /\ bare \subseteq Pods
  /\ phase \in {"idle", "resolving", "running"} /\ outcome \in {"none", "error", "report"}
  /\ step \in [Steps -> Places]
  /\ \A s \in Steps :
       /\ Asking(s) =>
            /\ Pod(s) \notin step[s].left /\ step[s].group \in DOMAIN Program(s).groups
            /\ step[s].call \in 1 .. Program(s).groups[step[s].group]
       /\ Probe!Flying(s) => Asking(s) /\ calls[s].base = Pod(s)
  /\ vain \in [Steps -> [Pods -> Nat]]

\* However many calls a step has for a pod and whatever the other steps do, it
\* waits in vain for the pod's probe once, until the probe has answered some
\* step again (client.ts:21 "fail fast instead of stacking timeouts").
CostsOnce == \A s \in Steps, p \in Pods : vain[s][p] <= 1

\* Every diagnosis ends with a report or an error, whatever fails
\* (runbooks.ts:30-37, server.ts:30-45).
Answered == phase # "idle" ~> phase = "idle"
=============================================================================
