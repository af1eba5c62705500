--------------------------- MODULE DiagnosisProofs ---------------------------
(***************************************************************************)
(* Safety of the diagnoses, for any steps, pods, programs and durations:   *)
(* they use the client as ProbeClient says, and a dead probe costs a step  *)
(* one call in vain.                                                       *)
(***************************************************************************)
EXTENDS Diagnosis, TLAPS

ClientProofs == INSTANCE ProbeClientProofs WITH Calls <- Steps, Bases <- Pods

-----------------------------------------------------------------------------
(***************************************************************************)
(* Where a step may be, and where it may go from there.                    *)
(***************************************************************************)

\* A place of s from which its program can go on.
GoodPlace(s, x) ==
  /\ x \in Places
  /\ x.st = "asking" =>
       /\ x.pod \notin x.left /\ x.group \in DOMAIN Program(s).groups
       /\ x.call \in 1 .. Program(s).groups[x.group]

\* From the pod of x, y is at that pod or at one of those that x has left.
Later(x, y) ==
  \/ y.st \in {"ok", "failed"}
  \/ /\ y.st = "asking" /\ x.st = "asking"
     /\ \/ y.pod = x.pod /\ y.left = x.left
        \/ y.pod \in x.left /\ y.left \subseteq x.left

LEMMA ProgramFacts ==
  ASSUME NEW s \in Steps
  PROVE  /\ Program(s).groups \in Seq(Nat \ {0})
         /\ Len(Program(s).groups) \in Nat \ {0}
<1>. USE DiagnosisAssumption
<1>1. ASSUME NEW n \in Nat \ {0}
      PROVE  Ones(n) \in Seq(Nat \ {0}) /\ Len(Ones(n)) = n
  BY <1>1 DEF Ones
<1>2. JvmCalls.groups \in Seq(Nat \ {0}) /\ Len(JvmCalls.groups) \in Nat \ {0}
  BY <1>1 DEF JvmCalls
<1>3. PoolCalls.groups \in Seq(Nat \ {0}) /\ Len(PoolCalls.groups) \in Nat \ {0}
  BY <1>1 DEF PoolCalls
<1>4. OutboundCalls.groups \in Seq(Nat \ {0}) /\ Len(OutboundCalls.groups) \in Nat \ {0}
  <2>1. 1 + 2 * TARGETS \in Nat \ {0}
    OBVIOUS
  <2>. QED
    BY <1>1, <2>1 DEF OutboundCalls
<1>5. GoldenCalls.groups \in Seq(Nat \ {0}) /\ Len(GoldenCalls.groups) \in Nat \ {0}
  <2>. DEFINE twos == [i \in 1 .. URIS |-> 2]
  <2>1. twos \in Seq(Nat \ {0}) /\ Len(twos) = URIS
    OBVIOUS
  <2>2. <<1, 1, 2>> \in Seq(Nat \ {0}) /\ Len(<<1, 1, 2>>) = 3
    OBVIOUS
  <2>. HIDE DEF twos
  <2>3. <<1, 1, 2>> \o twos \in Seq(Nat \ {0}) /\ Len(<<1, 1, 2>> \o twos) = 3 + URIS
    BY <2>1, <2>2
  <2>4. GoldenCalls.groups = <<1, 1, 2>> \o twos
    BY DEF GoldenCalls, twos
  <2>. QED
    BY <2>3, <2>4
<1>6. ThreadCalls.groups \in Seq(Nat \ {0}) /\ Len(ThreadCalls.groups) \in Nat \ {0}
  BY <1>1 DEF ThreadCalls
<1>7. AccessCalls.groups \in Seq(Nat \ {0}) /\ Len(AccessCalls.groups) \in Nat \ {0}
  BY <1>1 DEF AccessCalls
<1>. QED
  BY <1>2, <1>3, <1>4, <1>5, <1>6, <1>7 DEF Program

LEMMA StillPlaces ==
  ASSUME NEW s \in Steps, NEW st \in {"waiting", "looking", "ok", "failed"}
  PROVE  GoodPlace(s, At(st)) /\ At(st).st = st
BY DEF GoodPlace, Places, At

LEMMA TriesGood ==
  ASSUME NEW s \in Steps, NEW n \in 1 .. EXTERNALS + 1
  PROVE  GoodPlace(s, Tries(n)) /\ Tries(n).st = "providers" /\ Tries(n).nth = n
BY DEF GoodPlace, Places, Tries

LEMMA AsksGood ==
  ASSUME NEW s \in Steps, NEW p \in Pods, NEW ps \in SUBSET Pods, p \notin ps
  PROVE  /\ GoodPlace(s, Asks(p, ps))
         /\ Asks(p, ps).st = "asking" /\ Asks(p, ps).pod = p /\ Asks(p, ps).left = ps
<1>1. /\ Asks(p, ps).st = "asking" /\ Asks(p, ps).pod = p /\ Asks(p, ps).left = ps
      /\ Asks(p, ps).group = 1 /\ Asks(p, ps).call = 1
  BY DEF Asks
<1>2. Asks(p, ps) \in Places
  BY DEF Asks, Places
<1>3. 1 \in DOMAIN Program(s).groups /\ 1 \in 1 .. Program(s).groups[1]
  BY ProgramFacts
<1>. QED
  BY <1>1, <1>2, <1>3 DEF GoodPlace

LEMMA NextOfGood ==
  ASSUME NEW s \in Steps, NEW ps \in SUBSET Pods, NEW y \in NextOf(ps)
  PROVE  /\ GoodPlace(s, y)
         /\ y.st = "ok" \/ (y.st = "asking" /\ y.pod \in ps /\ y.left \subseteq ps)
<1>1. CASE ps = {}
  BY <1>1, StillPlaces DEF NextOf, Done
<1>2. CASE ps # {}
  <2>1. PICK p \in ps : y = Asks(p, ps \ {p})
    BY <1>2 DEF NextOf
  <2>. QED
    BY <2>1, AsksGood
<1>. QED
  BY <1>1, <1>2

LEMMA AskPodsGood ==
  ASSUME NEW s \in Steps, NEW ps \in SUBSET Pods, NEW y \in AskPods(s, ps)
  PROVE  GoodPlace(s, y) /\ y.st \in {"ok", "failed", "asking"}
<1>1. CASE s # "threads"
  BY <1>1, NextOfGood DEF AskPods
<1>2. CASE s = "threads" /\ ps = {}
  BY <1>2, StillPlaces DEF AskPods, Done
<1>3. CASE s = "threads" /\ ps # {}
  <2>1. PICK p \in ps : y = Asks(p, {})
    BY <1>3 DEF AskPods
  <2>. QED
    BY <2>1, AsksGood
<1>. QED
  BY <1>1, <1>2, <1>3

-----------------------------------------------------------------------------
LEMMA AskingShape ==
  ASSUME NEW x \in Places, x.st = "asking"
  PROVE  x \in [st : {"asking"}, pod : Pods, left : SUBSET Pods,
                group : Nat \ {0}, call : Nat \ {0}]
BY DEF Places, At, Tries

LEMMA NextGroupGood ==
  ASSUME NEW s \in Steps, NEW x, GoodPlace(s, x), x.st = "asking", NEW y \in NextGroup(s, x)
  PROVE  GoodPlace(s, y) /\ Later(x, y)
<1>1. x \in [st : {"asking"}, pod : Pods, left : SUBSET Pods, group : Nat \ {0}, call : Nat \ {0}]
  BY AskingShape DEF GoodPlace
<1>2. CASE y \in NextPod(x)
  BY <1>1, <1>2, NextOfGood DEF NextPod, Later
<1>3. CASE y = [x EXCEPT !.group = @ + 1, !.call = 1] /\ x.group < Len(Program(s).groups)
  <2>1. /\ y.st = "asking" /\ y.pod = x.pod /\ y.left = x.left
        /\ y.group = x.group + 1 /\ y.call = 1
        /\ y \in [st : {"asking"}, pod : Pods, left : SUBSET Pods,
                  group : Nat \ {0}, call : Nat \ {0}]
    <3>1. /\ x.group + 1 \in Nat \ {0} /\ 1 \in Nat \ {0}
          /\ x.st = "asking" /\ x.pod \in Pods /\ x.left \in SUBSET Pods
      BY <1>1
    <3>2. y = [st |-> x.st, pod |-> x.pod, left |-> x.left, group |-> x.group + 1, call |-> 1]
      BY <1>1, <1>3
    <3>. QED
      BY <3>1, <3>2
  <2>2. x.group + 1 \in DOMAIN Program(s).groups
    BY <1>1, <1>3, ProgramFacts
  <2>3. 1 \in 1 .. Program(s).groups[x.group + 1]
    BY <2>2, ProgramFacts
  <2>4. y \in Places
    BY <2>1 DEF Places
  <2>5. y.pod \notin y.left
    BY <2>1 DEF GoodPlace
  <2>. QED
    BY <2>1, <2>2, <2>3, <2>4, <2>5 DEF GoodPlace, Later
<1>. QED
  BY <1>2, <1>3 DEF NextGroup

LEMMA SkippedGood ==
  ASSUME NEW s \in Steps, NEW x, GoodPlace(s, x), x.st = "asking", NEW y \in Skipped(s, x)
  PROVE  GoodPlace(s, y) /\ Later(x, y)
<1>1. x.left \in SUBSET Pods
  BY AskingShape DEF GoodPlace
<1>2. CASE y \in NextGroup(s, x)
  BY <1>2, NextGroupGood
<1>3. CASE y = Done(FALSE)
  BY <1>3, StillPlaces DEF Done, Later
<1>4. CASE y \in NextPod(x)
  BY <1>1, <1>4, NextOfGood DEF NextPod, Later
<1>. QED
  BY <1>2, <1>3, <1>4 DEF Skipped

LEMMA OnwardGood ==
  ASSUME NEW s \in Steps, NEW x, GoodPlace(s, x), x.st = "asking", NEW y \in Onward(s, x)
  PROVE  GoodPlace(s, y) /\ Later(x, y)
<1>1. x \in [st : {"asking"}, pod : Pods, left : SUBSET Pods, group : Nat \ {0}, call : Nat \ {0}]
  BY AskingShape DEF GoodPlace
<1>2. CASE y \in NextGroup(s, x)
  BY <1>2, NextGroupGood
<1>3. CASE y = [x EXCEPT !.call = @ + 1] /\ x.call < Program(s).groups[x.group]
  <2>1. /\ y.st = "asking" /\ y.pod = x.pod /\ y.left = x.left
        /\ y.group = x.group /\ y.call = x.call + 1
        /\ y \in [st : {"asking"}, pod : Pods, left : SUBSET Pods,
                  group : Nat \ {0}, call : Nat \ {0}]
    BY <1>1, <1>3
  <2>2. x.group \in DOMAIN Program(s).groups /\ Program(s).groups[x.group] \in Nat
    BY ProgramFacts DEF GoodPlace
  <2>3. x.call + 1 \in 1 .. Program(s).groups[x.group]
    BY <1>1, <1>3, <2>2
  <2>4. y \in Places
    BY <2>1 DEF Places
  <2>5. y.pod \notin y.left
    BY <2>1 DEF GoodPlace
  <2>. QED
    BY <2>1, <2>2, <2>3, <2>4, <2>5 DEF GoodPlace, Later
<1>. QED
  BY <1>2, <1>3 DEF Onward

-----------------------------------------------------------------------------
(***************************************************************************)
(* A diagnosis is a use of the client: its types are the client's.         *)
(***************************************************************************)

Flights == \A s \in Steps : Probe!Flying(s) => Asking(s) /\ calls[s].base = Pod(s)

Types ==
  /\ Probe!TypeOK
  /\ bare \subseteq Pods
  /\ phase \in {"idle", "resolving", "running"} /\ outcome \in {"none", "error", "report"}
  /\ step \in [Steps -> Places] /\ \A s \in Steps : GoodPlace(s, step[s])
  /\ vain \in [Steps -> [Pods -> Nat]]

LEMMA TypeParts == TypeOK <=> Types /\ Flights
BY DEF TypeOK, Types, Flights, GoodPlace, Asking, Pod

LEMMA ClientStep ==
  ASSUME Types, [Next]_vars
  PROVE  [Probe!Next]_client
<1>. SUFFICES ASSUME Next
              PROVE  Probe!Next \/ UNCHANGED client
  BY DEF vars
<1>1. CASE Invoke \/ Unresolved \/ StartAll \/ Return
  BY <1>1 DEF Invoke, Unresolved, StartAll, Return
<1>2. CASE Tick \/ Outside
  BY <1>2 DEF Tick, Outside, Probe!Next
<1>3. ASSUME NEW s \in Steps, Look(s) \/ Provider(s) \/ NoProbe(s)
      PROVE  UNCHANGED client
  BY <1>3 DEF Look, Provider, NoProbe
<1>4. ASSUME NEW s \in Steps, FailFast(s) \/ Send(s)
      PROVE  Probe!Next
  <2>1. Pod(s) \in Pods
    BY <1>4, AskingShape DEF FailFast, Send, AtWork, Asking, Pod, Types
  <2>2. Path(s) \in Probe!Paths
    BY DEF Path, Probe!Paths
  <2>. QED
    BY <1>4, <2>1, <2>2 DEF FailFast, Send, Probe!Next
<1>5. ASSUME NEW s \in Steps, Ends(s)
      PROVE  Probe!Next
  BY <1>5 DEF Ends, Answer, HttpError, InVain, Probe!Next
<1>. QED
  BY <1>1, <1>2, <1>3, <1>4, <1>5 DEF Next, Turn

LEMMA ClientInit == Init => Probe!TypeOK
<1>1. ClientProofs!Init => ClientProofs!TypeOK
  BY DiagnosisAssumption, ClientProofs!InitType
<1>2. Init => ClientProofs!Init
  BY DEF Init, Probe!Init, ClientProofs!Init, Probe!Idle, ClientProofs!Idle
<1>3. ClientProofs!TypeOK => Probe!TypeOK
  BY DEF Probe!TypeOK, ClientProofs!TypeOK, Probe!Idle, ClientProofs!Idle,
         Probe!Flight, ClientProofs!Flight, Probe!Paths, ClientProofs!Paths
<1>. QED
  BY <1>1, <1>2, <1>3

LEMMA ClientTypes ==
  ASSUME Types, [Next]_vars
  PROVE  Probe!TypeOK'
<1>1. ClientProofs!TypeOK /\ [ClientProofs!Next]_ClientProofs!vars => ClientProofs!TypeOK'
  BY DiagnosisAssumption, ClientProofs!NextType
<1>2. ClientProofs!TypeOK <=> Probe!TypeOK
  BY DEF Probe!TypeOK, ClientProofs!TypeOK, Probe!Idle, ClientProofs!Idle,
         Probe!Flight, ClientProofs!Flight, Probe!Paths, ClientProofs!Paths
<1>3. ClientProofs!TypeOK' <=> Probe!TypeOK'
  BY DEF Probe!TypeOK, ClientProofs!TypeOK, Probe!Idle, ClientProofs!Idle,
         Probe!Flight, ClientProofs!Flight, Probe!Paths, ClientProofs!Paths
<1>4. Probe!Next => ClientProofs!Next
  <2>1. \A c \in Steps, b \in Pods : Probe!FailFast(c, b) => ClientProofs!FailFast(c, b)
    BY DEF Probe!FailFast, ClientProofs!FailFast, Probe!Flying, ClientProofs!Flying
  <2>2. \A c \in Steps, b \in Pods, q \in Probe!Paths :
          Probe!Send(c, b, q) => ClientProofs!Send(c, b, q)
    BY DEF Probe!Send, ClientProofs!Send, Probe!Sent, ClientProofs!Sent, Probe!Flying,
           ClientProofs!Flying
  <2>3. \A c \in Steps : Probe!Ok(c) => ClientProofs!Ok(c)
    BY DEF Probe!Ok, ClientProofs!Ok, Probe!Answerable, ClientProofs!Answerable,
           Probe!End, ClientProofs!End, Probe!Idle, ClientProofs!Idle, Probe!Flying,
           ClientProofs!Flying
  <2>4. \A c \in Steps : Probe!HttpError(c) => ClientProofs!HttpError(c)
    BY DEF Probe!HttpError, ClientProofs!HttpError, Probe!Answerable,
           ClientProofs!Answerable, Probe!End, ClientProofs!End, Probe!Idle,
           ClientProofs!Idle, Probe!Flying, ClientProofs!Flying
  <2>5. \A c \in Steps :
          (Probe!Refused(c) => ClientProofs!Refused(c)) /\ (Probe!Abort(c) => ClientProofs!Abort(c))
    BY DEF Probe!Refused, ClientProofs!Refused, Probe!Abort, ClientProofs!Abort,
           Probe!Unreachable, ClientProofs!Unreachable, Probe!End, ClientProofs!End,
           Probe!Idle, ClientProofs!Idle, Probe!Flying, ClientProofs!Flying
  <2>6. \A b \in Pods :
          (Probe!Reach(b) => ClientProofs!Reach(b)) /\ (Probe!Jvm(b) => ClientProofs!Jvm(b))
    BY DEF Probe!Reach, ClientProofs!Reach, Probe!Jvm, ClientProofs!Jvm, Probe!Flying,
           ClientProofs!Flying
  <2>7. Probe!Tick => ClientProofs!Tick
    BY DEF Probe!Tick, ClientProofs!Tick, Probe!Overdue, ClientProofs!Overdue, Probe!Answerable,
           ClientProofs!Answerable, Probe!Flying, ClientProofs!Flying
  <2>. QED
    BY <2>1, <2>2, <2>3, <2>4, <2>5, <2>6, <2>7, Zenon
    DEF Probe!Next, ClientProofs!Next, Probe!Paths, ClientProofs!Paths
<1>. QED
  BY <1>1, <1>2, <1>3, <1>4, ClientStep DEF Types, client, ClientProofs!vars

-----------------------------------------------------------------------------
(***************************************************************************)
(* The inductive invariant: besides the types, where steps may be in each  *)
(* phase, and what a step has spent on the pods it has seen and will see.  *)
(***************************************************************************)

Phases ==
  /\ phase = "idle" => \A s \in Steps : step[s].st \in {"waiting", "ok", "failed"}
  /\ phase = "resolving" => \A s \in Steps : step[s].st = "waiting"

\* Before a step asks nothing is spent, nor on the pods it has left; at the pod
\* it asks a call was in vain only if the pod is cached ever since.
Thrift(s) ==
  /\ \A p \in Pods : vain[s][p] \in {0, 1}
  /\ step[s].st \in {"waiting", "looking", "providers"} => \A p \in Pods : vain[s][p] = 0
  /\ Asking(s) =>
       /\ \A p \in step[s].left : vain[s][p] = 0
       /\ vain[s][Pod(s)] = 1 => until[Pod(s)] > 0 /\ ~Probe!Flying(s)

Thrifty == \A s \in Steps : Thrift(s)

DiagnosisInv == Types /\ Flights /\ Phases /\ Thrifty

LEMMA InitInv == Init => DiagnosisInv
<1>. SUFFICES ASSUME Init
              PROVE  DiagnosisInv
  OBVIOUS
<1>1. \A s \in Steps : step[s] = At("waiting") /\ step[s].st = "waiting"
  BY DEF Init, At
<1>2. \A s \in Steps : ~Probe!Flying(s)
  BY DEF Init, Probe!Init, Probe!Flying, Probe!Idle
<1>3. step \in [Steps -> Places] /\ \A s \in Steps : GoodPlace(s, step[s])
  BY <1>1, StillPlaces DEF Init, GoodPlace
<1>4. Types
  BY <1>3, ClientInit DEF Init, Types
<1>. QED
  BY <1>1, <1>2, <1>4 DEF Init, DiagnosisInv, Flights, Phases, Thrifty, Thrift, Asking

\* A step that asks goes on, having spent at most one call on its pod; the others
\* stay where they are.
LEMMA GoesOn ==
  ASSUME DiagnosisInv, Probe!TypeOK', NEW s \in Steps, Asking(s),
         NEW y, Moves(s, y), GoodPlace(s, y), Later(step[s], y),
         UNCHANGED <<bare, phase, outcome>>,
         vain' \in [Steps -> [Pods -> Nat]],
         ~Probe!Flying(s)', \A t \in Steps \ {s} : calls'[t] = calls[t],
         \A t \in Steps, p \in Pods :
           \/ vain'[t][p] = 0
           \/ vain'[t][p] = vain[t][p] /\ (until[p] > 0 => until'[p] > 0)
           \/ t = s /\ p = Pod(s) /\ vain'[t][p] = 1 /\ until'[p] > 0
  PROVE  DiagnosisInv'
<1>. USE DEF DiagnosisInv
<1>1. step'[s] = y /\ step' \in [Steps -> Places] /\ \A t \in Steps \ {s} : step'[t] = step[t]
  BY DEF Moves, Types, GoodPlace
<1>2. \A t \in Steps : GoodPlace(t, step'[t])
  BY <1>1 DEF Types
<1>3. Types'
  BY <1>1, <1>2 DEF Types, GoodPlace
<1>4. Flights'
  <2>. SUFFICES ASSUME NEW t \in Steps, Probe!Flying(t)'
                PROVE  Asking(t)' /\ calls'[t].base = Pod(t)'
    BY DEF Flights
  <2>1. t # s /\ Probe!Flying(t)
    BY DEF Probe!Flying
  <2>. QED
    BY <1>1, <2>1 DEF Flights, Asking, Pod
<1>5. Phases'
  <2>1. phase = "running"
    BY DEF Phases, Asking, Types
  <2>. QED
    BY <2>1 DEF Phases
<1>6. ASSUME NEW t \in Steps \ {s}
      PROVE  Thrift(t)'
  <2>1. Thrift(t) /\ step'[t] = step[t] /\ calls'[t] = calls[t]
    BY <1>1 DEF Thrifty
  <2>2. Asking(t) => Pod(t) \in Pods /\ step[t].left \subseteq Pods
    BY AskingShape DEF Types, Asking, Pod
  <2>. QED
    BY SMTT(20), <2>1, <2>2 DEF Thrift, Asking, Pod, Probe!Flying
<1>7. Thrift(s)'
  <2>1. Thrift(s) /\ step'[s] = y
    BY <1>1 DEF Thrifty
  <2>2. Pod(s) \in Pods /\ step[s].left \subseteq Pods /\ Pod(s) \notin step[s].left
    BY AskingShape DEF Types, Asking, Pod, GoodPlace
  <2>3. \A p \in Pods : vain'[s][p] \in {0, 1}
    BY <2>1, <2>2 DEF Thrift
  <2>4. \A p \in step[s].left : vain'[s][p] = 0
    BY <2>1, <2>2 DEF Thrift, Asking
  <2>5. vain'[s][Pod(s)] = 1 => until'[Pod(s)] > 0
    BY <2>1, <2>2 DEF Thrift, Asking
  <2>. QED
    BY <2>1, <2>2, <2>3, <2>4, <2>5 DEF Thrift, Asking, Pod, Later
<1>. QED
  BY <1>3, <1>4, <1>5, <1>6, <1>7 DEF Thrifty

-----------------------------------------------------------------------------
\* What ends a call of s.
LEMMA EndsCall ==
  ASSUME Types, NEW s \in Steps, NEW how, Probe!End(s, how)
  PROVE  ~Probe!Flying(s)' /\ \A t \in Steps \ {s} : calls'[t] = calls[t]
BY DEF Types, Probe!TypeOK, Probe!End, Probe!Flying, Probe!Idle

LEMMA FailsGoesOn ==
  ASSUME Types, NEW s \in Steps, Asking(s), Fails(s)
  PROVE  \E y : Moves(s, y) /\ GoodPlace(s, y) /\ Later(step[s], y)
BY SkippedGood DEF Fails, Types, Asking

LEMMA AskingFacts ==
  ASSUME DiagnosisInv, NEW s \in Steps, Asking(s)
  PROVE  /\ Pod(s) \in Pods /\ GoodPlace(s, step[s]) /\ step[s].st = "asking"
         /\ until \in [Pods -> 0 .. NEGATIVE_CACHE] /\ NEGATIVE_CACHE \in Nat \ {0}
         /\ vain \in [Steps -> [Pods -> Nat]]
BY AskingShape, DiagnosisAssumption DEF DiagnosisInv, Types, Asking, Pod, GoodPlace, Probe!TypeOK

LEMMA NoProbeInv ==
  ASSUME DiagnosisInv, Probe!TypeOK', NEW s \in Steps, NoProbe(s) \/ FailFast(s)
  PROVE  DiagnosisInv'
<1>1. /\ Asking(s) /\ ~Probe!Flying(s) /\ Fails(s)
      /\ UNCHANGED <<calls, until, bare, phase, outcome, vain>>
  BY DEF NoProbe, FailFast, AtWork, Probe!FailFast, client
<1>2. PICK y : Moves(s, y) /\ GoodPlace(s, y) /\ Later(step[s], y)
  BY <1>1, FailsGoesOn DEF DiagnosisInv
<1>3. ~Probe!Flying(s)'
  BY <1>1 DEF Probe!Flying
<1>4. vain' \in [Steps -> [Pods -> Nat]]
  BY <1>1, AskingFacts
<1>. QED
  BY <1>1, <1>2, <1>3, <1>4, GoesOn

LEMMA HttpErrorInv ==
  ASSUME DiagnosisInv, Probe!TypeOK', NEW s \in Steps, HttpError(s)
  PROVE  DiagnosisInv'
<1>1. /\ Asking(s) /\ Probe!End(s, "unavailable") /\ Fails(s)
      /\ UNCHANGED <<until, bare, phase, outcome, vain>>
  BY DEF HttpError, Probe!HttpError
<1>2. PICK y : Moves(s, y) /\ GoodPlace(s, y) /\ Later(step[s], y)
  BY <1>1, FailsGoesOn DEF DiagnosisInv
<1>3. ~Probe!Flying(s)' /\ \A t \in Steps \ {s} : calls'[t] = calls[t]
  BY <1>1, EndsCall DEF DiagnosisInv
<1>4. vain' \in [Steps -> [Pods -> Nat]]
  BY <1>1, AskingFacts
<1>. QED
  BY <1>1, <1>2, <1>3, <1>4, GoesOn

\* An answer clears the pod's entry, and with it what was spent on the pod.
LEMMA AnswerInv ==
  ASSUME DiagnosisInv, Probe!TypeOK', NEW s \in Steps, Answer(s)
  PROVE  DiagnosisInv'
<1>1. /\ Asking(s) /\ Probe!Flying(s) /\ Probe!End(s, "ok")
      /\ until' = [until EXCEPT ![calls[s].base] = 0]
      /\ vain' = [t \in Steps |-> [vain[t] EXCEPT ![Pod(s)] = 0]]
      /\ UNCHANGED <<bare, phase, outcome>>
  BY DEF Answer, Probe!Ok, Probe!Answerable
<1>2. /\ Pod(s) \in Pods /\ GoodPlace(s, step[s]) /\ step[s].st = "asking"
      /\ until \in [Pods -> 0 .. NEGATIVE_CACHE] /\ vain \in [Steps -> [Pods -> Nat]]
  BY <1>1, AskingFacts
<1>3. PICK y : Moves(s, y) /\ GoodPlace(s, y) /\ Later(step[s], y)
  <2>1. CASE \E z \in Onward(s, step[s]) : Moves(s, z)
    BY <1>2, <2>1, OnwardGood
  <2>2. CASE Fails(s)
    BY <1>1, <2>2, FailsGoesOn DEF DiagnosisInv
  <2>3. CASE Moves(s, Done(TRUE))
    BY <2>3, StillPlaces DEF Done, Later
  <2>. QED
    BY <2>1, <2>2, <2>3 DEF Answer
<1>4. ~Probe!Flying(s)' /\ \A t \in Steps \ {s} : calls'[t] = calls[t]
  BY <1>1, EndsCall DEF DiagnosisInv
<1>5. calls[s].base = Pod(s)
  BY <1>1 DEF DiagnosisInv, Flights
<1>6. vain' \in [Steps -> [Pods -> Nat]]
  BY <1>1, <1>2
<1>7. \A t \in Steps, p \in Pods :
        vain'[t][p] = 0 \/ (vain'[t][p] = vain[t][p] /\ until'[p] = until[p])
  BY <1>1, <1>2, <1>5
<1>. QED
  BY <1>1, <1>3, <1>4, <1>6, <1>7, GoesOn

\* A call in vain is the pod's first, and caches the pod.
LEMMA InVainInv ==
  ASSUME DiagnosisInv, Probe!TypeOK', NEW s \in Steps, InVain(s)
  PROVE  DiagnosisInv'
<1>1. /\ Asking(s) /\ Probe!Flying(s) /\ Probe!End(s, "unavailable") /\ Fails(s)
      /\ until' = [until EXCEPT ![calls[s].base] = NEGATIVE_CACHE]
      /\ vain' = [vain EXCEPT ![s][Pod(s)] = @ + 1]
      /\ UNCHANGED <<bare, phase, outcome>>
  BY DEF InVain, Probe!Refused, Probe!Abort, Probe!Unreachable
<1>2. /\ Pod(s) \in Pods
      /\ until \in [Pods -> 0 .. NEGATIVE_CACHE] /\ NEGATIVE_CACHE \in Nat \ {0}
      /\ vain \in [Steps -> [Pods -> Nat]]
  BY <1>1, AskingFacts
<1>3. PICK y : Moves(s, y) /\ GoodPlace(s, y) /\ Later(step[s], y)
  BY <1>1, FailsGoesOn DEF DiagnosisInv
<1>4. ~Probe!Flying(s)' /\ \A t \in Steps \ {s} : calls'[t] = calls[t]
  BY <1>1, EndsCall DEF DiagnosisInv
<1>5. calls[s].base = Pod(s)
  BY <1>1 DEF DiagnosisInv, Flights
<1>6. vain[s][Pod(s)] = 0
  BY <1>1, <1>2 DEF DiagnosisInv, Thrifty, Thrift
<1>7. vain' \in [Steps -> [Pods -> Nat]]
  BY <1>1, <1>2
<1>8. until'[Pod(s)] > 0 /\ vain'[s][Pod(s)] = 1
  BY <1>1, <1>2, <1>5, <1>6
<1>9. \A t \in Steps, p \in Pods :
        (t = s /\ p = Pod(s)) \/ (vain'[t][p] = vain[t][p] /\ (until[p] > 0 => until'[p] > 0))
  BY <1>1, <1>2, <1>5
<1>. QED
  BY <1>1, <1>3, <1>4, <1>7, <1>8, <1>9, GoesOn

\* A call is sent only to a pod that is not cached: one nothing was spent on.
LEMMA SendInv ==
  ASSUME DiagnosisInv, Probe!TypeOK', NEW s \in Steps, Send(s)
  PROVE  DiagnosisInv'
<1>. USE DEF DiagnosisInv
<1>1. /\ Asking(s) /\ until[Pod(s)] = 0
      /\ calls' = [calls EXCEPT ![s] = Probe!Sent(Pod(s), Path(s))]
      /\ UNCHANGED <<until, bare, phase, outcome, step, vain>>
  BY DEF Send, AtWork, Probe!Send
<1>2. \A t \in Steps \ {s} : calls'[t] = calls[t]
  BY <1>1 DEF Types, Probe!TypeOK
<1>3. calls'[s].base = Pod(s)
  BY <1>1 DEF Types, Probe!TypeOK, Probe!Sent
<1>4. Types' /\ Phases'
  BY <1>1 DEF Types, Phases, GoodPlace
<1>5. Flights'
  <2>. SUFFICES ASSUME NEW t \in Steps, Probe!Flying(t)'
                PROVE  Asking(t)' /\ calls'[t].base = Pod(t)'
    BY DEF Flights
  <2>1. CASE t = s
    BY <1>1, <1>3, <2>1 DEF Asking, Pod
  <2>2. CASE t # s
    BY <1>1, <1>2, <2>2 DEF Flights, Asking, Pod, Probe!Flying
  <2>. QED
    BY <2>1, <2>2
<1>6. ASSUME NEW t \in Steps
      PROVE  Thrift(t)'
  <2>1. CASE t = s
    <3>1. Thrift(s) /\ ~(until[Pod(s)] > 0)
      BY <1>1 DEF Thrifty
    <3>. QED
      BY <1>1, <2>1, <3>1 DEF Thrift, Asking, Pod
  <2>2. CASE t # s
    BY <1>1, <1>2, <2>2 DEF Thrifty, Thrift, Asking, Pod, Probe!Flying
  <2>. QED
    BY <2>1, <2>2
<1>. QED
  BY <1>4, <1>5, <1>6 DEF Thrifty

\* Where nothing of the diagnosis moves, and no entry that counts runs out.
LEMMA NothingMoves ==
  ASSUME DiagnosisInv, Probe!TypeOK', UNCHANGED <<bare, step, vain>>,
         phase' \in {"idle", "resolving", "running"}, Phases',
         outcome' \in {"none", "error", "report"},
         \A s \in Steps :
           /\ Probe!Flying(s)' <=> Probe!Flying(s)
           /\ Probe!Flying(s) => calls'[s].base = calls[s].base
           /\ AtWork(s) => UNCHANGED until
  PROVE  DiagnosisInv'
<1>. USE DEF DiagnosisInv
<1>1. Types'
  BY DEF Types, GoodPlace
<1>2. Flights'
  BY DEF Flights, Asking, Pod
<1>3. ASSUME NEW s \in Steps
      PROVE  Thrift(s)'
  <2>1. Thrift(s)
    BY DEF Thrifty
  <2>2. Asking(s) => Pod(s) \in Pods
    BY AskingFacts
  <2>3. Asking(s) /\ vain[s][Pod(s)] = 1 => until'[Pod(s)] > 0 /\ ~Probe!Flying(s)'
    BY <2>1, <2>2 DEF Thrift, AtWork
  <2>. QED
    BY <2>1, <2>3 DEF Thrift, Asking, Pod
<1>. QED
  BY <1>1, <1>2, <1>3 DEF Thrifty

LEMMA TickInv ==
  ASSUME DiagnosisInv, Probe!TypeOK', Tick
  PROVE  DiagnosisInv'
<1>1. ASSUME NEW s \in Steps
      PROVE  /\ Probe!Flying(s)' <=> Probe!Flying(s)
             /\ Probe!Flying(s) => calls'[s].base = calls[s].base
             /\ ~AtWork(s)
  <2>1. calls'[s] = IF Probe!Flying(s) THEN [calls[s] EXCEPT !.age = @ + 1] ELSE calls[s]
    BY DEF Tick, Probe!Tick
  <2>2. Probe!Flying(s) => calls[s] \in Probe!Flight
    BY DEF DiagnosisInv, Types, Probe!TypeOK, Probe!Flying, Probe!Idle
  <2>. QED
    BY <2>1, <2>2 DEF Tick, Probe!Flying, Probe!Flight
<1>2. UNCHANGED <<bare, phase, outcome, step, vain>>
  BY DEF Tick
<1>3. Phases' /\ phase' \in {"idle", "resolving", "running"} /\ outcome' \in {"none", "error", "report"}
  BY <1>2 DEF DiagnosisInv, Types, Phases
<1>. QED
  BY <1>1, <1>2, <1>3, NothingMoves

LEMMA OutsideInv ==
  ASSUME DiagnosisInv, Probe!TypeOK', Outside
  PROVE  DiagnosisInv'
<1>1. PICK p \in Pods : Probe!Reach(p) \/ Probe!Jvm(p)
  BY DEF Outside
<1>2. UNCHANGED <<until, bare, phase, outcome, step, vain>>
  BY <1>1 DEF Outside, Probe!Reach, Probe!Jvm
<1>3. ASSUME NEW s \in Steps
      PROVE  /\ Probe!Flying(s)' <=> Probe!Flying(s)
             /\ Probe!Flying(s) => calls'[s].base = calls[s].base
  <2>1. calls'[s] = calls[s] \/ (Probe!Flying(s) /\ calls'[s] = [calls[s] EXCEPT !.clean = FALSE])
    BY <1>1 DEF Probe!Reach, Probe!Jvm
  <2>2. Probe!Flying(s) => calls[s] \in Probe!Flight
    BY DEF DiagnosisInv, Types, Probe!TypeOK, Probe!Flying, Probe!Idle
  <2>. QED
    BY <2>1, <2>2 DEF Probe!Flying, Probe!Flight
<1>4. Phases' /\ phase' \in {"idle", "resolving", "running"} /\ outcome' \in {"none", "error", "report"}
  BY <1>2 DEF DiagnosisInv, Types, Phases
<1>. QED
  BY <1>2, <1>3, <1>4, NothingMoves

\* Every step is put to one place, with nothing spent.
LEMMA AllPut ==
  ASSUME DiagnosisInv, Probe!TypeOK', NEW st \in {"waiting", "looking"},
         step' = [s \in Steps |-> At(st)], UNCHANGED <<bare, calls, until, outcome>>,
         phase \in {"idle", "resolving"}, phase' \in {"resolving", "running"},
         phase' = "resolving" => st = "waiting",
         vain' \in [Steps -> [Pods -> Nat]], \A s \in Steps, p \in Pods : vain'[s][p] = 0
  PROVE  DiagnosisInv'
<1>. USE DEF DiagnosisInv
<1>1. \A s \in Steps : step'[s] = At(st) /\ step'[s].st = st /\ GoodPlace(s, At(st))
  BY StillPlaces
<1>2. step' \in [Steps -> Places]
  BY <1>1 DEF GoodPlace
<1>3. Types'
  BY <1>1, <1>2 DEF Types, GoodPlace
<1>4. \A s \in Steps : ~Probe!Flying(s)'
  BY DEF Flights, Phases, Asking, Probe!Flying
<1>. QED
  BY <1>1, <1>3, <1>4 DEF Flights, Phases, Thrifty, Thrift, Asking

LEMMA CallInv ==
  ASSUME DiagnosisInv, Probe!TypeOK', Invoke \/ Unresolved \/ StartAll \/ Return
  PROVE  DiagnosisInv'
<1>1. CASE Invoke
  <2>1. vain' \in [Steps -> [Pods -> Nat]] /\ \A s \in Steps, p \in Pods : vain'[s][p] = 0
    BY <1>1 DEF Invoke
  <2>. QED
    BY <1>1, <2>1, AllPut DEF Invoke, client
<1>2. CASE StartAll
  <2>1. vain' \in [Steps -> [Pods -> Nat]] /\ \A s \in Steps, p \in Pods : vain'[s][p] = 0
    BY <1>2 DEF StartAll, DiagnosisInv, Types, Phases, Thrifty, Thrift
  <2>. QED
    BY <1>2, <2>1, AllPut DEF StartAll, client
<1>3. CASE Unresolved
  <2>1. Phases'
    BY <1>3 DEF Unresolved, DiagnosisInv, Phases
  <2>. QED
    BY <1>3, <2>1, NothingMoves DEF Unresolved, client, Probe!Flying
<1>4. CASE Return
  <2>1. Phases'
    BY <1>4 DEF Return, Over, Phases
  <2>. QED
    BY <1>4, <2>1, NothingMoves DEF Return, client, Probe!Flying
<1>. QED
  BY <1>1, <1>2, <1>3, <1>4

\* A step that has not asked yet moves; with nothing spent it may ask any pod.
LEMMA LookInv ==
  ASSUME DiagnosisInv, Probe!TypeOK', NEW s \in Steps, Look(s) \/ Provider(s)
  PROVE  DiagnosisInv'
<1>. USE DEF DiagnosisInv
<1>1. /\ step[s].st \in {"looking", "providers"}
      /\ UNCHANGED <<calls, until, bare, phase, outcome, vain>>
  BY DEF Look, Provider, client
<1>2. PICK y : Moves(s, y) /\ GoodPlace(s, y) /\ y.st \in {"ok", "failed", "asking", "providers"}
  <2>1. CASE Moves(s, Done(FALSE)) \/ Moves(s, Done(TRUE))
    BY <2>1, StillPlaces DEF Done
  <2>2. CASE Moves(s, Tries(1))
    BY <2>2, TriesGood, DiagnosisAssumption
  <2>3. CASE \E ps \in SUBSET Pods : \E z \in AskPods(s, ps) : Moves(s, z)
    BY <2>3, AskPodsGood
  <2>4. CASE /\ step[s].st = "providers" /\ step[s].nth <= EXTERNALS
             /\ Moves(s, Tries(step[s].nth + 1))
    <3>1. step[s] \in Places
      BY DEF Types
    <3>2. step[s].nth \in 1 .. EXTERNALS + 1
      BY <2>4, <3>1 DEF Places, At, Tries
    <3>3. step[s].nth + 1 \in 1 .. EXTERNALS + 1
      BY <2>4, <3>2, DiagnosisAssumption
    <3>. QED
      BY <2>4, <3>3, TriesGood
  <2>. QED
    BY <2>1, <2>2, <2>3, <2>4 DEF Look, Provider
<1>3. step'[s] = y /\ step' \in [Steps -> Places] /\ \A t \in Steps \ {s} : step'[t] = step[t]
  BY <1>2 DEF Moves, Types, GoodPlace
<1>4. \A t \in Steps : GoodPlace(t, step'[t])
  BY <1>2, <1>3 DEF Types
<1>5. Types'
  BY <1>1, <1>3, <1>4 DEF Types, GoodPlace
<1>6. ~Probe!Flying(s)
  BY <1>1 DEF Flights, Asking
<1>7. Flights'
  <2>. SUFFICES ASSUME NEW t \in Steps, Probe!Flying(t)'
                PROVE  Asking(t)' /\ calls'[t].base = Pod(t)'
    BY DEF Flights
  <2>1. t # s /\ Probe!Flying(t)
    BY <1>1, <1>6 DEF Probe!Flying
  <2>. QED
    BY <1>1, <1>3, <2>1 DEF Flights, Asking, Pod
<1>8. Phases'
  <2>1. phase = "running"
    BY <1>1 DEF Phases, Types
  <2>. QED
    BY <1>1, <2>1 DEF Phases
<1>9. ASSUME NEW t \in Steps
      PROVE  Thrift(t)'
  <2>1. CASE t # s
    BY <1>1, <1>3, <2>1 DEF Thrifty, Thrift, Asking, Pod, Probe!Flying
  <2>2. CASE t = s
    <3>1. \A p \in Pods : vain'[s][p] = 0
      BY <1>1 DEF Thrifty, Thrift
    <3>2. Asking(s)' => Pod(s)' \in Pods /\ step'[s].left \subseteq Pods
      BY <1>5, AskingShape DEF Types, Asking, Pod
    <3>. QED
      BY <2>2, <3>1, <3>2 DEF Thrift, Asking, Pod
  <2>. QED
    BY <2>1, <2>2
<1>. QED
  BY <1>5, <1>7, <1>8, <1>9 DEF Thrifty

LEMMA StepInv == DiagnosisInv /\ [Next]_vars => DiagnosisInv'
<1>. SUFFICES ASSUME DiagnosisInv, [Next]_vars
              PROVE  DiagnosisInv'
  OBVIOUS
<1>1. Probe!TypeOK'
  BY ClientTypes DEF DiagnosisInv
<1>2. CASE UNCHANGED vars
  <2>1. UNCHANGED <<calls, until, bare, phase, outcome, step, vain>>
    BY <1>2 DEF vars, client
  <2>2. Phases' /\ phase' \in {"idle", "resolving", "running"} /\ outcome' \in {"none", "error", "report"}
    BY <2>1 DEF DiagnosisInv, Types, Phases
  <2>. QED
    BY <1>1, <2>1, <2>2, NothingMoves DEF Probe!Flying
<1>. QED
  BY <1>1, <1>2, CallInv, LookInv, NoProbeInv, SendInv, AnswerInv, HttpErrorInv, InVainInv,
     TickInv, OutsideInv DEF Next, Turn, Ends

LEMMA Invariant == Spec => []DiagnosisInv
BY InitInv, StepInv, PTL DEF Spec

-----------------------------------------------------------------------------
\* A diagnosis keeps its types: steps that ask are at a call of their program,
\* and calls under way are theirs, to the pod they are at.
THEOREM TypeCorrect == Spec => []TypeOK
<1>1. DiagnosisInv => TypeOK
  BY TypeParts DEF DiagnosisInv
<1>. QED
  BY <1>1, Invariant, PTL

\* Steps that run at once and share the cache, with any programs on any pods,
\* wait for a dead probe once each (client.ts:21, runbooks.ts:49-61).
THEOREM DeadProbeCostsOnce == Spec => []CostsOnce
<1>1. DiagnosisInv => CostsOnce
  BY DEF DiagnosisInv, Thrifty, Thrift, CostsOnce
<1>. QED
  BY <1>1, Invariant, PTL

\* A diagnosis implements the client: what holds of the client under any calls
\* holds of it under a runbook's.
THEOREM ClientImplemented == Spec => Probe!Spec
<1>1. Init => Probe!Init
  BY DEF Init
<1>2. DiagnosisInv /\ [Next]_vars => [Probe!Next]_(Probe!vars)
  BY ClientStep DEF DiagnosisInv, client, Probe!vars
<1>. QED
  BY <1>1, <1>2, Invariant, PTL DEF Spec, Probe!Spec
=============================================================================
