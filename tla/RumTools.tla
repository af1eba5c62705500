------------------------------ MODULE RumTools ------------------------------
(***************************************************************************)
(* The hub's tools on real-user measurements (src/hub/tools/rum.ts): which *)
(* probes are asked, what happens to those that fail, and how the          *)
(* summaries of several replicas become one.  Of a summary the model keeps *)
(* the samples of one vital with their p75, and one error signature; the   *)
(* other tables are merged alike.                                          *)
(***************************************************************************)
EXTENDS Integers, Sequences, FiniteSetsExt

CONSTANTS
  Replicas,       \* the running pods with a probe, in the order of their list
  MAX_PODS,       \* summaries asked for, 10
  MIN_SAMPLES,    \* samples a finding needs, 5
  POOR,           \* the threshold of a poor vital
  P75s, Counts, Times   \* what a summary may say

ASSUME RumToolsAssumption ==
  /\ Replicas \in Seq(STRING) /\ MAX_PODS \in Nat
  /\ MIN_SAMPLES \in Nat \ {0} /\ POOR \in Nat
  /\ P75s \subseteq Nat /\ Counts \subseteq Nat /\ Times \subseteq Nat

Summaries == [count : Counts, p75 : P75s, raised : Counts, first : Times, last : Times]

VARIABLES
  toAsk,      \* pods whose /info, or summary, is to be asked
  pass,       \* "idle", "info", "summary", "provider" or "told"
  rumPods,    \* the pods whose probe has RUM enabled
  read,       \* the summaries that answered, in order
  notes,      \* how many of the pods asked failed
  merged,     \* what mergeSummaries has accumulated
  told        \* the tool's answer: "none", "nothing", "provider" or "merged"

rumToolVars == <<toAsk, pass, rumPods, read, notes, merged, told>>

Zero == [count |-> 0, weighted |-> 0, raised |-> 0, first |-> 0, last |-> 0]

RumToolsIdle ==
  /\ toAsk = <<>> /\ pass = "idle" /\ rumPods = <<>> /\ read = <<>>
  /\ notes = 0 /\ merged = Zero /\ told = "none"

-----------------------------------------------------------------------------
Asked(pods) == SubSeq(pods, 1, Min({Len(pods), MAX_PODS}))

\* Without a service the probes are asked which of them do RUM; with one, its
\* running pods are taken as they are.
RumStart(service) ==
  /\ pass = "idle"
  /\ IF service THEN /\ pass' = IF Replicas = <<>> THEN "provider" ELSE "summary"
                     /\ toAsk' = Asked(Replicas) /\ rumPods' = Replicas
                ELSE pass' = "info" /\ toAsk' = Replicas /\ UNCHANGED rumPods
  /\ UNCHANGED <<read, notes, merged, told>>

\* An /info that fails leaves its pod out, without a note.
Info(enabled) ==
  /\ pass = "info" /\ toAsk # <<>>
  /\ rumPods' = IF enabled THEN Append(rumPods, Head(toAsk)) ELSE rumPods
  /\ toAsk' = Tail(toAsk)
  /\ UNCHANGED <<pass, read, notes, merged, told>>

\* No pod is left: the providers are asked; else at most ten summaries.
Found ==
  /\ pass = "info" /\ toAsk = <<>>
  /\ pass' = IF rumPods = <<>> THEN "provider" ELSE "summary"
  /\ toAsk' = Asked(rumPods)
  /\ UNCHANGED <<rumPods, read, notes, merged, told>>

\* The first provider with web vitals, if any answers.
WebVitals ==
  /\ pass = "provider"
  /\ pass' = "told" /\ told' \in {"provider", "nothing"}
  /\ UNCHANGED <<toAsk, rumPods, read, notes, merged>>

\* One summary more in the merge.  A vital without samples and an error that
\* was not raised are not in a summary.
Plus(m, s, weight) ==
  LET known == m.raised > 0
      new   == s.raised > 0
  IN  [count |-> m.count + s.count, weighted |-> m.weighted + weight, raised |-> m.raised + s.raised,
       first |-> IF new /\ (~known \/ s.first < m.first) THEN s.first ELSE m.first,
       last  |-> IF new /\ (~known \/ s.last > m.last) THEN s.last ELSE m.last]

\* Slip: percentiles added without their weights.
AddUnweighted(m, s) == Plus(m, s, s.p75)

Add(m, s) == Plus(m, s, s.p75 * s.count)

Summary(s) ==
  /\ pass = "summary" /\ toAsk # <<>>
  /\ read' = Append(read, s) /\ toAsk' = Tail(toAsk)
  /\ merged' = Add(merged, s)
  /\ UNCHANGED <<pass, rumPods, notes, told>>

\* RUM is off on this probe after all, or the call fails, which is noted.
NoSummary(fails) ==
  /\ pass = "summary" /\ toAsk # <<>>
  /\ toAsk' = Tail(toAsk)
  /\ notes' = IF fails THEN notes + 1 ELSE notes
  /\ UNCHANGED <<pass, rumPods, read, merged, told>>

RumTell ==
  /\ pass = "summary" /\ toAsk = <<>>
  /\ pass' = "told" /\ told' = IF read = <<>> THEN "nothing" ELSE "merged"
  /\ UNCHANGED <<toAsk, rumPods, read, notes, merged>>

RumToolsNext ==
  \/ \E b \in BOOLEAN : RumStart(b) \/ Info(b) \/ NoSummary(b)
  \/ \E s \in Summaries : Summary(s)
  \/ Found \/ WebVitals \/ RumTell

-----------------------------------------------------------------------------
\* The mean weighted by samples, rounded half up; `total || 1`.
Total == IF merged.count = 0 THEN 1 ELSE merged.count
P75   == (2 * merged.weighted + Total) \div (2 * Total)

\* get_web_vitals reports a vital as poor.
Finding == merged.count >= MIN_SAMPLES /\ P75 > POOR

Raisers == {i \in DOMAIN read : read[i].raised > 0}

\* The merged answer is borne out by the replicas that gave one: its percentile
\* lies between theirs, a poor vital is poor on one of them, an error has been seen
\* from the first to the last time any of them saw it; and every pod asked is in
\* the answer, noted as failed or without RUM (hub/tools/rum.ts 28-112, 114-128).
MergeExact ==
  told = "merged" =>
    LET sampled == {i \in DOMAIN read : read[i].count > 0}
    IN  /\ sampled # {} => /\ \E i \in sampled : read[i].p75 <= P75
                           /\ \E i \in sampled : read[i].p75 >= P75
        /\ Finding => \E i \in sampled : read[i].p75 > POOR
        /\ Raisers # {} =>
             /\ merged.first = Min({read[i].first : i \in Raisers})
             /\ merged.last = Max({read[i].last : i \in Raisers})
        /\ Len(read) + notes <= Len(rumPods)
=============================================================================
