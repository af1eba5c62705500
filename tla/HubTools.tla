------------------------------- MODULE HubTools -------------------------------
(***************************************************************************)
(* One call of a tool of the hub (src/hub/tools): the hub keeps nothing    *)
(* between calls, and calls at once share only the negative cache of the   *)
(* probe client (ProbeClient, Diagnosis), so a call by itself is any call. *)
(***************************************************************************)
EXTENDS ThreadDump, GoldenSignals, KubeClient, RumTools, PodLogs, Traces, Rollouts

VARIABLE called   \* the tool, or what the tools have in common

toolVars == <<called, vars, goldenVars, kubeVars, rumToolVars, logVars, traceVars, rolloutVars>>

DumpIdle == Init /\ Blocked = {}

\* What the other tools would keep does not exist during a call.
ToolsInit ==
  /\ called \in {"threads", "golden", "lists", "rum", "logs", "trace", "rollouts"}
  /\ IF called = "threads" THEN Init ELSE DumpIdle
  /\ IF called = "lists" THEN KubeInit ELSE KubeIdle
  /\ IF called = "trace" THEN TracesInit ELSE TracesIdle
  /\ GoldenIdle /\ RumToolsIdle /\ LogsIdle /\ RolloutsIdle

ToolsNext ==
  /\ UNCHANGED called
  /\ \/ /\ called = "threads" /\ Next
        /\ UNCHANGED <<goldenVars, kubeVars, rumToolVars, logVars, traceVars, rolloutVars>>
     \/ /\ called = "golden" /\ GoldenNext
        /\ UNCHANGED <<vars, kubeVars, rumToolVars, logVars, traceVars, rolloutVars>>
     \/ /\ called = "lists" /\ KubeNext
        /\ UNCHANGED <<vars, goldenVars, rumToolVars, logVars, traceVars, rolloutVars>>
     \/ /\ called = "rum" /\ RumToolsNext
        /\ UNCHANGED <<vars, goldenVars, kubeVars, logVars, traceVars, rolloutVars>>
     \/ /\ called = "logs" /\ LogsNext
        /\ UNCHANGED <<vars, goldenVars, kubeVars, rumToolVars, traceVars, rolloutVars>>
     \/ /\ called = "trace" /\ Trace
        /\ UNCHANGED <<vars, goldenVars, kubeVars, rumToolVars, logVars, rolloutVars>>
     \/ /\ called = "rollouts" /\ RolloutsNext
        /\ UNCHANGED <<vars, goldenVars, kubeVars, rumToolVars, logVars, traceVars>>

ToolsSpec == ToolsInit /\ [][ToolsNext]_toolVars
=============================================================================
