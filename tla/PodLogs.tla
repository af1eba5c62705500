------------------------------- MODULE PodLogs -------------------------------
(***************************************************************************)
(* The tools on pods' logs (src/hub/tools/logs.ts): get_logs,              *)
(* summarize_log_errors and scan_logs_for_sensitive_data read the tails of *)
(* a service's pods one after the other; the summary groups the lines by a *)
(* signature.  A line is what the regular expressions see of it: whether   *)
(* it is JSON, its level, the class of an exception and the application's  *)
(* frame it names.  Wording, redaction and the cut of texts are left out.  *)
(***************************************************************************)
EXTENDS Integers, Sequences, FiniteSetsExt

CONSTANTS
  LogPods,       \* the service's pods, in order
  POD_CAP,       \* pods read: 10, or 20 for the two that scan
  TAIL,          \* lines asked of each pod
  LOOKAHEAD,     \* lines searched for a frame, 40
  Classes, Frames, NoClass, NoFrame,
  Logs           \* the texts a pod may have

Levels == {"error", "warn", "info"}
Lines  == [shape : {"json", "text", "frame"}, level : Levels,
           class : Classes \cup {NoClass}, frame : Frames \cup {NoFrame}]
Signatures == (Classes \cup {NoClass}) \X (Frames \cup {NoFrame})

\* Pods are listed by their names, each once.
ASSUME LogsAssumption ==
  /\ LogPods \in Seq(STRING) /\ \A i, j \in DOMAIN LogPods : LogPods[i] = LogPods[j] => i = j
  /\ POD_CAP \in Nat /\ TAIL \in Nat /\ Logs \subseteq Seq(Lines)

VARIABLES
  tool,        \* "none", "get", "errors" or "scan"
  warnings,    \* include_warnings
  unread,      \* pods still to read
  pod, text, line,   \* the log in hand, and the line that is next; "", <<>>, 1 between two
  groups,      \* of each signature: count, first and last time, pods
  scanned, truncated,
  failures,    \* the pods reported as not readable
  heard        \* history: the texts read, as <<pod, text>>

logVars == <<tool, warnings, unread, pod, text, line, groups, scanned, truncated, failures, heard>>

NoGroup == [count |-> 0, first |-> 0, last |-> 0, pods |-> {}]

LogsIdle ==
  /\ tool = "none" /\ warnings = FALSE /\ unread = <<>>
  /\ pod = "" /\ text = <<>> /\ line = 1
  /\ groups = [s \in Signatures |-> NoGroup]
  /\ scanned = 0 /\ truncated = FALSE /\ failures = {} /\ heard = {}

-----------------------------------------------------------------------------
LogCall(name, w) ==
  /\ tool = "none"
  /\ tool' = name /\ warnings' = w
  /\ unread' = SubSeq(LogPods, 1, Min({Len(LogPods), POD_CAP}))
  /\ UNCHANGED <<pod, text, line, groups, scanned, truncated, failures, heard>>

Between == tool # "none" /\ text = <<>>

\* A tail arrives.  Only the summary of errors goes through its lines.
ReadLog(lines) ==
  /\ Between /\ unread # <<>> /\ Len(lines) <= TAIL
  /\ heard' = heard \cup {<<Head(unread), lines>>}
  /\ unread' = Tail(unread)
  /\ scanned' = scanned + Len(lines)
  /\ truncated' = (truncated \/ (tool = "errors" /\ Len(lines) = TAIL))
  /\ IF tool = "errors" /\ lines # <<>> THEN pod' = Head(unread) /\ text' = lines ELSE UNCHANGED <<pod, text>>
  /\ UNCHANGED <<tool, warnings, line, groups, failures>>

\* A pod whose log cannot be read is reported, but by the summary of errors.
LogFails ==
  /\ Between /\ unread # <<>>
  /\ unread' = Tail(unread)
  /\ failures' = IF tool = "errors" THEN failures ELSE failures \cup {Head(unread)}
  /\ UNCHANGED <<tool, warnings, pod, text, line, groups, scanned, truncated, heard>>

\* A level worth counting, or an exception's type in JSON; warnings on request.
CountsAsError(l) ==
  /\ l.level \in {"error", "warn"} \/ (l.shape = "json" /\ l.class # NoClass)
  /\ l.level = "warn" => warnings

\* timestamps: true: every line begins with the time the API server put there.
Stamped == TRUE

\* A frame as the regular expression knows one, at the beginning of its line.
AtBegin(l) == l.shape = "frame" /\ l.frame # NoFrame /\ ~Stamped

\* firstAppFrame looks into the stack of a JSON line; of a text line
\* javaSignature takes the first frame of the application among the next lines.
FrameOf(lines, i) ==
  IF lines[i].shape = "json" THEN lines[i].frame
  ELSE LET later == {j \in i + 1 .. Min({Len(lines), i + LOOKAHEAD - 1}) :
                       AtBegin(lines[j])}
       IN  IF later = {} THEN NoFrame ELSE lines[Min(later)].frame

SignatureOf(lines, i) ==
  IF lines[i].class = NoClass THEN <<NoClass, NoFrame>> ELSE <<lines[i].class, FrameOf(lines, i)>>

\* Slip: the group's first time is that of the first line found.
JoinLate(g, t) == [count |-> g.count + 1, first |-> IF g.first = 0 THEN t ELSE g.first,
                   last |-> t, pods |-> g.pods \cup {pod}]

\* A line joins its group; times are compared, for pods are read one after the other.
Join(g, t) ==
  [count |-> g.count + 1,
   first |-> IF g.first = 0 \/ t < g.first THEN t ELSE g.first,
   last  |-> IF t > g.last THEN t ELSE g.last,
   pods  |-> g.pods \cup {pod}]

\* Lines of a text are stamped in order.
GroupLine ==
  /\ text # <<>>
  /\ groups' = IF CountsAsError(text[line])
               THEN [groups EXCEPT ![SignatureOf(text, line)] = Join(@, line)] ELSE groups
  /\ IF line < Len(text) THEN line' = line + 1 /\ UNCHANGED <<pod, text>>
                         ELSE line' = 1 /\ pod' = "" /\ text' = <<>>
  /\ UNCHANGED <<tool, warnings, unread, scanned, truncated, failures, heard>>

LogsNext ==
  \/ \E w \in BOOLEAN : \E t \in {"get", "errors", "scan"} : LogCall(t, w)
  \/ \E lines \in Logs : ReadLog(lines)
  \/ LogFails \/ GroupLine

-----------------------------------------------------------------------------
LogsTold == Between /\ unread = <<>>

\* The lines of the texts read that bear a signature.
Bearing(s) ==
  LET bears(t, i) == i \in DOMAIN t /\ CountsAsError(t[i]) /\ SignatureOf(t, i) = s
  IN  {x \in heard \X (1 .. TAIL) : bears(x[1][2], x[2])}

\* Every line that counts is in one group, each group spans exactly the times and
\* pods of its lines, and a pod is read, reported or beyond the cap; only the
\* summary of errors leaves failures out (logs.ts 21-34, 110-157, 166-181).
LogsExact ==
  LogsTold =>
    /\ tool = "errors" => \A s \in Signatures :
         LET times == {x[2] : x \in Bearing(s)}
         IN  /\ groups[s].count = Cardinality(Bearing(s))
             /\ groups[s].pods = {x[1][1] : x \in Bearing(s)}
             /\ times # {} => groups[s].first = Min(times) /\ groups[s].last = Max(times)
    /\ scanned = MapThenSumSet(LAMBDA h : Len(h[2]), heard)
    /\ tool # "errors" => Cardinality(heard) + Cardinality(failures) = Min({Len(LogPods), POD_CAP})
=============================================================================
