------------------------------- MODULE Traces -------------------------------
(***************************************************************************)
(* A trace made of what Datadog's search for its spans returned            *)
(* (src/providers/datadog, trace): the tree is rebuilt from the parents'   *)
(* ids, of which some may be missing, and the spans that matter are listed *)
(* by their start.  Spans are numbered as the search returned them.        *)
(***************************************************************************)
EXTENDS Integers, Sequences, SequencesExt, FiniteSetsExt

CONSTANTS
  SpanCounts,              \* sizes of traces
  Durations, Starts,       \* of a span
  SHARE,                   \* a span matters from 1/SHARE of the root's duration: 50
  SPAN_CAP                 \* spans listed, 60

\* No span ends before it starts.
ASSUME TracesAssumption ==
  /\ SpanCounts \subseteq Nat /\ Durations \subseteq Nat /\ Starts \subseteq Int
  /\ SHARE \in Nat \ {0} /\ SPAN_CAP \in Nat \ {0}

VARIABLES
  spans,     \* sequence of [parent, duration, start, error]; parent 0: none that is known
  traced,    \* "none", "error" or "listed"
  listed     \* the spans of the answer: [span, self, depth]

traceVars == <<spans, traced, listed>>

Span(n) == [parent : 0 .. n, duration : Durations, start : Starts, error : BOOLEAN]

TracesIdle == spans = <<>> /\ traced = "none" /\ listed = <<>>
TracesInit ==
  /\ spans \in UNION {[1 .. n -> Span(n)] : n \in SpanCounts}
  /\ traced = "none" /\ listed = <<>>

Ids == DOMAIN spans
Children(i) == {j \in Ids : spans[j].parent = i}

\* The recursion of depth: the k-th ancestor, 0 above a root.
Ancestor[k \in Nat] ==
  [i \in Ids |-> IF k = 0 THEN i
                 ELSE LET a == Ancestor[k - 1][i] IN IF a = 0 THEN 0 ELSE spans[a].parent]

Cyclic   == \E i \in Ids : Ancestor[Len(spans)][i] # 0
Depth(i) == Min({k \in 0 .. Len(spans) : Ancestor[k + 1][i] = 0})

TimeBelow(i) == MapThenSumSet(LAMBDA j : spans[j].duration, Children(i))
Self(i)      == Max({0, spans[i].duration - TimeBelow(i)})

\* The first without a parent among them.
Root == LET tops == {i \in Ids : spans[i].parent = 0} IN IF tops = {} THEN 1 ELSE Min(tops)

\* By start, those that start together in the order of the search.
Earlier(i) == {j \in Ids : spans[j].start < spans[i].start \/ (spans[j].start = spans[i].start /\ j < i)}
InOrder    == [k \in Ids |-> CHOOSE i \in Ids : Cardinality(Earlier(i)) = k - 1]

\* Slip: what matters is measured by the whole time of a span.
MattersWhole(i, k) == k = 1 \/ spans[i].duration * SHARE >= spans[Root].duration \/ spans[i].error

\* The k-th in order is kept: the first, those with time of their own, errors.
Matters(i, k) == k = 1 \/ Self(i) * SHARE >= spans[Root].duration \/ spans[i].error

Nth(K, n) == CHOOSE k \in K : Cardinality({j \in K : j < k}) = n - 1

\* A cycle of parents makes the recursion overflow the stack; run() answers an error.
Trace ==
  /\ traced = "none" /\ spans # <<>>
  /\ IF Cyclic THEN traced' = "error" /\ UNCHANGED listed
     ELSE LET kept == {k \in Ids : Matters(InOrder[k], k)}
          IN  /\ traced' = "listed"
              /\ listed' = [n \in 1 .. Min({Cardinality(kept), SPAN_CAP}) |->
                              LET i == InOrder[Nth(kept, n)] IN [span |-> i, self |-> Self(i), depth |-> Depth(i)]]
  /\ UNCHANGED spans

-----------------------------------------------------------------------------
ListedSpans == {listed[k].span : k \in DOMAIN listed}

\* The spans above one: the least set with its parent and theirs.
Above(i) ==
  LET closed(B) == \A j \in B \cup {i} : spans[j].parent \in B \cup {0}
  IN  CHOOSE A \in SUBSET Ids : closed(A) /\ \A B \in SUBSET Ids : closed(B) => A \subseteq B

\* Time of its own: more than the spans right below account for.
Owns(i) == spans[i].duration * SHARE >= spans[Root].duration + SHARE * TimeBelow(i)

\* What is listed stands in order, each span at the depth of its ancestors, no
\* longer by itself than as a whole; listed are the errors, the spans with a share
\* of time of their own and the earliest, and a span left out is none of these unless
\* the list is full of earlier ones (datadog 286-306).
TraceExact ==
  traced = "listed" =>
    /\ \A k \in DOMAIN listed :
         LET x == listed[k]
         IN  /\ x.depth = Cardinality(Above(x.span)) /\ x.span \notin Above(x.span)
             /\ \A l \in 1 .. k - 1 : spans[listed[l].span].start <= spans[x.span].start
             /\ x.self <= spans[x.span].duration
             /\ \/ Owns(x.span) \/ spans[x.span].error \/ spans[Root].duration = 0
                \/ \A j \in Ids : spans[x.span].start <= spans[j].start
    /\ \A i \in Ids \ ListedSpans :
         \/ ~spans[i].error /\ ~Owns(i)
         \/ Len(listed) = SPAN_CAP /\ \A j \in ListedSpans : spans[j].start <= spans[i].start
=============================================================================
