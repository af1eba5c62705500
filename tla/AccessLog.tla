------------------------------ MODULE AccessLog ------------------------------
(***************************************************************************)
(* The probe's summary of the proxy's access log (src/probe/accesslog.ts): *)
(* stat, then a read of the last bytes, while the proxy appends lines and  *)
(* a rotation may truncate the file (copytruncate) in between; the lines   *)
(* that are whole are parsed, filtered by time and counted.                *)
(*                                                                         *)
(* A line has LENGTH bytes, the last of them its newline.  Percentiles and *)
(* suspicious paths are left out; a rotation by rename does not touch the  *)
(* open file.                                                              *)
(***************************************************************************)
EXTENDS Integers, Sequences, SequencesExt, FiniteSetsExt

CONSTANTS
  Kinds,         \* of lines: [recent, status, path, upstream]; a line's time or none is recent
  LENGTH,        \* bytes of a line
  MAX_BYTES,     \* of the tail, 8 MiB
  MAX_LINES      \* bound on the lines ever written

\* A line has more than its newline.
ASSUME AccessAssumption ==
  /\ Kinds \subseteq [recent : BOOLEAN, status : STRING, path : STRING, upstream : STRING]
  /\ LENGTH \in Nat \ {0, 1} /\ MAX_BYTES \in Nat

Statuses  == {k.status : k \in Kinds}    \* classes: "2xx", "5xx"
Paths     == {k.path : k \in Kinds}
Upstreams == {k.upstream : k \in Kinds} \ {"-"}

VARIABLES
  written,     \* history: the kinds of all lines, in order
  file,        \* bytes <<line, place>>
  since,       \* sinceSeconds is given
  lax,         \* a line that broke off still looks like one (the combined format)
  at,          \* "idle", "open", "stat", "tally", "told" or "unreadable"
  size,        \* as stat() said
  records,     \* lines parsed, still to be counted
  counted,     \* lines counted, in order
  byStatus, byPath, byUpstream,
  seen,        \* history: the file as of the stat
  cut          \* history: it was truncated since

logFileVars == <<written, file, since, lax, at, size, records, counted, byStatus, byPath, byUpstream, seen, cut>>

NoCounts == /\ byStatus = [s \in Statuses |-> 0]
            /\ byPath = [p \in Paths |-> [count |-> 0, errors |-> 0]]
            /\ byUpstream = [u \in Upstreams |-> [count |-> 0, errors |-> 0]]

AccessIdle ==
  /\ written = <<>> /\ file = <<>> /\ since = FALSE /\ lax = FALSE /\ at = "idle"
  /\ size = 0 /\ records = <<>> /\ counted = <<>> /\ NoCounts /\ seen = <<>> /\ cut = FALSE

AccessInit ==
  /\ written = <<>> /\ file = <<>> /\ since \in BOOLEAN /\ lax \in BOOLEAN /\ at = "idle"
  /\ size = 0 /\ records = <<>> /\ counted = <<>> /\ NoCounts /\ seen = <<>> /\ cut = FALSE

Bytes(l) == [k \in 1 .. LENGTH |-> <<l, k>>]
Newline(b) == b[2] = LENGTH
Blank == <<0, 0>>

-----------------------------------------------------------------------------
\* The proxy writes whole lines, at the end of the file.
AppendLine(k) ==
  /\ at \notin {"told", "unreadable"} /\ Len(written) < MAX_LINES
  /\ written' = Append(written, k)
  /\ file' = file \o Bytes(Len(written) + 1)
  /\ UNCHANGED <<since, lax, at, size, records, counted, byStatus, byPath, byUpstream, seen, cut>>

Truncate ==
  /\ at \in {"open", "stat"} /\ file # <<>>
  /\ file' = <<>> /\ cut' = (cut \/ at = "stat")
  /\ UNCHANGED <<written, since, lax, at, size, records, counted, byStatus, byPath, byUpstream, seen>>

OpenLog(fails) ==
  /\ at = "idle"
  /\ at' = IF fails THEN "unreadable" ELSE "open"
  /\ UNCHANGED <<written, file, since, lax, size, records, counted, byStatus, byPath, byUpstream, seen, cut>>

StatLog ==
  /\ at = "open"
  /\ at' = "stat" /\ size' = Len(file) /\ seen' = file
  /\ UNCHANGED <<written, file, since, lax, records, counted, byStatus, byPath, byUpstream, cut>>

\* The bytes before the tail, as of the stat.
Begin == IF size > MAX_BYTES THEN size - MAX_BYTES ELSE 0

\* Bytes that are gone stay the zeros they were allocated as.
Buffer == [i \in 1 .. size - Begin |-> IF Begin + i <= Len(file) THEN file[Begin + i] ELSE Blank]

\* Slip: the first line is dropped when the whole file is read, too.
TextShort == SubSeq(Buffer, Min({i \in DOMAIN Buffer : Newline(Buffer[i])} \cup {Len(Buffer)}) + 1, Len(Buffer))

\* What begins in the middle is dropped up to the first newline, if there is one.
Text ==
  LET ends == {i \in DOMAIN Buffer : Newline(Buffer[i])}
  IN  IF Begin = 0 \/ ends = {} THEN Buffer ELSE SubSeq(Buffer, Min(ends) + 1, Len(Buffer))

\* Where the segments between newlines begin.
Begins == {1} \cup {i + 1 : i \in {j \in DOMAIN Text : Newline(Text[j])}}

Segment(p) == SubSeq(Text, p, Min({i \in p .. Len(Text) : Newline(Text[i])} \cup {Len(Text) + 1}) - 1)

\* The line a segment is parsed to, 0 for none: a whole one, or in the lax
\* format one whose end is missing.
ParseAccessLine(s) ==
  IF s = <<>> \/ s[1] = Blank \/ s[1][2] # 1 THEN 0
  ELSE LET whole == Len(s) = LENGTH - 1 /\ \A k \in DOMAIN s : s[k] = <<s[1][1], k>>
       IN  IF whole \/ lax THEN s[1][1] ELSE 0

\* The segments with a record, and the n-th of them.
Parsed == {p \in Begins : LET l == ParseAccessLine(Segment(p)) IN l # 0 /\ (since => written[l].recent)}
Nth(n) == CHOOSE p \in Parsed : Cardinality({o \in Parsed : o < p}) = n - 1

ReadTail ==
  /\ at = "stat"
  /\ at' = "tally" /\ records' = [n \in 1 .. Cardinality(Parsed) |-> ParseAccessLine(Segment(Nth(n)))]
  /\ UNCHANGED <<written, file, since, lax, size, counted, byStatus, byPath, byUpstream, seen, cut>>

Failed(k) == IF k.status = "5xx" THEN 1 ELSE 0

\* One record of summarizeAccessRecords; without an upstream none is counted.
Tally ==
  /\ at = "tally" /\ records # <<>>
  /\ LET k == written[Head(records)]
         more(e) == [count |-> e.count + 1, errors |-> e.errors + Failed(k)]
     IN  /\ byStatus' = [byStatus EXCEPT ![k.status] = @ + 1]
         /\ byPath' = [byPath EXCEPT ![k.path] = more(@)]
         /\ byUpstream' = [u \in Upstreams |-> IF u = k.upstream THEN more(byUpstream[u]) ELSE byUpstream[u]]
  /\ counted' = Append(counted, Head(records)) /\ records' = Tail(records)
  /\ UNCHANGED <<written, file, since, lax, at, size, seen, cut>>

AccessTold ==
  /\ at = "tally" /\ records = <<>>
  /\ at' = "told"
  /\ UNCHANGED <<written, file, since, lax, size, records, counted, byStatus, byPath, byUpstream, seen, cut>>

AccessNext ==
  \/ \E k \in Kinds : AppendLine(k)
  \/ Truncate \/ StatLog \/ ReadTail \/ Tally \/ AccessTold
  \/ \E fails \in BOOLEAN : OpenLog(fails)

-----------------------------------------------------------------------------
\* The lines of the file as of the stat that begin behind the tail's first byte, or
\* all when nothing is cut off.
InTail == {seen[i][1] : i \in {j \in DOMAIN seen : seen[j][2] = 1 /\ (Begin > 0 => j > Begin + 1)}}

WithStatus(s)   == {l \in Range(counted) : written[l].status = s}
WithPath(p)     == {l \in Range(counted) : written[l].path = p}
WithUpstream(u) == {l \in Range(counted) : written[l].upstream = u}

Entry(lines) == [count |-> Cardinality(lines), errors |-> Cardinality(lines \cap WithStatus("5xx"))]

\* Each table counts the lines counted, each once.
Tables ==
  /\ \A s \in Statuses : byStatus[s] = Cardinality(WithStatus(s))
  /\ \A p \in Paths : byPath[p] = Entry(WithPath(p))
  /\ \A u \in Upstreams : byUpstream[u] = Entry(WithUpstream(u))

\* The summary counts every line of the tail, in order and once, and no other; a
\* truncation in between may lose lines but makes none up; and every table says of each
\* of its keys what lines were counted (accesslog.ts 99-126, 192-212).
AccessExact ==
  at = "told" =>
    /\ \A i \in 1 .. Len(counted) - 1 : counted[i] < counted[i + 1]
    /\ ~cut => Range(counted) = {l \in InTail : since => written[l].recent}
    /\ Tables
=============================================================================
