------------------------------ MODULE ThreadDump ------------------------------
(***************************************************************************)
(* The search for deadlocks in a JVM's thread dump                         *)
(* (src/hub/tools/java.ts, summarizeThreadDump): from every blocked thread *)
(* follow the owners of the locks waited for, up to CAP threads, and take  *)
(* the cycle when the chain bites itself.                                  *)
(*                                                                         *)
(* The search knows threads by their names.  Starts are taken in the order *)
(* in which the dump names them, which may be any.                         *)
(***************************************************************************)
EXTENDS Integers, Sequences, FiniteSets, Functions

CONSTANTS
  Names,
  NoName,   \* undefined
  CAP       \* longest chain followed, 20

ASSUME DumpAssumption ==
  /\ IsFiniteSet(Names)
  /\ NoName \notin Names
  /\ CAP \in Nat \ {0}

VARIABLES
  waits,      \* the Map: of a blocked thread, the owner of the lock it waits for
  todo,       \* blocked threads whose turn as a start is to come
  seen,
  chain, cur, \* the chain that is followed, <<>> between two starts; its next thread
  deadlocks   \* the cycles reported, in order

vars == <<waits, todo, seen, chain, cur, deadlocks>>

Blocked == {n \in Names : waits[n] # NoName}

Init ==
  /\ waits \in [Names -> Names \cup {NoName}]
  /\ todo = Blocked
  /\ seen = {} /\ chain = <<>> /\ cur = NoName /\ deadlocks = <<>>

-----------------------------------------------------------------------------
\* A thread that lies on a cycle found before starts no chain.
Begin(start) ==
  /\ chain = <<>>
  /\ todo' = todo \ {start}
  /\ IF start \in seen THEN UNCHANGED <<chain, cur>>
                       ELSE chain' = <<start>> /\ cur' = waits[start]
  /\ UNCHANGED <<waits, seen, deadlocks>>

\* The loop's condition.
Follows == cur # NoName /\ cur \notin Range(chain) /\ Len(chain) < CAP

Follow ==
  /\ chain # <<>> /\ Follows
  /\ chain' = Append(chain, cur)
  /\ cur' = waits[cur]
  /\ UNCHANGED <<waits, todo, seen, deadlocks>>

\* Slip: the tail that led to the cycle is reported with it.
CycleWithTail == chain

\* The chain from the thread it comes back to.
Cycle == SubSeq(chain, CHOOSE i \in DOMAIN chain : chain[i] = cur, Len(chain))

\* Slip: whatever was walked counts as seen, also where the walk was cut.
CloseMarksAll ==
  /\ chain # <<>> /\ ~Follows
  /\ seen' = seen \cup Range(chain)
  /\ deadlocks' = IF cur \in Range(chain) THEN Append(deadlocks, Cycle) ELSE deadlocks
  /\ chain' = <<>> /\ cur' = NoName
  /\ UNCHANGED <<waits, todo>>

Close ==
  /\ chain # <<>> /\ ~Follows
  /\ IF cur \in Range(chain)
       THEN seen' = seen \cup Range(Cycle) /\ deadlocks' = Append(deadlocks, Cycle)
       ELSE UNCHANGED <<seen, deadlocks>>
  /\ chain' = <<>> /\ cur' = NoName
  /\ UNCHANGED <<waits, todo>>

\* The loop is over; the summary is returned.
Done == todo = {} /\ chain = <<>>

Returned == Done /\ UNCHANGED vars

Next == (\E start \in todo : Begin(start)) \/ Follow \/ Close \/ Returned

Spec == Init /\ [][Next]_vars

-----------------------------------------------------------------------------
\* Threads of which every one waits for one of them, and no fewer do.
Closed(D) == D # {} /\ \A n \in D : waits[n] \in D
Knot(C)   == Closed(C) /\ \A D \in SUBSET C : Closed(D) => D = C

\* The types of the search's state.
TypeOK ==
  /\ waits \in [Names -> Names \cup {NoName}]
  /\ todo \subseteq Names /\ seen \subseteq Names
  /\ chain \in Seq(Names) /\ Len(chain) <= CAP
  /\ cur \in Names \cup {NoName}
  /\ deadlocks \in Seq(Seq(Names))

\* What is reported as A -> B -> ... -> A is a cycle: each thread waits for the
\* next, the last for the first, and none is named twice (java.ts:142-151).
Sound ==
  \A i \in DOMAIN deadlocks :
    LET d == deadlocks[i]
    IN  /\ d # <<>> /\ waits[d[Len(d)]] = d[1]
        /\ \A j \in 1 .. Len(d) - 1 : waits[d[j]] = d[j + 1]
        /\ \A j, k \in DOMAIN d : d[j] = d[k] => j = k

\* However chains run into each other, into cycles seen before and into the cap,
\* in the end every deadlock of at most CAP threads has been reported
\* (java.ts:139-152).
Complete ==
  Done => \A C \in SUBSET Names :
            Knot(C) /\ Cardinality(C) <= CAP => \E i \in DOMAIN deadlocks : Range(deadlocks[i]) = C
=============================================================================
