--------------------------- MODULE RollingSamples ---------------------------
(***************************************************************************)
(* The bounded sample buffer of the RUM aggregator (src/probe/rum.ts,      *)
(* class RollingSamples): an array that is appended to, cut from the front *)
(* when it grows past its limit, and filtered by age.                      *)
(*                                                                         *)
(* The array is a set of records [n, t]: n is the arrival number of the    *)
(* sample in this buffer (array order is the order of n) and t the time it *)
(* was recorded.  The measured value is left out: neither operation looks  *)
(* at it.  "pushed" counts arrivals and exists only to number them.        *)
(***************************************************************************)
EXTENDS Integers, FiniteSets

CONSTANT MAX_SAMPLES_PER_KEY   \* 2000 in the code

ASSUME MaxSamplesAssumption == MAX_SAMPLES_PER_KEY \in Nat \ {0}

Sample == [n : Nat \ {0}, t : Nat]

Rolling == [pushed : Nat, kept : SUBSET Sample]

\* new RollingSamples()
Empty == [pushed |-> 0, kept |-> {}]

\* The element at index 0 of the array.
Oldest(S) == CHOOSE x \in S : \A y \in S : x.n <= y.n

\* Slip: the wrong end of the array is cut.
PushCutsBack(s, t) ==
  [pushed |-> s.pushed + 1,
   kept   |-> IF Cardinality(s.kept) >= MAX_SAMPLES_PER_KEY
              THEN s.kept ELSE s.kept \cup {[n |-> s.pushed + 1, t |-> t]}]

\* push: append, then splice one element off the front when over the limit.
Push(s, t) ==
  LET grown == s.kept \cup {[n |-> s.pushed + 1, t |-> t]}
  IN  [pushed |-> s.pushed + 1,
       kept   |-> IF Cardinality(grown) > MAX_SAMPLES_PER_KEY
                  THEN grown \ {Oldest(grown)}
                  ELSE grown]

\* Slip: the age test off by one.
PruneLate(s, cutoff) == [s EXCEPT !.kept = {x \in @ : x.t >= cutoff - 1}]

\* prune: keep the samples recorded at or after the cutoff.
Prune(s, cutoff) == [s EXCEPT !.kept = {x \in @ : x.t >= cutoff}]

-----------------------------------------------------------------------------
(***************************************************************************)
(* What the rest of the aggregator relies on.                              *)
(***************************************************************************)

Within(s) == /\ IsFiniteSet(s.kept)
             /\ Cardinality(s.kept) <= MAX_SAMPLES_PER_KEY

\* Numbers are arrivals so far, no number twice, times in order of arrival
\* and never in the future.
Ordered(s, now) ==
  /\ \A x \in s.kept : x.n <= s.pushed /\ x.t <= now
  /\ \A x, y \in s.kept : /\ x.n = y.n => x = y
                          /\ x.n < y.n => x.t <= y.t

\* The buffer holds a suffix of what arrived: a sample is never kept while a
\* newer one is gone.
Newest(s) ==
  \A x \in s.kept : \A n \in x.n .. s.pushed : \E y \in s.kept : y.n = n

Since(s, cutoff) == \A x \in s.kept : x.t >= cutoff

\* t is s after one step of the aggregator: what is gone was older than the
\* cutoff, or made room for a full buffer of newer samples.
LosesOnlyOld(s, t, cutoff) ==
  \A x \in s.kept \ t.kept :
    \/ x.t < cutoff
    \/ Cardinality({y \in t.kept : y.n > x.n}) = MAX_SAMPLES_PER_KEY
=============================================================================
