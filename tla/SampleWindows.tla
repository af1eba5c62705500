---------------------------- MODULE SampleWindows ----------------------------
(***************************************************************************)
(* What bounded samples kept per key promise: of each key's arrivals, the  *)
(* latest N that are not older than a cutoff, no more and no less.  The    *)
(* cutoff moves forward for all keys at once.                              *)
(***************************************************************************)
EXTENDS Integers, Sequences

CONSTANTS
  Keys,
  N,      \* samples shown per key
  Clock   \* times at which samples arrive

VARIABLES
  arrivals,   \* per key, the times of all its samples in order of arrival
  cutoff,
  window      \* per key, the samples shown: number and time

Latest(times, c) ==
  {[n |-> i, t |-> times[i]] :
     i \in {j \in 1 .. Len(times) : j > Len(times) - N /\ times[j] >= c}}

Shown == window = [k \in Keys |-> Latest(arrivals[k], cutoff)]

Init ==
  /\ arrivals = [k \in Keys |-> <<>>]
  /\ cutoff = 0
  /\ Shown

\* A sample arrives at some of the keys.
Arrive(t) ==
  /\ arrivals' \in [Keys -> Seq(Clock)]
  /\ \A k \in Keys : arrivals'[k] \in {arrivals[k], Append(arrivals[k], t)}
  /\ UNCHANGED cutoff

Forget ==
  /\ cutoff' > cutoff
  /\ UNCHANGED arrivals

Next ==
  /\ Forget \/ \E t \in Clock : Arrive(t)
  /\ Shown'

Spec == Init /\ [][Next]_<<arrivals, cutoff, window>>
=============================================================================
