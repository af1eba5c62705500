------------------------------ MODULE RumWindows ------------------------------
(***************************************************************************)
(* The RUM aggregator shown to implement SampleWindows: every buffer of    *)
(* the Maps prune() visits is a window on what was pushed to it, with one  *)
(* cutoff for all of them; the durations of views are windows whose cutoff *)
(* never moves.                                                            *)
(***************************************************************************)
EXTENDS RumAggregator, Sequences

VARIABLES
  log,      \* history: per buffer, the times of all pushes
  horizon   \* history: the retention's limit as of the latest prune

windowVars == <<vars, log, horizon>>

Keys ==
  [map : {"vital"}, route : AnyRoute, name : Vitals]
    \cup [map : {"nav"}, route : AnyRoute, name : Phases]
    \cup [map : {"resource"}, url : Urls]

ViewKeys == [map : {"view"}, route : Routes]

Buffer(k) ==
  CASE k.map = "vital"    -> vitals[k.route][k.name]
    [] k.map = "nav"      -> nav[k.route][k.name]
    [] k.map = "resource" -> resources[k.url].times
    [] k.map = "view"     -> views[k.route].durations

WindowInit ==
  /\ Init
  /\ log = [k \in Keys \cup ViewKeys |-> <<>>]
  /\ horizon = 0

Logged(k) == IF Buffer(k)'.pushed > Buffer(k).pushed THEN Append(log[k], now) ELSE log[k]

WindowNext ==
  /\ Next
  /\ log' = [k \in Keys \cup ViewKeys |-> Logged(k)]
  /\ horizon' = IF lastPrune' # lastPrune /\ now - RETENTION > horizon
                THEN now - RETENTION ELSE horizon

WindowSpec == WindowInit /\ [][WindowNext]_windowVars

-----------------------------------------------------------------------------
Pruned == INSTANCE SampleWindows WITH
  N <- MAX_SAMPLES_PER_KEY, Clock <- 0 .. MaxTime,
  arrivals <- [k \in Keys |-> log[k]],
  cutoff <- horizon,
  window <- [k \in Keys |-> Buffer(k).kept]

Durations == INSTANCE SampleWindows WITH
  Keys <- ViewKeys, N <- MAX_SAMPLES_PER_KEY, Clock <- 0 .. MaxTime,
  arrivals <- [k \in ViewKeys |-> log[k]],
  cutoff <- 0,
  window <- [k \in ViewKeys |-> Buffer(k).kept]

\* However pushes and prunes mix, what a summary of vitals, navigation phases or
\* resource times is computed from is exactly the latest MAX_SAMPLES_PER_KEY
\* samples of its key that the retention allowed at the latest prune, under one
\* limit for every key (rum.ts:26-32, 192-195).
PrunedWindows == Pruned!Spec

\* The durations of a view are the latest MAX_SAMPLES_PER_KEY of the route's,
\* whatever their age (rum.ts:26-29, 121).
DurationWindows == Durations!Spec
=============================================================================
