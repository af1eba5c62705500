---------------------------- MODULE MC_RumWindows ----------------------------
(***************************************************************************)
(* Instances of RumWindows for TLC.  Views have Maps and rules of their    *)
(* own, which no prune touches: a behaviour has beacons with web vitals    *)
(* and navigation timings, or beacons with views.  Routes are              *)
(* interchangeable, and so are phases: no action or property names one.    *)
(***************************************************************************)
EXTENDS RumWindows, TLC

Unseen(map) == Present(map) = {}

ApartSpec ==
  WindowInit /\ [][WindowNext /\ (Viewed = {} \/ (Unseen(vitals) /\ Unseen(nav)))']_windowVars

Symmetry == Permutations(Routes) \cup Permutations(Phases)
=============================================================================
