----------------------------- MODULE MC_RumReport -----------------------------
(***************************************************************************)
(* Instances of RumReport for TLC.                                         *)
(***************************************************************************)
EXTENDS RumReport, TLC

Symmetry == Permutations(Routes) \cup Permutations(Urls) \cup Permutations(Sigs)
=============================================================================
