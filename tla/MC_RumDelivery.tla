---------------------------- MODULE MC_RumDelivery ----------------------------
(***************************************************************************)
(* Instances of RumDelivery for TLC.                                       *)
(***************************************************************************)
EXTENDS RumDelivery, TLC

Symmetry == Permutations(Keys)
=============================================================================
