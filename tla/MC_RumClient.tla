----------------------------- MODULE MC_RumClient -----------------------------
(***************************************************************************)
(* Instances of RumClient for TLC.                                         *)
(***************************************************************************)
EXTENDS RumClient, TLC

\* Metrics are interchangeable, and so are routes but for the CHOOSE of an
\* unreported metric's route, which nothing reads.
Symmetry == Permutations(Keys)
=============================================================================
