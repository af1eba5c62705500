------------------------ MODULE MC_WorkloadResolution ------------------------
(***************************************************************************)
(* WorkloadResolution from clusters where at most two kinds bear the name  *)
(* (others may come to bear it during the call); labels are                *)
(* interchangeable.                                                        *)
(***************************************************************************)
EXTENDS WorkloadResolution, TLC

Bearers == {k \in KindSet : cluster.objects[k] # Absent}

FewInit == Init /\ Cardinality(Bearers) <= 2
FewSpec == FewInit /\ [][Next]_vars

Symmetry == Permutations(Labels)
=============================================================================
