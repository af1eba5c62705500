------------------------------- MODULE MC_Probe -------------------------------
(***************************************************************************)
(* Instances of Probe for TLC.                                             *)
(***************************************************************************)
EXTENDS Probe

MCKinds == {[recent |-> TRUE, status |-> "2xx", path |-> "/a", upstream |-> "u"],
            [recent |-> FALSE, status |-> "5xx", path |-> "/a", upstream |-> "-"],
            [recent |-> TRUE, status |-> "5xx", path |-> "/b", upstream |-> "u"]}
=============================================================================
