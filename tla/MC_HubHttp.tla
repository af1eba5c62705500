------------------------------ MODULE MC_HubHttp ------------------------------
(***************************************************************************)
(* An instance of HubHttp for TLC.                                         *)
(***************************************************************************)
EXTENDS HubHttp, TLC
=============================================================================
