----------------------------- MODULE MC_Diagnosis -----------------------------
(***************************************************************************)
(* Diagnosis with durations in the order of the code's.                    *)
(***************************************************************************)
EXTENDS Diagnosis

ASSUME OrderOfDurations ==
  LATENCY < PROBE_TIMEOUT /\ PROBE_TIMEOUT < ACTUATOR_TIMEOUT /\ ACTUATOR_TIMEOUT < NEGATIVE_CACHE
=============================================================================
