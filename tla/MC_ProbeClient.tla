---------------------------- MODULE MC_ProbeClient ----------------------------
(***************************************************************************)
(* ProbeClient on durations that are small but ordered as in the code:     *)
(* 5 s for a call, 8 s for the JVM, 20 s in the cache.                     *)
(***************************************************************************)
EXTENDS ProbeClient

ASSUME OrderOfDurations ==
  LATENCY < PROBE_TIMEOUT /\ PROBE_TIMEOUT < ACTUATOR_TIMEOUT /\ ACTUATOR_TIMEOUT < NEGATIVE_CACHE
=============================================================================
