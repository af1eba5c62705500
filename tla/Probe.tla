-------------------------------- MODULE Probe --------------------------------
(***************************************************************************)
(* A request to the probe from its start on: its way through handle()      *)
(* (ProbeServer, under what Config loaded), or one that reads the access   *)
(* log while the proxy writes it (AccessLog).  Requests share nothing but  *)
(* the RUM aggregator, so a request by itself is any request.              *)
(***************************************************************************)
EXTENDS ProbeServer, AccessLog

VARIABLE reading   \* the request reads the access log

probeVars == <<reading, probeServerVars, logFileVars>>

ProbeInit ==
  /\ reading \in BOOLEAN
  /\ ServerIdle
  /\ IF reading THEN ConfigIdle /\ AccessInit ELSE ConfigInit /\ AccessIdle

Handles == ~reading /\ ProbeServerNext /\ UNCHANGED <<reading, logFileVars>>
Reads   == reading /\ AccessNext /\ UNCHANGED <<reading, probeServerVars>>

ProbeNext == Handles \/ Reads

\* Peers that say nothing run into a timer: connect() into its own, an upstream
\* without headers into fetchWithTimeout's, its body into the bodyTimeout of
\* fetch, the body of a request into the requestTimeout of Node's server.
ProbeSpec ==
  ProbeInit /\ [][ProbeNext]_probeVars /\ WF_probeVars(~reading /\ ServerStep /\ UNCHANGED <<reading, logFileVars>>)
=============================================================================
