\* Concurrent calls to one probe: the negative cache, termination, recovery.
SPECIFICATION FairSpec
CONSTANTS
  Calls = {c1, c2}
  Bases = {b1}
  NEGATIVE_CACHE = 4
  PROBE_TIMEOUT = 2
  ACTUATOR_TIMEOUT = 3
  LATENCY = 1
  LATENESS = 1
INVARIANTS WindowRespected CacheExact
PROPERTIES CallsEnd 
