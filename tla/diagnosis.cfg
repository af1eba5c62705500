\* Steps of a runbook at once, on a probe that comes and goes.
SPECIFICATION FairSpec
CONSTANTS
  Steps = {"golden", "threads", "kubernetes"}
  Pods = {"p1"}
  JVM = 1
  POOL = 1
  TARGETS = 0
  URIS = 1
  EXTERNALS = 1
  NEGATIVE_CACHE = 3
  PROBE_TIMEOUT = 1
  ACTUATOR_TIMEOUT = 2
  LATENCY = 0
  LATENESS = 0
INVARIANTS CostsOnce
PROPERTY Answered
