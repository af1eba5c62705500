\* Buffers, overflow route, retention and windows of vitals, navigation timings and views.
SPECIFICATION ApartSpec
CONSTANTS
  Routes = {r1, r2}
  Other = other
  Vitals = {LCP}
  Phases = {ttfb}
  Urls = {}
  Sigs = {}
  Sessions = {s1}
  NoSession = NoSession
  Devices = {mobile}
  Kinds = {"vital", "nav", "view"}
  MAX_SAMPLES_PER_KEY = 2
  MAX_ROUTES = 1
  MAX_RESOURCES = 1
  MAX_ERRORS = 1
  MAX_ENTRY_ROUTES = 1
  MAX_EVENTS = 2
  RETENTION = 1
  PRUNE_PERIOD = 1
  MaxTime = 4
  MaxBeacons = 3
  MaxLength = 3
SYMMETRY Symmetry
INVARIANTS MapsBounded OverflowOnlyWhenFull Retained
PROPERTIES FreshAfterReturn PrunedWindows 
\* The run ends at MaxTime and MaxBeacons.
CHECK_DEADLOCK FALSE
