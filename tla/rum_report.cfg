\* Summaries for a route and scrapes between beacons; the limits of the tables they read.
SPECIFICATION ReportSpec
CONSTANTS
  Routes = {r1, r2, r3}
  NoFilter = NoFilter
  Other = other
  Vitals = {}
  Phases = {}
  Urls = {u1, u2}
  Sigs = {g1}
  Sessions = {}
  NoSession = NoSession
  Devices = {mobile}
  Kinds = {"resource", "error"}
  MAX_SAMPLES_PER_KEY = 1
  MAX_ROUTES = 2
  MAX_RESOURCES = 1
  MAX_ERRORS = 1
  MAX_ENTRY_ROUTES = 2
  MAX_EVENTS = 2
  RETENTION = 0
  PRUNE_PERIOD = 0
  MaxTime = 2
  MaxBeacons = 3
  MaxLength = 2
SYMMETRY Symmetry
INVARIANTS  ReportCoherent
\* The run ends at MaxTime and MaxBeacons.
CHECK_DEADLOCK FALSE
