\* The errors counter read by two scrapes around a prune.
SPECIFICATION ReportSpec
CONSTANTS
  Routes = {r1, r2, r3}
  NoFilter = NoFilter
  Other = other
  Vitals = {}
  Phases = {}
  Urls = {u1}
  Sigs = {g1}
  Sessions = {}
  NoSession = NoSession
  Devices = {mobile}
  Kinds = {"resource", "error"}
  MAX_SAMPLES_PER_KEY = 1
  MAX_ROUTES = 2
  MAX_RESOURCES = 1
  MAX_ERRORS = 1
  MAX_ENTRY_ROUTES = 2
  MAX_EVENTS = 2
  RETENTION = 1
  PRUNE_PERIOD = 1
  MaxTime = 4
  MaxBeacons = 2
  MaxLength = 2
SYMMETRY Symmetry
PROPERTY ErrorsOnlyGrow
\* The run ends at MaxTime and MaxBeacons.
CHECK_DEADLOCK FALSE
