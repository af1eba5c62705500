\* Beacons of the client against the limits of the probe.
SPECIFICATION DeliverySpec
CONSTANTS
  Keys = {lcp, cls}
  Values = {1}
  Routes = {r1}
  Answers = {"yes", "no"}
  BATCH_SIZE = 2
  MaxEvents = 3
  ERROR_SIZE = 2
  MAX_BODY = 5
  MAX_EVENTS = 4
SYMMETRY Symmetry
INVARIANTS WholeBeacons
\* The page may go at any time, and takes the client with it.
CHECK_DEADLOCK FALSE
