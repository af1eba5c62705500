\* Every start and every request, and the access log under its writer and rotation.
SPECIFICATION ProbeSpec
CONSTANTS
  Spaces = {n1, n2}
  BODY_LIMIT = 2
  Kinds <- MCKinds
  LENGTH = 3
  MAX_BYTES = 5
  MAX_LINES = 4
INVARIANTS ConfigSafe Guarded AccessExact
PROPERTY RequestsEnd
\* A request ends, a start may be refused, and the log's lines are bounded.
CHECK_DEADLOCK FALSE
