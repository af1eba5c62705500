\* Four requests that overlap, and a restart.
SPECIFICATION FairSpec
CONSTANTS
  Requests = {q1, q2, q3, q4}
  NoSession = NoSession
  MayRestart = TRUE
INVARIANTS KnownServed OwnSession StaysDeleted
 
\* All requests may have been answered.
CHECK_DEADLOCK FALSE
