\* The buffer, the vitals and consent under every order of callbacks.
SPECIFICATION FairSpec
CONSTANTS
  Keys = {lcp, cls}
  Values = {1, 2}
  Routes = {r1, r2}
  Answers = {"yes", "no", "throws"}
  BATCH_SIZE = 2
  MaxEvents = 3
INVARIANTS Conserved OnlyChanges AttributedOnce BatchBounded
PROPERTIES FlushTakesAll EventuallyFlushed
\* The page may go at any time, and takes the client with it.
CHECK_DEADLOCK FALSE
