\* A vital dropped for want of consent is marked as sent.
SPECIFICATION Spec
CONSTANTS
  Keys = {lcp}
  Values = {1, 2}
  Routes = {r1}
  Answers = {"yes", "no"}
  BATCH_SIZE = 2
  MaxEvents = 4
PROPERTIES FinalValueSent
\* The page may go at any time, and takes the client with it.
CHECK_DEADLOCK FALSE
