SPECIFICATION Spec
CONSTANTS
  Count = 2
  Posts = {p1, p2}
  Waits = {w1, w2}
  TimedWaits = {w1}
  None = None
INVARIANTS NotifierIsWaiting AnsweredBySubmission StoreAgrees
PROPERTIES TimedWaitsSettle
CHECK_DEADLOCK FALSE
