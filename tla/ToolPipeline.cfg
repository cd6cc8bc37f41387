SPECIFICATION Spec
CONSTANTS
  s1 = s1
  s2 = s2
  Nobody = Nobody
  Sessions <- MCSessions
  Ids = {1, 2}
  Calls <- ThreeCalls
  Timeout = 1
  MinRequests = 1
  ThresholdNum = 1
  ThresholdDen = 2
  HalfOpenTimeout = 1
  MaxAttempts = 2
  Backoff = "fixed"
  InitialDelay = 1
  MaxDelay = 1
INVARIANTS AnswersMatchChain ControllersLive
PROPERTIES EveryCallAnswered
