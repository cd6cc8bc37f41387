SPECIFICATION Spec
CONSTANTS
  Calls = {c1, c2, c3, c4, c5, c6}
  MinRequests = 2
  ThresholdNum = 1
  ThresholdDen = 2
  HalfOpenTimeout = 2
INVARIANTS CircuitAccounts
PROPERTIES
  TripJustified
  KeepsContract
  OpenEnds
