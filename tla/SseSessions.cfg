SPECIFICATION Spec
CONSTANTS
  Sessions = {s1, s2}
  Uris = {u}
  Items = {i}
INVARIANTS MapsAgree OffersExplained
PROPERTIES KeepsFeed ClosedIsCleaned
CHECK_DEADLOCK FALSE
