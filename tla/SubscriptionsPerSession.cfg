SPECIFICATION Spec
CONSTANTS
  Sessions = {s1, s2}
  Uris = {u}
  Items = {i}
  Principals = {p1, p2}
  Nobody = Nobody
  Pending = Pending
INVARIANT SubscriptionsPerSession
CHECK_DEADLOCK FALSE
