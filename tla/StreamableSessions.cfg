SPECIFICATION Spec
CONSTANTS
  Sessions = {s1, s2}
  Uris = {u}
  Items = {i}
  Principals = {p1, p2}
  Nobody = Nobody
  Pending = Pending
INVARIANTS ClosedOnce BindingHolds
PROPERTIES DestroyClosesAll
CHECK_DEADLOCK FALSE
