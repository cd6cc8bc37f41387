SPECIFICATION Spec
CONSTANTS
  u1 = u1
  k1 = k1
  k2 = k2
  k3 = k3
  None = None
  Upstreams <- MCUpstreams
  Keys <- MCKeys
  Route <- MCRoute
  Calls = {c1, c2}
  Sampling = {c1, c2}
  MaxPings = 2
  MaxSize = 1
INVARIANTS ForwarderServes CacheKept
PROPERTIES EveryCallEnds HealthFollows
