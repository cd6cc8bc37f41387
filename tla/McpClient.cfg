SPECIFICATION Spec
CONSTANTS
  Connects = {c1, c2}
  Disconnects = {d1, d2}
  Loops = {l1, l2}
  Transports = {t1, t2, t3, t4, t5, t6}
  None = None
  Methods = {m}
  MaxAttempts = 2
  Reconnects = TRUE
INVARIANTS OneLoop ConnectedIsOpen HandlersApplied
PROPERTIES LoopSettles
CHECK_DEADLOCK FALSE
