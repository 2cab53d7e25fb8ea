SPECIFICATION Spec
CONSTANTS
  Task = {t1, t2, t3}
  Key = {k1, k2}
  Conn = {c1, c2, c3}
  NoKey = NoKey
  NoConn = NoConn
  Limit = 3
  LimitPerHost = 1
  ForceClose = FALSE
  Traced = TRUE
  CancelWoken = TRUE
SYMMETRY Symmetry
INVARIANTS
  SlotsMatchUse
  QueuedOnce
PROPERTIES
  ImplementsLeasePool
CHECK_DEADLOCK FALSE
