SPECIFICATION Spec
CONSTANTS
  Task = {t1, t2, t3, t4}
  Key = {k1, k2}
  Conn = {c1, c2, c3, c4}
  NoKey = NoKey
  NoConn = NoConn
  Limit = 2
  LimitPerHost = 0
  ForceClose = FALSE
  Traced = FALSE
  CancelWoken = FALSE
SYMMETRY Symmetry
INVARIANTS
  ExclusiveLease
  NoLostSlot
  NothingOutlivesClose
  NoTransportLeak
CHECK_DEADLOCK FALSE
