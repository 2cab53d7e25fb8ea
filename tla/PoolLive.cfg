SPECIFICATION FairSpec
CONSTANTS
  Task = {t1, t2, t3}
  Key = {k1, k2}
  Conn = {c1, c2}
  NoKey = NoKey
  NoConn = NoConn
  Limit = 1
  LimitPerHost = 0
  ForceClose = FALSE
  Traced = FALSE
  CancelWoken = FALSE
PROPERTIES
  IdleEventuallyLeaves
  ServedWhenQuiet
CHECK_DEADLOCK FALSE
