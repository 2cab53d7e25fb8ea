SPECIFICATION FairSpec
CONSTANTS
  Task = {t1, t2, t3}
  Host = {h1}
  Lookup = {l1, l2, l3}
  NoHost = NoHost
  NoLookup = NoLookup
  Traced = FALSE
  Eager = TRUE
  MayClear = TRUE
INVARIANTS
  ThrottleIsRunning
  CancelNotBroadcast
PROPERTIES
  CallsEnd
