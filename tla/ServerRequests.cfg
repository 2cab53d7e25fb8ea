SPECIFICATION FairSpec
CONSTANTS
  MaxRequests = 3
  HandlerCancellation = {TRUE, FALSE}
INVARIANTS
  NoRequestUnseen
  GraceGiven
  ShutdownLeavesNothing
PROPERTIES
  TimerSparesRequests
  IdleEnds
  ShutdownEnds
CHECK_DEADLOCK FALSE
