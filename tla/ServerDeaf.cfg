SPECIFICATION Spec
CONSTANTS
  MaxRequests = 3
  HandlerCancellation = {FALSE}
INVARIANTS
  NoDeafConnection
CHECK_DEADLOCK FALSE
