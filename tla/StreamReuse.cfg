SPECIFICATION Spec
CONSTANTS
  Reader = {r1}
  Nobody = Nobody
  Limit = 1
  MaxTotal = 3
  MaxPiece = 3
  Separator = {2, 3}
  SepLen = 1
  Methods <- AllMethods
  Messages = 2
  Discards = TRUE
INVARIANTS
  PausedOnlyWhileFull
CHECK_DEADLOCK FALSE
