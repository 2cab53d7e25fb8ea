SPECIFICATION FairSpec
CONSTANTS
  Reader = {r1}
  Nobody = Nobody
  Limit = 1
  MaxTotal = 4
  MaxPiece = 3
  Separator = {2, 3}
  SepLen = 1
  Methods <- AllMethods
  Messages = 2
  Discards = FALSE
INVARIANTS
  TypeOK
  InOrder
  PausedOnlyWhileFull
  NoSleepOnData
  ReadsAreExact
PROPERTIES
  ReadsEnd
CHECK_DEADLOCK FALSE
