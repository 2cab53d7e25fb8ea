SPECIFICATION FairSpec
CONSTANTS
  Receiver = r
  Closers = {c1, c2}
  Nobody = nobody
  Autoclose = {TRUE, FALSE}
  LostAs = {"eof", "disconnected"}
  MaxQueue = 2
INVARIANTS
  OneReader
  OneCloseFrame
  ClosedIsReleased
  OpenIsWatched
PROPERTIES
  PeerCodeKept
  ReceiveEnds
  CloseEnds
  HeartbeatStops
CHECK_DEADLOCK FALSE
