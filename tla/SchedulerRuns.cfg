SPECIFICATION FairSpec
CONSTANTS
  N = 4
  NumWorkers = 2
  ChunkSizes <- OneAndTwo
  MayFail = TRUE
  Rerun = FALSE
INVARIANTS
  OnePlace
  InputsKept
  NothingHoarded
  WorkersBound
PROPERTIES
  Terminates
  ImplementsTaskGraph
CHECK_DEADLOCK FALSE
