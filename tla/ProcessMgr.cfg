CONSTANTS
  Pid = {p1, p2}
  NoPid = NoPid
  MaxAsks = 2
  MaxNested = 2
SPECIFICATION FairSpec
CHECK_DEADLOCK FALSE
INVARIANTS
  OneWorker
  WorkerIsKnown
PROPERTIES
  Replaced
  StopEndsAll
