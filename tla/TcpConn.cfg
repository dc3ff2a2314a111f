SPECIFICATION Spec
CONSTANTS
  Handler = {h1, h2}
  Fd = {f1, f2}
  ConnId = {c1, c2}
  None = None
  NoFd = NoFd
  NoConn = NoConn
  NotWatched = NotWatched
  AddMayFail = TRUE
SYMMETRY Symmetry
INVARIANTS
  KernelMatches
  EventReachesOwner
  ConnMapAgrees
  NoneForgotten
  RecycledIsUnknown
  SendersAreWatched
CHECK_DEADLOCK FALSE
