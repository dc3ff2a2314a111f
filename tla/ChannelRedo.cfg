CONSTANTS
  Caller = {c1}
  Handler = {h1, h2}
  NoHandler = NoHandler
  ReadSize = 1
  PipeSize = 2
  MaxCalls = 3
SPECIFICATION Spec
CHECK_DEADLOCK FALSE
INVARIANT RedoLeadsToLive
