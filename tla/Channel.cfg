CONSTANTS
  Caller = {c1, c2}
  Handler = {h1, h2}
  NoHandler = NoHandler
  ReadSize = 1
  PipeSize = 2
  MaxCalls = 3
SPECIFICATION FairSpec
CHECK_DEADLOCK FALSE
INVARIANTS
  RedoKept
  ServedWithinOneDispatch
PROPERTIES
  RedoIsCalled
  PostedIsTaken
