CONSTANTS
  Thread = {t1}
  Calls = {"stop"}
  MayFail = FALSE
  MaxCalls = 1
  MaxNotices = 0
SPECIFICATION FairSpec
CHECK_DEADLOCK FALSE
PROPERTY StopEnds
