CONSTANTS
  Thread = {t1, t2}
  Calls = {"op", "stop"}
  MayFail = TRUE
  MaxCalls = 2
  MaxNotices = 2
SPECIFICATION FairSpec
CHECK_DEADLOCK FALSE
INVARIANTS
  WakeIsOwed
  ServedWithinOnePoll
  NoticesInOrder
PROPERTIES
  EveryNoticeHandled
