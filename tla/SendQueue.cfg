CONSTANTS
  m1 = m1
  m2 = m2
  m3 = m3
  None = None
  Msg <- MCMsg
  FailNotice <- MCFailNotice
  Size = 2
  MaxWaiting = 2
  ContinueNum = 1
  Modulus = 8
  Kinds = {"conn", "channel"}
  MaxOpens = 2
SPECIFICATION FairSpec
CHECK_DEADLOCK FALSE
INVARIANTS
  OwnedOnce
  WireWhole
  FailureTold
PROPERTIES
  EveryMessageEnds
