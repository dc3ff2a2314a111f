CONSTANTS
  N = 2
  Producer = {q1, q2}
  Controller = {c1, c2}
  Chained = {0, 1}
  MayFail = TRUE
  Msg = {m1, m2, m3, m4}
  NoMsg = NoMsg
  Length <- MCLength
  Ends = {"tail"}
  Hwm = 2
SPECIFICATION FairSpec
CHECK_DEADLOCK FALSE
INVARIANTS
  SomeoneAwake
  StoppedIsQuiet
PROPERTIES
  StopEnds
  AppendedIsHandled
