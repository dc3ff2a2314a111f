CONSTANTS
  Thread = {p1, p2, p3}
  m0 = m0
  m1 = m1
  m2 = m2
  Msg = {m0, m1, m2}
  NoMsg = NoMsg
  Length <- MCLength
  Ends = {"head", "tail"}
  Hwm = 2
  Lwm = 2
  NewHwms = {1, 3}
  Task = {t1, t2, t3}
  Null = Null
  IdWidth = 6
  LockThread = {p1, p2, p3}
  LockId = {i1, i2}
  NoId = NoId
  Obj = {o1, o2, o3, o4}
  NoObj = NoObj
  Mode = {"read", "write"}
  MaxFree = 1
  CountMod = 4
  HeadLen = 2
  DataLen = {0, 1, 2}
  MaxSent = 2
  MaxConns = 2
  Timer = {h1, h2, h3, h4, h5, h6}
  When = {1, 2}
  Nobody = Nobody
SPECIFICATION Structures
CHECK_DEADLOCK FALSE
SYMMETRY Symmetry
INVARIANTS
  NobodySleepsClosed
  IndexAgrees
  LockExclusive
  ReceivedWhole
PROPERTIES
  DequeSpec
  TimerSpec
  ChainSpec
