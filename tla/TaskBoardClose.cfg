CONSTANTS
  Thread = {p1, p2}
  Task = {t1}
  Conn = {c1}
  NoTask = NoTask
  App = App
  Board = Board
  MaxNotices = 2
SPECIFICATION OrderedSpec
INVARIANT CloseReachesWaiter
