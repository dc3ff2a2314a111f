CONSTANTS
  Thread = {p1, p2}
  Task = {t1, t2}
  Conn = {c1}
  NoTask = NoTask
  App = App
  Board = Board
  MaxNotices = 2
SPECIFICATION Spec
SYMMETRY Symmetry
INVARIANTS
  NoStrandedWork
  IndexesMirror
PROPERTIES
  LeaseSpec
