SPECIFICATION Spec
CONSTANTS
  Name = {n1, n2}
  Worker = {w1, w2}
  Client = {c1, c2}
  IdLimit = 1
  MaxLate = 2
  None = None
SYMMETRY Symmetry
VIEW View
INVARIANTS TypeOK IdsDense EventKeepsId NothingOrphaned
CHECK_DEADLOCK FALSE
