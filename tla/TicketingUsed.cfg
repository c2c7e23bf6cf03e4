SPECIFICATION KeptSpec
CONSTANTS
  User = {u1}
  Tx = {t1, t2}
  Ticket = {k1, k2}
  Worker = {w1, w2}
  Desk = {d1}
  HasLimit = TRUE
  Limit = 1
  None = None
SYMMETRY Symmetry
PROPERTY UsedIsKept
CHECK_DEADLOCK FALSE
