SPECIFICATION RequestsSpec
CONSTANTS
  User = {u1, u2}
  Tx = {t1, t2}
  Ticket = {k1}
  Worker = {w1, w2}
  HasLimit = TRUE
  Limit = 1
  None = None
SYMMETRY Symmetry
INVARIANT CancelledHoldsNoTicket
CHECK_DEADLOCK FALSE
