SPECIFICATION Spec
CONSTANTS
  User = {u1, u2, u3}
  Tx = {t1, t2, t3}
  Ticket = {k1}
  Worker = {w1, w2}
  HasLimit = TRUE
  Limit = 1
  None = None
SYMMETRY Symmetry
INVARIANT NoOversell
CHECK_DEADLOCK FALSE
