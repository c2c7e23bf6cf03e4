\* Seats without overlapping cancellations; details; autofill;
\* who may register.
SPECIFICATION MCSpec
CONSTANTS
  User = {u1, u2, u3}
  Tx = {t1, t2, t3}
  Ticket = {k1}
  Worker = {w1, w2, w3}
  HasLimit = TRUE
  Limit = 1
  None = None
  Editor = {x1, x2}
  GuestMax = 1
  NoEdit = NoEdit
  EventCategory = {sport, food}
  Null = Null
  MaxGuests = 1
  Moment = {0, 1}
  Seat = {0, 1}
  NoLimit = NoLimit
  Missing = Missing
SYMMETRY Symmetry
INVARIANTS NoIdleSeat AutofillCarriesOver PreCheckPredictsPost
PROPERTIES SeatsImplemented StatusMovesForward DeadlineHolds
CHECK_DEADLOCK FALSE
