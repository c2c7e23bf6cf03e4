\* Any overlap of requests, event deletion included.
SPECIFICATION Spec
CONSTANTS
  User = {u1, u2, u3}
  Tx = {t1, t2, t3}
  Ticket = {k1, k2}
  Worker = {w1, w2, w3}
  HasLimit = TRUE
  Limit = 1
  None = None
SYMMETRY Symmetry
INVARIANTS TypeOK OneActivePerUser WaitlistNumbersUnique
PROPERTIES RegistrationRespectsLimit QueueDiscipline CancelledIsFinal OneTicketPerRegistration
CHECK_DEADLOCK FALSE
