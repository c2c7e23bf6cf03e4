\* Tickets of an event; its no-shows; what is shown of a ticket.
SPECIFICATION MCSpec
CONSTANTS
  User = {u1, u2}
  Tx = {t1, t2}
  Ticket = {k1, k2}
  Worker = {w1, w2}
  Desk = {d1}
  HasLimit = TRUE
  Limit = 1
  None = None
  Holder = {h1, h2}
  Visit = {v1}
  Runner = {r1}
  ListLimit = 1
  NoHolder = NoHolder
  Instant = {0, 1, 2}
  Distance = {0, 1}
  Hidden = Hidden
SYMMETRY Symmetry
INVARIANTS TicketingTypeOK TicketsMatch SeatKeepsTicket CameNotPunished EveryNoShowPunished AvailableMeansCheckin
PROPERTIES PassesImplemented RefusedForLeftover
CHECK_DEADLOCK FALSE
