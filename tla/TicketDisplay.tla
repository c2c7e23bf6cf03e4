---------------------------- MODULE TicketDisplay ----------------------------
(***************************************************************************)
(* What a ticket is said to be, and what becomes of a check-in: the list   *)
(* and the detail of tickets, the two check-ins and the list of no-shows,  *)
(* each with its own look at the clock and at the event, as decisions on a *)
(* situation; every situation is an initial state, nothing happens in it.  *)
(***************************************************************************)
EXTENDS Integers

CONSTANTS
  Instant,   \* of the clock, the start and the end of the event
  Distance,  \* metres between the holder and the event, and radii
  Hidden     \* no such field in the answer, no such answer

ASSUME HiddenAssumption == Hidden \notin {"unused", "used", "invalid"}
ASSUME InstantAssumption == Instant \subseteq Int /\ Distance \subseteq Nat

\* column: tickets.status; answers: the event service does; own: the asker holds the
\* ticket; staff: the asker is a welfare member.
View ==
  [now : Instant, start : Instant, end : Instant, column : {"unused", "used"},
   answers : BOOLEAN, own : BOOLEAN, staff : BOOLEAN, away : Distance, radius : Distance]

VARIABLE view  \* what all of them meet

ViewInit == view \in View

DuringEvent_Open(v) == v.start < v.now /\ v.now < v.end

DuringEvent(v) == v.start <= v.now /\ v.now <= v.end

Available(v) == DuringEvent(v) /\ v.column = "unused"

\* An unused ticket is shown as invalid outside the event; no row is.
DisplayStatus(v) ==
  IF v.column = "unused" /\ (v.now < v.start \/ v.now > v.end) THEN "invalid" ELSE v.column

\* Without the event the row is shown as it is, and not for check-in.
Shown(v) ==
  IF v.answers THEN [status |-> DisplayStatus(v), available |-> Available(v)]
  ELSE [status |-> v.column, available |-> FALSE]

Nothing == [status |-> Hidden, available |-> FALSE]

\* get_user_tickets: one's own.
ListEntry(v) == IF v.own THEN Shown(v) ELSE Nothing

\* get_ticket_detail: one's own, or anybody's for a welfare member.
Detail(v) == IF v.own \/ v.staff THEN Shown(v) ELSE Nothing

----------------------------------------------------------------------------
(* POST /tickets/{ticketId}/checkin; verdicts in the order of the code      *)

CheckinByWelfare(v) == 200

CheckinByHolder(v) ==
  IF ~v.own THEN 404
  ELSE IF v.column # "unused" THEN 400
  ELSE IF ~v.answers THEN 500
  ELSE IF DuringEvent(v) /\ v.away <= v.radius THEN 200
  ELSE 400

Checkin(v) == IF v.staff THEN CheckinByWelfare(v) ELSE CheckinByHolder(v)

\* get_unused_tickets_for_ended_event
ListedAsNoShow(v) == v.answers /\ v.end <= v.now /\ v.column = "unused"

----------------------------------------------------------------------------
(* Properties *)

\* A holder on the spot is told that check-in is available if and only if it would be
\* accepted, by the list and by the detail; while the event service answers, "unused"
\* means the same; and a holder who is told so is not a no-show yet, but for the very
\* instant of the end, which counts as both.
AvailableMeansCheckin ==
  view.away <= view.radius =>
    LET shown == Detail(view)
    IN  /\ view.own => ListEntry(view) = shown
        /\ view.own /\ ~view.staff => (shown.available <=> CheckinByHolder(view) = 200)
        /\ view.answers => (shown.available <=> shown.status = "unused")
        /\ shown.available /\ ListedAsNoShow(view) => view.now = view.end
        /\ shown.available => Checkin(view) = 200
=============================================================================
