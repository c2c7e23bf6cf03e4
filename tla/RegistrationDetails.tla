------------------------ MODULE RegistrationDetails ------------------------
(***************************************************************************)
(* The details of one registration: update_registration, next to the       *)
(* cancellations and the promotion of the same row, and the deadline of    *)
(* the event for both.  A request loads the row, asks for the event, which *)
(* may take 5 s, and commits; nothing locks the row for an update.         *)
(***************************************************************************)
EXTENDS Integers

CONSTANTS
  Editor,    \* slots for requests about this registration
  GuestMax,  \* bound on guest_count: 10
  NoEdit     \* an idle slot

ASSUME GuestMaxAssumption == GuestMax \in Nat

VARIABLES
  event,    \* [limited, deadline]: is there a ticket_limit, a cancellation_deadline
  passed,   \* the deadline has passed
  seat,     \* column status
  guests,   \* column guest_count
  edit,     \* per slot: the request and what it has loaded, or NoEdit
  crossed   \* history: something happened while a request was under way

detailVars == <<event, passed, seat, guests, edit, crossed>>

SeatStates == {"waitlist", "confirmed", "cancelled"}
Edit  == [op : {"update", "cancel"}, wish : 0..GuestMax, seen : SeatStates, had : 0..GuestMax,
          admitted : BOOLEAN]

DetailsInit ==
  /\ event \in [limited : BOOLEAN, deadline : BOOLEAN]
  /\ passed = FALSE
  /\ seat \in IF event.limited THEN {"waitlist", "confirmed"} ELSE {"confirmed"}
  /\ guests \in IF event.limited THEN {0} ELSE 0..GuestMax
  /\ edit = [x \in Editor |-> NoEdit]
  /\ crossed = FALSE

LoadedRow(op, wish) == [op |-> op, wish |-> wish, seen |-> seat, had |-> guests, admitted |-> FALSE]

\* db.get; INVALID_STATE or ALREADY_CANCELLED if the registration is cancelled.
ReadForEdit(x, op, wish) ==
  /\ edit[x] = NoEdit
  /\ seat # "cancelled"
  /\ edit' = [edit EXCEPT ![x] = LoadedRow(op, wish)]
  /\ UNCHANGED <<event, passed, seat, guests>>

MayEdit_AnyTime(e) ==
  IF e.op = "cancel"
  THEN e.seen = "confirmed" => event.deadline /\ ~passed
  ELSE event.limited => e.wish = 0

\* A seat is cancelled, and its details are changed, before the deadline; without one
\* it is not cancelled at all but may be changed.  Limited events take no guests.
MayEdit(e) ==
  IF e.op = "cancel"
  THEN e.seen = "confirmed" => event.deadline /\ ~passed
  ELSE /\ e.seen = "confirmed" => ~passed
       /\ event.limited => e.wish = 0

Waits(x) == edit[x] # NoEdit /\ ~edit[x].admitted

\* get_event has answered.
AdmitEdit(x) ==
  /\ Waits(x)
  /\ MayEdit(edit[x])
  /\ edit' = [edit EXCEPT ![x].admitted = TRUE]
  /\ UNCHANGED <<event, passed, seat, guests>>

\* 400, 409, the event service does not answer, or the request dies.
EndEdit(x) ==
  /\ edit[x] # NoEdit
  /\ edit' = [edit EXCEPT ![x] = NoEdit]
  /\ UNCHANGED <<event, passed, seat, guests>>

SaveUpdate_WholeRow(x) ==
  /\ edit[x] # NoEdit /\ edit[x].admitted /\ edit[x].op = "update"
  /\ guests' = edit[x].wish
  /\ seat' = edit[x].seen
  /\ edit' = [edit EXCEPT ![x] = NoEdit]
  /\ UNCHANGED <<event, passed>>

\* Only the columns that differ from the loaded row are written.
SaveUpdate(x) ==
  /\ edit[x] # NoEdit /\ edit[x].admitted /\ edit[x].op = "update"
  /\ guests' = IF edit[x].wish = edit[x].had THEN guests ELSE edit[x].wish
  /\ edit' = [edit EXCEPT ![x] = NoEdit]
  /\ UNCHANGED <<event, passed, seat>>

\* cancel_registration, as far as it concerns this row.
SaveCancellation(x) ==
  /\ edit[x] # NoEdit /\ edit[x].admitted /\ edit[x].op = "cancel"
  /\ seat' = "cancelled"
  /\ edit' = [edit EXCEPT ![x] = NoEdit]
  /\ UNCHANGED <<event, passed, guests>>

\* Somebody else's cancellation gives this registration a seat.
PromoteThis ==
  /\ seat = "waitlist"
  /\ seat' = "confirmed"
  /\ UNCHANGED <<event, passed, guests, edit>>

DeadlinePasses ==
  /\ event.deadline
  /\ ~passed
  /\ passed' = TRUE
  /\ UNCHANGED <<event, seat, guests, edit>>

\* Something other than the request's own steps while it is under way.
Crossing ==
  \E x \in Editor :
    /\ edit[x] # NoEdit
    /\ \/ passed' # passed
       \/ edit'[x] = edit[x] /\ <<seat, guests, edit>>' # <<seat, guests, edit>>

DetailsStep ==
  \/ \E x \in Editor : \/ \E op \in {"update", "cancel"}, wish \in 0..GuestMax :
                            ReadForEdit(x, op, wish)
                       \/ AdmitEdit(x) \/ EndEdit(x) \/ SaveUpdate(x) \/ SaveCancellation(x)
  \/ PromoteThis
  \/ DeadlinePasses

DetailsNext == DetailsStep /\ crossed' = (crossed \/ Crossing)

DetailsSpec == DetailsInit /\ [][DetailsNext]_detailVars

----------------------------------------------------------------------------
(* Properties *)

\* A registration goes from the waitlist to a seat to its end and never back: an update
\* that loaded it earlier does not revive a cancelled one or undo a promotion.
StatusMovesForward ==
  [][/\ seat = "cancelled" => seat' = "cancelled"
     /\ seat = "confirmed" => seat' # "waitlist"]_detailVars

\* Unless something crossed a request, a seat is not changed in any way after the
\* deadline, and a cancelled registration keeps the details it had.
DeadlineHolds ==
  [][~crossed /\ (seat = "cancelled" \/ (seat = "confirmed" /\ passed))
       => <<seat, guests>>' = <<seat, guests>>]_detailVars
=============================================================================
