------------------------------- MODULE Passes -------------------------------
(***************************************************************************)
(* What the ticket service promises the holders of seats, without tables,  *)
(* calls or requests: every registration gets one pass at most, and loses  *)
(* it only after it lost its seat, or with the whole event.                *)
(***************************************************************************)
CONSTANT Reg  \* registrations

VARIABLES
  seat,    \* per registration: "none", "held", "over"
  pass,    \* per registration: "none", "valid", "used", "void"
  removed  \* the passes of the event have been removed

pvars == <<seat, pass, removed>>

PInit == /\ seat = [r \in Reg |-> "none"]
         /\ pass = [r \in Reg |-> "none"]
         /\ removed = FALSE

\* Seats are given, passed on and taken back, several in one step; never twice.
MoveSeats ==
  /\ seat' \in [Reg -> {"none", "held", "over"}]
  /\ \A r \in Reg : <<seat[r], seat'[r]>> \in {<<"none", "held">>, <<"held", "over">>}
                    \/ seat'[r] = seat[r]
  /\ UNCHANGED <<pass, removed>>

Turn(r, from, to) ==
  /\ pass[r] \in from
  /\ pass' = [pass EXCEPT ![r] = to]
  /\ UNCHANGED <<seat, removed>>

\* The pass may come late, when the seat is over.
MakePass(r) == seat[r] # "none" /\ Turn(r, {"none"}, "valid")

UsePass(r) == Turn(r, {"valid"}, "used")

VoidPass(r) == seat[r] = "over" /\ Turn(r, {"valid", "used"}, "void")

RemovePasses ==
  /\ ~removed
  /\ removed' = TRUE
  /\ pass' = [r \in Reg |-> IF pass[r] \in {"valid", "used"} THEN "void" ELSE pass[r]]
  /\ UNCHANGED seat

PNext == \/ MoveSeats \/ RemovePasses
         \/ \E r \in Reg : MakePass(r) \/ UsePass(r) \/ VoidPass(r)

PSpec == PInit /\ [][PNext]_pvars

\* Who holds a seat does not lose the pass, unless the event's passes are removed;
\* and nobody has a pass who never had a seat.
SeatHasPass ==
  \A r \in Reg : /\ seat[r] = "held" /\ ~removed => pass[r] # "void"
                 /\ pass[r] # "none" => seat[r] # "none"

\* What a seat and a pass have become they do not cease to be: nothing void is valid
\* again, nothing used is unused again, no seat is given twice.
NothingReturns ==
  [][\A r \in Reg : /\ seat[r] = "over" => seat'[r] = "over"
                    /\ pass[r] = "used" => pass'[r] \in {"used", "void"}
                    /\ pass[r] = "void" => pass'[r] = "void"]_pvars
=============================================================================
