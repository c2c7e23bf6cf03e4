-------------------------- MODULE MCTicketService --------------------------
(***************************************************************************)
(* Instances of the ticket service's modules for TLC: the tickets of one   *)
(* event, the no-shows of one event, and what is shown of one ticket.      *)
(* They share no state, so the run explores them one at a time (part) and  *)
(* not their product.                                                      *)
(***************************************************************************)
EXTENDS Ticketing, NoShow, TicketDisplay, TLC

VARIABLE part  \* the module that takes the steps

MCInit ==
  /\ part \in {"tickets", "no-shows", "display"}
  /\ TicketingInit /\ NoShowInit
  /\ part # "no-shows" => place = [h \in Holder |-> "waitlist"]
  /\ IF part = "display" THEN ViewInit ELSE view = CHOOSE v \in View : TRUE

MCNext ==
  /\ UNCHANGED <<view, part>>
  /\ \/ part = "tickets" /\ TicketingNext /\ UNCHANGED noShowVars
     \/ part = "no-shows" /\ NoShowNext /\ UNCHANGED ticketingVars

MCSpec == MCInit /\ [][MCNext]_<<ticketingVars, noShowVars, view, part>>

\* Ids, users, request slots, desks, holders and runs are interchangeable.
Symmetry == Permutations(Tx) \cup Permutations(User) \cup Permutations(Ticket)
              \cup Permutations(Worker) \cup Permutations(Desk)
              \cup Permutations(Holder) \cup Permutations(Runner)
=============================================================================
