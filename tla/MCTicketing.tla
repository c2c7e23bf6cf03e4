---------------------------- MODULE MCTicketing ----------------------------
(* Instances of Ticketing for TLC. *)
EXTENDS Ticketing, TLC

\* Ids, users, request slots and desks are interchangeable.
Symmetry == Permutations(Tx) \cup Permutations(User) \cup Permutations(Ticket)
              \cup Permutations(Worker) \cup Permutations(Desk)
=============================================================================
