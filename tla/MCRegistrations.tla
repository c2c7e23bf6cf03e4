-------------------------- MODULE MCRegistrations --------------------------
(* Instances of Registrations for TLC. *)
EXTENDS Registrations, TLC

\* Ids, users, tickets and request slots are interchangeable (safety runs only).
Symmetry == Permutations(Tx) \cup Permutations(User) \cup Permutations(Ticket) \cup Permutations(Worker)
=============================================================================
