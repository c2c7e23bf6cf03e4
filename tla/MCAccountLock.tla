---------------------------- MODULE MCAccountLock ----------------------------
(* Instances of AccountLock for TLC. *)
EXTENDS AccountLock, TLC

\* Users and request slots are interchangeable (safety runs only).
Symmetry == Permutations(User) \cup Permutations(Worker)
=============================================================================
