-------------------------- MODULE MCEventLifecycle --------------------------
(* Instances of EventLifecycle for TLC. *)
EXTENDS EventLifecycle, TLC

\* Names and slots are interchangeable.
Symmetry == Permutations(Name) \cup Permutations(Worker) \cup Permutations(Client)

\* Once a deletion has clashed, nothing is asked of registrations and tickets any
\* more, and neither ids nor events depend on them.
View == IF clashed THEN <<numbers, events, req>> ELSE <<vars>>
=============================================================================
