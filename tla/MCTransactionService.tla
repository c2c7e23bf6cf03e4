------------------------ MODULE MCTransactionService ------------------------
(***************************************************************************)
(* Instances of the transaction service's modules for TLC.  They share no  *)
(* state, so the run explores them one at a time (part) and not their      *)
(* product.                                                                *)
(***************************************************************************)
EXTENDS Registrations, RegistrationDetails, Autofill, Eligibility, TLC

VARIABLE part  \* the module that takes the steps

MCInit ==
  /\ part \in {"seats", "details", "autofill", "eligibility"}
  /\ Init /\ DetailsInit /\ AutofillInit
  /\ IF part = "eligibility" THEN EligibilityInit ELSE situation = CHOOSE x \in Situation : TRUE
  /\ part # "details" => event = [limited |-> TRUE, deadline |-> TRUE] /\ seat = "waitlist"

MCNext ==
  /\ UNCHANGED <<situation, part>>
  /\ \/ part = "seats" /\ CalmNext /\ UNCHANGED <<detailVars, autofillVars>>
     \/ part = "details" /\ DetailsNext /\ UNCHANGED <<vars, autofillVars>>
     \/ part = "autofill" /\ AutofillNext /\ UNCHANGED <<vars, detailVars>>

MCSpec == MCInit /\ [][MCNext]_<<vars, detailVars, autofillVars, situation, part>>

\* Ids, users, tickets and request slots are interchangeable.
Symmetry == Permutations(Tx) \cup Permutations(User) \cup Permutations(Ticket) \cup Permutations(Worker)
=============================================================================
