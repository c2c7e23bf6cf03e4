-------------------------- MODULE MCAccountService --------------------------
(***************************************************************************)
(* Instances of the account service's modules, of the profiles kept of it  *)
(* elsewhere and of the deployment for TLC.  They share no state, so the   *)
(* run explores them one at a time (part) and not their product; the       *)
(* fairness is AccountLock's alone.                                        *)
(***************************************************************************)
EXTENDS AccountLock, Accounts, ProfileCache, Deployment

VARIABLE part  \* the module that takes the steps

MCInit ==
  /\ part \in {"locks", "accounts", "profiles", "deployment"}
  /\ Init /\ AccountsInit /\ ProfileInit /\ DeployInit
  /\ part # "accounts" => Members = {CHOOSE e \in Employee : TRUE}
  /\ part # "profiles" => \A p \in Person : truth[p] = CHOOSE v \in Profile : TRUE
  /\ part # "deployment" => revision["event"] = 0

MCNext ==
  /\ UNCHANGED part
  /\ \/ part = "locks" /\ Next /\ UNCHANGED <<accountVars, profileVars, deployVars>>
     \/ part = "accounts" /\ AccountsNext /\ UNCHANGED <<vars, profileVars, deployVars>>
     \/ part = "profiles" /\ ProfileNext /\ UNCHANGED <<vars, accountVars, deployVars>>
     \/ part = "deployment" /\ DeployNext /\ UNCHANGED <<vars, accountVars, profileVars>>

MCFairSpec ==
  MCInit /\ [][MCNext]_<<vars, accountVars, profileVars, deployVars, part>> /\ Fairness
=============================================================================
