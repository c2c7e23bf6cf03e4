----------------------------- MODULE Deployment -----------------------------
(***************************************************************************)
(* migrate_all.py and seed_all.py: the four databases are brought to their *)
(* last revision one after the other, then filled with the mock data one   *)
(* after the other.  Each database commits by itself, the mock data refer  *)
(* to each other across them, and a run stops at the first failure or may  *)
(* be killed; operators start it again, or seed_all.py alone.              *)
(***************************************************************************)
EXTENDS Integers, Sequences

VARIABLES
  revision,  \* per service: how many of its revisions the database has
  twice,     \* two events have the same name
  seeds,     \* per service: its mock data are committed
  others,    \* per service: it has rows of its own
  script     \* the running script, or Stopped

deployVars == <<revision, twice, seeds, others, script>>

\* In the order of the scripts; the mock data of each refer to those before it.
Services == <<"account", "event", "transaction", "ticket">>
Service  == {Services[i] : i \in DOMAIN Services}
Chain    == [s \in Service |-> IF s = "event" THEN 4 ELSE 1]
NamesUniqueSince == 2  \* add_unique_event_name

Script  == [at : {"stopped", "migrate", "preflight", "seed"}, next : DOMAIN Services,
            seed : BOOLEAN, reset : BOOLEAN]
Stopped == [at |-> "stopped", next |-> 1, seed |-> FALSE, reset |-> FALSE]

\* The event database may be there from an earlier release.
DeployInit ==
  /\ \E n \in 0..Chain["event"] : revision = [s \in Service |-> IF s = "event" THEN n ELSE 0]
  /\ twice = FALSE
  /\ seeds = [s \in Service |-> FALSE]
  /\ others = [s \in Service |-> FALSE]
  /\ script = Stopped

At(stage) == script.at = stage
Current   == Services[script.next]
HasTable(s) == revision[s] > 0

\* --reset-seed implies --seed.
StartScript(stage, seed, reset) ==
  /\ At("stopped")
  /\ script' = [at |-> stage, next |-> 1, seed |-> seed \/ reset, reset |-> reset]
  /\ UNCHANGED <<revision, twice, seeds, others>>

GoOnTo(stage) ==
  script' = IF script.next < Len(Services) THEN [script EXCEPT !.next = @ + 1]
            ELSE IF stage = "stopped" THEN Stopped ELSE [script EXCEPT !.at = stage, !.next = 1]

\* alembic upgrade head, all revisions in one transaction.  Names that are not unique
\* stop it.
UpgradeDatabase ==
  /\ At("migrate")
  /\ ~(Current = "event" /\ revision[Current] < NamesUniqueSince /\ twice)
  /\ revision' = [revision EXCEPT ![Current] = Chain[Current]]
  /\ GoOnTo(IF script.seed THEN "preflight" ELSE "stopped")
  /\ UNCHANGED <<twice, seeds, others>>

PassPreflight_Skipped ==
  /\ At("preflight")
  /\ script' = [script EXCEPT !.at = "seed"]
  /\ UNCHANGED <<revision, twice, seeds, others>>

\* preflight_schema: nothing is seeded unless every service has its table.
PassPreflight ==
  /\ At("preflight")
  /\ \A s \in Service : HasTable(s)
  /\ script' = [script EXCEPT !.at = "seed"]
  /\ UNCHANGED <<revision, twice, seeds, others>>

\* One transaction: TRUNCATE if asked for, and the upserts.  A missing table would be
\* passed over.
SeedDatabase ==
  /\ At("seed")
  /\ seeds' = [seeds EXCEPT ![Current] = HasTable(Current)]
  /\ others' = [others EXCEPT ![Current] = @ /\ ~script.reset]
  /\ twice' = (twice /\ ~(Current = "event" /\ script.reset))
  /\ GoOnTo("stopped")
  /\ UNCHANGED revision

\* Missing tables, a failed revision, a row in the way of a unique one, or the
\* script is killed: the step is rolled back and the rest does not happen.
StopScript ==
  /\ ~At("stopped")
  /\ script' = Stopped
  /\ UNCHANGED <<revision, twice, seeds, others>>

\* A service writes; before its revision two events may get the same name.
WriteRows(s) ==
  /\ HasTable(s)
  /\ others' = [others EXCEPT ![s] = TRUE]
  /\ \/ twice' = twice
     \/ s = "event" /\ revision[s] < NamesUniqueSince /\ twice' = TRUE
  /\ UNCHANGED <<revision, seeds, script>>

\* docker compose down -v
LoseVolumes ==
  /\ revision' = [s \in Service |-> 0]
  /\ twice' = FALSE
  /\ seeds' = [s \in Service |-> FALSE]
  /\ others' = [s \in Service |-> FALSE]
  /\ script' = Stopped

DeployNext ==
  \/ \E seed, reset \in BOOLEAN : StartScript("migrate", seed, reset)
  \/ \E reset \in BOOLEAN : StartScript("preflight", TRUE, reset)
  \/ UpgradeDatabase \/ PassPreflight \/ SeedDatabase \/ StopScript
  \/ \E s \in Service : WriteRows(s)
  \/ LoseVolumes

DeploySpec == DeployInit /\ [][DeployNext]_deployVars

----------------------------------------------------------------------------
(* Properties *)

\* Whatever run stopped where: mock data are never without the mock data they refer
\* to, tickets without their registrations, those without their events and users.
SeedIsWhole ==
  \A i, j \in DOMAIN Services : i < j /\ seeds[Services[j]] => seeds[Services[i]]
=============================================================================
