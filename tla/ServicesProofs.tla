--------------------------- MODULE ServicesProofs ---------------------------
(* Theorems about the modules that stand by themselves: the punishment of  *)
(* no-shows, the mock data, the details of a registration, accounts and    *)
(* tokens, cached profiles, autofill, what a ticket is said to be, and who *)
(* may register.                                                           *)
EXTENDS NoShow, Deployment, RegistrationDetails, Accounts, ProfileCache, Autofill,
        TicketDisplay, Eligibility, FiniteSetTheorems, TLAPS

----------------------------------------------------------------------------
(* NoShow: as long as the end is not moved, whoever is on a list or was     *)
(* punished had an unused ticket after the end.  A no-show of the time of a *)
(* run's list is on it but for the excess, and from then on accounted for.  *)

NoShowTypes ==
  /\ card \in [Holder -> {"none", "unused", "used", "void"}]
  /\ place \in [Holder -> {"waitlist", "confirmed", "cancelled"}]
  /\ named \subseteq Holder /\ voids \subseteq Holder /\ punished \subseteq Holder
  /\ visit \in [Visit -> Holder \cup {NoHolder}]
  /\ hunt \in [Runner -> Hunt]

Absent(h) == over /\ (card[h] = "used" => h \in late)

AbsentInv ==
  ~moved => /\ \A h \in punished : Absent(h)
            /\ \A r \in Runner : /\ hunt[r].at # "idle" => over
                                 /\ hunt[r].todo \subseteq hunt[r].list
                                 /\ \A h \in hunt[r].list : Absent(h)

\* A no-show keeps the ticket's id while it keeps the seat, so it is matched; then it is
\* among those still to be punished, punished, or in the errors.
SweepInv ==
  \A r \in Runner : hunt[r].at # "idle" =>
    /\ Cardinality(hunt[r].due \ hunt[r].list) <= hunt[r].excess
    /\ \A h \in hunt[r].due : place[h] # "waitlist"
    /\ \A h \in hunt[r].due : place[h] = "confirmed" =>
         /\ hunt[r].at = "listed" => h \in named
         /\ hunt[r].at = "matched" /\ h \in hunt[r].list =>
              h \in hunt[r].todo \cup hunt[r].errors \cup punished

NoShowInv == NoShowTypes /\ AbsentInv /\ SweepInv

LEMMA NoShowInvInit == NoShowInit => NoShowInv
  BY DEF NoShowInit, NoShowInv, NoShowTypes, AbsentInv, SweepInv, NoHunt, Hunt

\* The registrations, their tickets, the end, and the check-ins: no run moves.
LEMMA EventKeeps ==
  ASSUME NoShowInv,
         \/ \E h \in Holder : \/ ConfirmPlace(h) \/ IssueCard(h) \/ NameCard(h)
                              \/ CancelPlace(h) \/ VoidCard(h)
         \/ EventEnds \/ MoveEnd
         \/ \E v \in Visit : \/ \E h \in Holder, own \in BOOLEAN : LoadVisit(v, h, own)
                             \/ SaveVisit(v) \/ VisitFails(v)
  PROVE  NoShowInv'
<1> USE DEF NoShowInv, NoShowTypes, AbsentInv, SweepInv, Absent
<1>0. ASSUME NEW h \in Holder, ConfirmPlace(h)  PROVE NoShowInv'
  BY <1>0 DEF ConfirmPlace
<1>1. ASSUME NEW h \in Holder, IssueCard(h)  PROVE NoShowInv'
  BY <1>1 DEF IssueCard
<1>2. ASSUME NEW h \in Holder, NameCard(h)  PROVE NoShowInv'
  BY <1>2 DEF NameCard
<1>3. ASSUME NEW h \in Holder, CancelPlace(h)  PROVE NoShowInv'
  <2>1. /\ place' = [place EXCEPT ![h] = "cancelled"]
        /\ named' \subseteq named /\ named \subseteq named' \cup {h} /\ voids' \subseteq Holder
        /\ UNCHANGED <<over, card, visit, hunt, punished, late, moved>>
    BY <1>3 DEF CancelPlace
  <2>2. NoShowTypes' /\ AbsentInv'
    BY <2>1
  <2>3. \A x \in Holder : place'[x] = IF x = h THEN "cancelled" ELSE place[x]
    BY <2>1
  <2>4. \A r \in Runner : hunt[r].due \subseteq Holder
    BY DEF Hunt
  <2>5. SweepInv'
    BY <2>1, <2>3, <2>4
  <2>6. QED
    BY <2>2, <2>5
<1>4. ASSUME NEW h \in Holder, VoidCard(h)  PROVE NoShowInv'
  <2>1. /\ card' = [card EXCEPT ![h] = "void"]
        /\ UNCHANGED <<over, place, named, voids, visit, hunt, punished, late, moved>>
    BY <1>4 DEF VoidCard
  <2>2. NoShowTypes' /\ AbsentInv'
    BY <2>1
  <2>3. SweepInv'
    BY <2>1
  <2>4. QED
    BY <2>2, <2>3
<1>5. CASE EventEnds
  BY <1>5 DEF EventEnds
<1>6. CASE MoveEnd
  BY <1>6 DEF MoveEnd
<1>7. ASSUME NEW v \in Visit, NEW h \in Holder, NEW own \in BOOLEAN, LoadVisit(v, h, own)
      PROVE  NoShowInv'
  BY <1>7 DEF LoadVisit
<1>8. ASSUME NEW v \in Visit, SaveVisit(v)  PROVE NoShowInv'
  BY <1>8 DEF SaveVisit
<1>9. ASSUME NEW v \in Visit, VisitFails(v)  PROVE NoShowInv'
  BY <1>9 DEF VisitFails
<1>10. QED
  BY <1>0, <1>1, <1>2, <1>3, <1>4, <1>5, <1>6, <1>7, <1>8, <1>9

\* What a page leaves out is as much as the excess says.
LEMMA PageExcess ==
  ASSUME named \subseteq Holder, NEW list \in SUBSET Unused
  PROVE  /\ Listed(list) \in Hunt
         /\ Cardinality(Missed \ list) <= Cardinality(Unused) - Cardinality(list)
<1>1. IsFiniteSet(Unused) /\ Unused \cap list = list /\ Missed \subseteq Unused
  BY HolderAssumption, FS_Subset DEF Unused, Missed
<1>2. /\ IsFiniteSet(list) /\ Cardinality(list) \in Nat /\ Cardinality(Unused) \in Nat
      /\ Cardinality(list) <= Cardinality(Unused)
  BY <1>1, FS_Subset, FS_CardinalityType
<1>3. /\ IsFiniteSet(Unused \ list)
      /\ Cardinality(Unused \ list) = Cardinality(Unused) - Cardinality(list)
  BY <1>1, <1>2, FS_Difference
<1>4. Cardinality(Missed \ list) <= Cardinality(Unused \ list)
  BY <1>1, <1>3, FS_Subset, Missed \ list \subseteq Unused \ list
<1>5. Missed \in SUBSET Holder /\ list \in SUBSET Holder
  BY DEF Missed, Unused
<1>6. Listed(list) \in Hunt
  BY <1>2, <1>5 DEF Hunt, Listed
<1>7. QED
  BY <1>3, <1>4, <1>6

LEMMA HuntFails ==
  ASSUME hunt \in [Runner -> Hunt], NEW r \in Runner, NEW h \in Holder, PunishFails(r, h)
  PROVE  /\ hunt'[r] \in Hunt
         /\ hunt'[r].at = hunt[r].at /\ hunt'[r].list = hunt[r].list
         /\ hunt'[r].due = hunt[r].due /\ hunt'[r].excess = hunt[r].excess
         /\ hunt'[r].todo = hunt[r].todo \ {h}
         /\ hunt'[r].errors = hunt[r].errors \cup {h}
<1>1. hunt'[r] = [hunt[r] EXCEPT !.todo = hunt[r].todo \ {h}, !.errors = hunt[r].errors \cup {h}]
  BY DEF PunishFails
<1>2. /\ hunt[r] \in Hunt /\ hunt[r].todo \ {h} \in SUBSET Holder
      /\ hunt[r].errors \cup {h} \in SUBSET Holder
  BY DEF Hunt
<1>3. QED
  BY <1>1, <1>2 DEF Hunt

\* A step of a run changes its own locals and punished only.
LEMMA RunKeeps ==
  ASSUME NoShowInv, NEW r \in Runner,
         \/ ListUnused(r) \/ MatchPlaces(r) \/ EndRun(r) \/ RunDies(r)
         \/ \E h \in Holder : PunishHolder(r, h) \/ PunishFails(r, h)
  PROVE  NoShowInv'
<1> USE DEF NoShowInv, NoShowTypes, AbsentInv, SweepInv, Absent, Hunt
<1>1. hunt[r] \in Hunt /\ NoHunt \in Hunt
  BY DEF NoHunt
<1>2. CASE ListUnused(r)
  <2>1. PICK list \in SUBSET Unused : hunt' = [hunt EXCEPT ![r] = Listed(list)]
    BY <1>2 DEF ListUnused
  <2>2. hunt'[r] = Listed(list)
    BY <2>1
  <2>3. /\ hunt'[r] \in Hunt /\ hunt'[r].at = "listed" /\ hunt'[r].list = list
        /\ hunt'[r].todo = {} /\ hunt'[r].due = Missed
        /\ Cardinality(hunt'[r].due \ hunt'[r].list) <= hunt'[r].excess
    BY <2>2, PageExcess DEF Listed
  <2>4. /\ \A q \in Runner : q # r => hunt'[q] = hunt[q]
        /\ hunt' \in [Runner -> Hunt] /\ list \subseteq Unused /\ over
        /\ UNCHANGED <<over, place, card, named, voids, visit, punished, late, moved>>
    <3>1. hunt \in [Runner -> Hunt]
      OBVIOUS
    <3> HIDE DEF Hunt
    <3>2. QED
      BY <1>2, <2>1, <2>3, <3>1 DEF ListUnused
  <2>5. NoShowTypes'
    BY <2>4
  <2>6. AbsentInv'
    BY <2>3, <2>4 DEF Unused
  <2>7. SweepInv'
    BY <2>3, <2>4 DEF Missed
  <2>8. QED
    BY <2>5, <2>6, <2>7
<1>3. CASE MatchPlaces(r)
  <2>1. /\ hunt[r].at = "listed"
        /\ hunt' = [hunt EXCEPT ![r].at = "matched",
             ![r].todo = {h \in hunt[r].list \cap named : place[h] = "confirmed"}]
        /\ UNCHANGED <<over, place, card, named, voids, visit, punished, late, moved>>
    BY <1>3 DEF MatchPlaces
  <2>2. /\ hunt'[r] \in Hunt /\ hunt'[r].at = "matched"
        /\ hunt'[r].todo = {h \in hunt[r].list \cap named : place[h] = "confirmed"}
        /\ hunt'[r].list = hunt[r].list /\ hunt'[r].errors = hunt[r].errors
        /\ hunt'[r].due = hunt[r].due /\ hunt'[r].excess = hunt[r].excess
    BY <1>1, <2>1
  <2>3. \A q \in Runner : q # r => hunt'[q] = hunt[q]
    BY <2>1
  <2>4. NoShowTypes'
    <3>1. hunt \in [Runner -> Hunt]
      OBVIOUS
    <3> HIDE DEF Hunt
    <3>2. QED
      BY <2>1, <2>2, <3>1
  <2>5. AbsentInv'
    BY <2>1, <2>2, <2>3
  <2>6. SweepInv'
    <3>1. ASSUME NEW h \in hunt[r].due, place[h] = "confirmed", h \in hunt[r].list
          PROVE  h \in hunt'[r].todo
      BY <2>1, <2>2, <3>1
    <3>2. SUFFICES ASSUME NEW q \in Runner, hunt'[q].at # "idle"
                   PROVE  /\ Cardinality(hunt'[q].due \ hunt'[q].list) <= hunt'[q].excess
                          /\ \A h \in hunt'[q].due : place[h] # "waitlist"
                          /\ \A h \in hunt'[q].due : place[h] = "confirmed" =>
                               /\ hunt'[q].at = "listed" => h \in named
                               /\ hunt'[q].at = "matched" /\ h \in hunt'[q].list =>
                                    h \in hunt'[q].todo \cup hunt'[q].errors \cup punished
      BY <2>1
    <3>3. CASE q = r
      BY <2>1, <2>2, <3>1, <3>3
    <3>4. CASE q # r
      BY <2>3, <3>2, <3>4
    <3>5. QED
      BY <3>3, <3>4
  <2>7. QED
    BY <2>4, <2>5, <2>6
<1>4. ASSUME NEW h \in Holder, PunishHolder(r, h)  PROVE NoShowInv'
  BY <1>1, <1>4 DEF PunishHolder
<1>5. ASSUME NEW h \in Holder, PunishFails(r, h)  PROVE NoShowInv'
  <2>1. hunt'[r] = [hunt[r] EXCEPT !.todo = @ \ {h}, !.errors = @ \cup {h}]
    BY <1>5 DEF PunishFails
  <2>2. /\ hunt'[r] \in Hunt
        /\ hunt'[r].at = hunt[r].at /\ hunt'[r].list = hunt[r].list
        /\ hunt'[r].due = hunt[r].due /\ hunt'[r].excess = hunt[r].excess
        /\ hunt'[r].todo = hunt[r].todo \ {h}
        /\ hunt'[r].errors = hunt[r].errors \cup {h}
    BY <1>5, HuntFails
  <2>3. /\ \A q \in Runner : q # r => hunt'[q] = hunt[q]
        /\ h \in hunt[r].todo /\ h \in Holder
        /\ punished \subseteq punished' /\ punished' \subseteq punished \cup {h}
        /\ UNCHANGED <<over, place, card, named, voids, visit, late, moved>>
    BY <1>5 DEF PunishFails
  <2>4. /\ \A q \in Runner : hunt'[q].at = hunt[q].at /\ hunt'[q].due = hunt[q].due
        /\ \A q \in Runner : /\ hunt'[q].list = hunt[q].list /\ hunt'[q].excess = hunt[q].excess
                             /\ hunt[q].todo \cup hunt[q].errors \cup punished
                                  \subseteq hunt'[q].todo \cup hunt'[q].errors \cup punished'
    BY <2>2, <2>3
  <2>5. NoShowTypes'
    <3>1. hunt' \in [Runner -> Hunt]
      <4> HIDE DEF Hunt
      <4>1. QED
        BY <1>5, <2>2 DEF PunishFails
    <3>2. QED
      BY <2>3, <3>1
  <2>6. AbsentInv'
    BY <2>2, <2>3
  <2>7. SweepInv'
    BY <2>3, <2>4
  <2>8. QED
    BY <2>5, <2>6, <2>7
<1>6. CASE EndRun(r)
  BY <1>1, <1>6 DEF EndRun, NoHunt
<1>7. CASE RunDies(r)
  BY <1>1, <1>7 DEF RunDies, NoHunt
<1>8. QED
  BY <1>2, <1>3, <1>4, <1>5, <1>6, <1>7

LEMMA NoShowInvariance == NoShowSpec => []NoShowInv
<1>1. NoShowInv /\ [NoShowNext]_noShowVars => NoShowInv'
  <2>1. NoShowInv /\ UNCHANGED noShowVars => NoShowInv'
    BY DEF noShowVars, NoShowInv, NoShowTypes, AbsentInv, SweepInv, Absent
  <2>2. QED
    BY <2>1, EventKeeps, RunKeeps DEF NoShowNext
<1>2. QED
  BY <1>1, NoShowInvInit, PTL DEF NoShowSpec

\* Who was checked in before the end is not punished, whatever runs overlap, fail or
\* work on an old list.
THEOREM CameIsNeverPunished == NoShowSpec => []CameNotPunished
<1>1. NoShowInv => CameNotPunished
  BY DEF NoShowInv, AbsentInv, Absent, CameNotPunished
<1>2. QED
  BY <1>1, NoShowInvariance, PTL

\* A run punishes or reports every no-show of the time it asked for its list who keeps
\* the registration, but for as many as the list was too short for, whatever else goes on.
THEOREM NoShowsArePunished == NoShowSpec => []EveryNoShowPunished
<1>1. NoShowInv => EveryNoShowPunished
  <2> SUFFICES ASSUME NoShowInv, NEW r \in Runner, hunt[r].at = "matched", hunt[r].todo = {}
               PROVE  Cardinality({h \in hunt[r].due : place[h] = "confirmed"}
                                    \ (punished \cup hunt[r].errors)) <= hunt[r].excess
    BY DEF EveryNoShowPunished
  <2> DEFINE passed_by == {h \in hunt[r].due : place[h] = "confirmed"}
                            \ (punished \cup hunt[r].errors)
  <2>1. hunt[r] \in Hunt
    BY DEF NoShowInv, NoShowTypes
  <2>2. passed_by \subseteq hunt[r].due \ hunt[r].list
    BY DEF NoShowInv, SweepInv
  <2>3. IsFiniteSet(hunt[r].due \ hunt[r].list)
    BY <2>1, HolderAssumption, FS_Subset DEF Hunt
  <2>4. /\ Cardinality(passed_by) <= Cardinality(hunt[r].due \ hunt[r].list)
        /\ Cardinality(passed_by) \in Nat /\ Cardinality(hunt[r].due \ hunt[r].list) \in Nat
    BY <2>2, <2>3, FS_Subset, FS_CardinalityType
  <2>5. /\ Cardinality(hunt[r].due \ hunt[r].list) <= hunt[r].excess
        /\ hunt[r].excess \in Nat
    BY <2>1 DEF NoShowInv, SweepInv, Hunt
  <2>6. QED
    BY <2>4, <2>5
<1>2. QED
  BY <1>1, NoShowInvariance, PTL

----------------------------------------------------------------------------
(* Deployment: a script that seeds has found all tables and has seeded the  *)
(* services before the current one.                                         *)

SeedInv ==
  /\ revision \in [Service -> Nat] /\ seeds \in [Service -> BOOLEAN] /\ script \in Script
  /\ script.at = "preflight" => script.next = 1
  /\ script.at = "seed" =>
       /\ \A s \in Service : HasTable(s)
       /\ \A i \in DOMAIN Services : i < script.next => seeds[Services[i]]
  /\ SeedIsWhole

LEMMA ServiceFacts ==
  /\ Len(Services) = 4 /\ DOMAIN Services = 1..4
  /\ \A i, j \in 1..4 : Services[i] \in Service /\ (i # j => Services[i] # Services[j])
  /\ \A s \in Service : Chain[s] \in {1, 4}
BY DEF Services, Service, Chain

LEMMA StoppedIsScript == Stopped \in Script /\ Stopped.at = "stopped" /\ Stopped.next = 1
BY ServiceFacts DEF Stopped, Script

LEMMA GoOnEffect ==
  ASSUME script \in Script, NEW stage, GoOnTo(stage), stage \in {"stopped", "preflight"}
  PROVE  /\ script' \in Script
         /\ IF script.next < 4 THEN script'.at = script.at /\ script'.next = script.next + 1
            ELSE script'.at = stage /\ script'.next = 1
<1>1. script.next \in 1..4 /\ 1 \in DOMAIN Services /\ DOMAIN Services = 1..4
  BY ServiceFacts DEF Script
<1>2. CASE script.next < 4
  <2>1. script' = [script EXCEPT !.next = @ + 1]
    BY <1>2, ServiceFacts DEF GoOnTo
  <2>2. QED
    BY <1>1, <1>2, <2>1 DEF Script
<1>3. CASE ~(script.next < 4) /\ stage = "stopped"
  BY <1>3, ServiceFacts, StoppedIsScript DEF GoOnTo
<1>4. CASE ~(script.next < 4) /\ stage = "preflight"
  <2>1. script' = [script EXCEPT !.at = "preflight", !.next = 1]
    BY <1>4, ServiceFacts DEF GoOnTo
  <2>2. QED
    BY <1>1, <1>4, <2>1 DEF Script
<1>5. QED
  BY <1>2, <1>3, <1>4

LEMMA SeedStep ==
  ASSUME SeedInv, [DeployNext]_deployVars
  PROVE  SeedInv'
<1> USE ServiceFacts DEF SeedInv, SeedIsWhole
<1>1. CASE UNCHANGED deployVars
  BY <1>1 DEF deployVars, HasTable
<1>2. ASSUME NEW stage \in {"migrate", "preflight"}, NEW seed \in BOOLEAN, NEW reset \in BOOLEAN,
             StartScript(stage, seed, reset)
      PROVE  SeedInv'
  BY <1>2 DEF StartScript, Script, HasTable
<1>3. CASE UpgradeDatabase
  <2>1. Current \in Service
    BY DEF Current, Script
  <2>2. revision' \in [Service -> Nat]
    BY <1>3, <2>1 DEF UpgradeDatabase
  <2>3. script.at = "migrate" /\ seeds' = seeds
    BY <1>3 DEF UpgradeDatabase, At
  <2>4. QED
    BY <1>3, <2>2, <2>3, GoOnEffect DEF UpgradeDatabase
<1>4. CASE PassPreflight
  BY <1>4 DEF PassPreflight, At, Script, HasTable
<1>5. CASE SeedDatabase
  <2>1. /\ script.at = "seed" /\ script.next \in 1..4 /\ revision' = revision
        /\ GoOnTo("stopped") /\ Current = Services[script.next]
        /\ seeds' = [seeds EXCEPT ![Current] = TRUE]
    BY <1>5 DEF SeedDatabase, At, Current, Script
  <2>2. \A i \in 1..4 : seeds'[Services[i]] = (seeds[Services[i]] \/ i = script.next)
    BY <2>1
  <2>3. QED
    BY <2>1, <2>2, GoOnEffect DEF HasTable
<1>6. CASE StopScript \/ LoseVolumes
  <2>1. script' \in Script /\ script'.at = "stopped"
    BY <1>6, StoppedIsScript DEF StopScript, LoseVolumes
  <2>2. CASE StopScript
    BY <2>1, <2>2 DEF StopScript
  <2>3. CASE LoseVolumes
    BY <2>1, <2>3 DEF LoseVolumes
  <2>4. QED
    BY <1>6, <2>2, <2>3
<1>7. ASSUME NEW s \in Service, WriteRows(s)  PROVE SeedInv'
  BY <1>7 DEF WriteRows, HasTable
<1>8. QED
  BY <1>1, <1>2, <1>3, <1>4, <1>5, <1>6, <1>7 DEF DeployNext

\* Wherever a script stops, mock data are never without the mock data they refer to.
THEOREM SeedStaysWhole == DeploySpec => []SeedIsWhole
<1>1. DeployInit => SeedInv
  BY ServiceFacts DEF DeployInit, SeedInv, SeedIsWhole, Stopped, Script, Chain
<1>2. SeedInv /\ [DeployNext]_deployVars => SeedInv'
  BY SeedStep
<1>3. SeedInv => SeedIsWhole
  BY DEF SeedInv
<1>4. QED
  BY <1>1, <1>2, <1>3, PTL DEF DeploySpec

----------------------------------------------------------------------------
(* RegistrationDetails: while nothing crosses, at most one request is under *)
(* way and has the row as it is.                                            *)

DetailTypes ==
  /\ event \in [limited : BOOLEAN, deadline : BOOLEAN]
  /\ passed \in BOOLEAN /\ seat \in SeatStates /\ guests \in 0..GuestMax
  /\ edit \in [Editor -> Edit \cup {NoEdit}] /\ crossed \in BOOLEAN

UncrossedInv ==
  ~crossed =>
    /\ \A x, y \in Editor : edit[x] # NoEdit /\ edit[y] # NoEdit => x = y
    /\ \A x \in Editor : edit[x] # NoEdit =>
         /\ edit[x].seen = seat /\ seat # "cancelled"
         /\ edit[x].admitted /\ seat = "confirmed" => ~passed

DetailInv == DetailTypes /\ UncrossedInv

LEMMA DetailInvInit == DetailsInit => DetailInv
<1> SUFFICES ASSUME DetailsInit  PROVE DetailInv
  OBVIOUS
<1>1. seat \in {"waitlist", "confirmed"} /\ guests \in 0..GuestMax
  BY GuestMaxAssumption DEF DetailsInit
<1>2. /\ event \in [limited : BOOLEAN, deadline : BOOLEAN] /\ passed = FALSE /\ crossed = FALSE
      /\ edit = [x \in Editor |-> NoEdit]
  BY DEF DetailsInit
<1>3. QED
  BY <1>1, <1>2 DEF DetailInv, DetailTypes, UncrossedInv, SeatStates

LEMMA DetailStep ==
  ASSUME DetailInv, [DetailsNext]_detailVars
  PROVE  DetailInv'
<1> USE GuestMaxAssumption DEF DetailInv, DetailTypes, UncrossedInv
<1>1. CASE UNCHANGED detailVars
  BY <1>1 DEF detailVars
<1>2. CASE DetailsNext
  <2>1. crossed' = (crossed \/ Crossing)
    BY <1>2 DEF DetailsNext
  <2>2. ASSUME NEW x \in Editor, NEW op \in {"update", "cancel"}, NEW wish \in 0..GuestMax,
               ReadForEdit(x, op, wish)
        PROVE  DetailInv'
    <3>1. LoadedRow(op, wish) \in Edit /\ LoadedRow(op, wish).seen = seat
          /\ ~LoadedRow(op, wish).admitted
      BY DEF LoadedRow, Edit
    <3>2. /\ edit' = [edit EXCEPT ![x] = LoadedRow(op, wish)] /\ edit[x] = NoEdit
          /\ seat # "cancelled" /\ UNCHANGED <<event, passed, seat, guests>>
      BY <2>2 DEF ReadForEdit
    <3>3. ASSUME NEW y \in Editor, edit[y] # NoEdit, ~crossed'
          PROVE  edit' = edit
      <4>1. edit'[y] = edit[y]
        BY <3>2, <3>3
      <4>2. <<seat, guests, edit>>' = <<seat, guests, edit>>
        BY <2>1, <3>3, <4>1 DEF Crossing
      <4>3. QED
        BY <4>2
    <3>4. QED
      BY <2>1, <3>1, <3>2, <3>3
  <2>3. ASSUME NEW x \in Editor, AdmitEdit(x)  PROVE DetailInv'
    <3>1. /\ edit[x] \in Edit /\ edit[x] # NoEdit
          /\ edit[x].seen = "confirmed" => ~passed
      BY <2>3 DEF AdmitEdit, Waits, MayEdit
    <3>2. /\ edit'[x] \in Edit /\ edit'[x].seen = edit[x].seen
          /\ edit' \in [Editor -> Edit \cup {NoEdit}]
          /\ \A y \in Editor : y # x => edit'[y] = edit[y]
          /\ UNCHANGED <<event, passed, seat, guests>>
      BY <2>3, <3>1 DEF AdmitEdit, Edit
    <3>3. QED
      BY <2>1, <3>1, <3>2
  <2>4. ASSUME NEW x \in Editor, EndEdit(x)  PROVE DetailInv'
    BY <2>1, <2>4 DEF EndEdit
  <2>5. ASSUME NEW x \in Editor, SaveUpdate(x)  PROVE DetailInv'
    BY <2>1, <2>5 DEF SaveUpdate, Edit, Crossing
  <2>6. ASSUME NEW x \in Editor, SaveCancellation(x)  PROVE DetailInv'
    BY <2>1, <2>6 DEF SaveCancellation, Crossing, SeatStates
  <2>7. CASE PromoteThis
    BY <2>1, <2>7 DEF PromoteThis, Crossing, SeatStates
  <2>8. CASE DeadlinePasses
    BY <2>1, <2>8 DEF DeadlinePasses, Crossing
  <2>9. QED
    BY <1>2, <2>2, <2>3, <2>4, <2>5, <2>6, <2>7, <2>8 DEF DetailsNext, DetailsStep
<1>3. QED
  BY <1>1, <1>2

\* No request of any age revives a cancelled registration or takes a seat back.
THEOREM StatusOnlyMovesForward == DetailsSpec => StatusMovesForward
<1>1. [DetailsNext]_detailVars =>
        [/\ seat = "cancelled" => seat' = "cancelled"
         /\ seat = "confirmed" => seat' # "waitlist"]_detailVars
  BY DEF DetailsNext, DetailsStep, detailVars, ReadForEdit, AdmitEdit, EndEdit, SaveUpdate,
         SaveCancellation, PromoteThis, DeadlinePasses
<1>2. QED
  BY <1>1, PTL DEF DetailsSpec, StatusMovesForward

\* Uncrossed requests change no seat after the deadline and no cancelled registration.
THEOREM DeadlineIsFinal == DetailsSpec => DeadlineHolds
<1>1. DetailInv /\ [DetailsNext]_detailVars =>
        [~crossed /\ (seat = "cancelled" \/ (seat = "confirmed" /\ passed))
           => <<seat, guests>>' = <<seat, guests>>]_detailVars
  BY DEF DetailInv, UncrossedInv, DetailsNext, DetailsStep, detailVars, ReadForEdit, AdmitEdit,
         EndEdit, SaveUpdate, SaveCancellation, PromoteThis, DeadlinePasses
<1>2. QED
  BY <1>1, DetailInvInit, DetailStep, PTL DEF DetailsSpec, DeadlineHolds

----------------------------------------------------------------------------
(* Accounts: the age of a token and the time since its role was its         *)
(* holder's add up to at most a token's life.  While requests of members do *)
(* not overlap, the member whose request is under way stays one.            *)

RowTypes   == account \in [Employee -> Account \cup {Nobody}]
TokenTypes == token \in [Client -> Token \cup {Nobody}]

TokenInv ==
  \A c \in Client : token[c] # Nobody /\ token[c].left >= 0
                     => token[c].since + token[c].left <= TokenLife

OfficeInv ==
  ~raced => /\ Members # {} /\ OneErrand
            /\ \A o \in Busy : Has(office[o].by, Staff) /\ office[o].id # office[o].by

OfficeTypes == office \in [Office -> Errand \cup {Nobody}] /\ raced \in BOOLEAN

AccountsInv == RowTypes /\ TokenTypes /\ TokenInv /\ OfficeTypes /\ OfficeInv

LEMMA AccountsInvInit == AccountsInit => AccountsInv
<1> SUFFICES ASSUME AccountsInit  PROVE AccountsInv
  OBVIOUS
<1>1. PICK e \in Employee : account = [f \in Employee |->
         IF f = e THEN [id |-> e, role |-> Staff] ELSE Nobody]
  BY DEF AccountsInit
<1>2. account[e] = [id |-> e, role |-> Staff] /\ account[e] # Nobody
  BY <1>1, RoleAssumption, NobodyAssumption DEF Account, Id
<1>3. RowTypes
  BY <1>1, RoleAssumption DEF RowTypes, Account, Id
<1>4. Members # {}
  BY <1>2 DEF Members
<1>5. QED
  BY <1>3, <1>4 DEF AccountsInit, AccountsInv, TokenTypes, TokenInv, OfficeTypes, OfficeInv,
     OneErrand, Busy

LEMMA RowsKeepTypes ==
  ASSUME RowTypes, AccountsStep  PROVE RowTypes'
<1> USE DEF RowTypes
<1>1. ASSUME NEW e \in Employee, FirstLogin(e)  PROVE RowTypes'
  BY <1>1, RoleAssumption DEF FirstLogin, Account, Id
<1>2. ASSUME NEW e \in Employee, NEW i \in MadeId, NEW role \in Role, CreateUser(i, e, role)
      PROVE  RowTypes'
  BY <1>2 DEF CreateUser, Account, Id
<1>3. ASSUME NEW o \in Office, SaveRole(o)  PROVE RowTypes'
  <2>1. PICK e \in With(office[o].id) : account' = [account EXCEPT ![e].role =
          IF office[o].op = office[o].seen THEN @ ELSE office[o].op]
    BY <1>3 DEF SaveRole
  <2>2. office[o].op \in Role /\ account[e] \in Account /\ e \in Employee
    BY <1>3 DEF SaveRole, With
  <2>3. QED
    BY <2>1, <2>2 DEF Account
<1>4. ASSUME NEW o \in Office, DeleteRow(o)  PROVE RowTypes'
  BY <1>4 DEF DeleteRow
<1>5. CASE UNCHANGED account
  BY <1>5
<1>6. QED
  BY <1>1, <1>2, <1>3, <1>4, <1>5 DEF AccountsStep, SignToken, ReadForRole, ReadForDelete,
     ErrandFails, TickTokens

LEMMA SignedToken ==
  ASSUME RowTypes, NEW e \in Employee, account[e] # Nobody
  PROVE  LET t == Signed(account[e].id, account[e].role)
         IN  t \in Token /\ t.left = TokenLife /\ t.since = 0
<1>1. account[e].id \in Id /\ account[e].role \in Role
  BY DEF RowTypes, Account
<1>2. Has(account[e].id, account[e].role)
  BY DEF Has, With
<1>3. QED
  BY <1>1, <1>2, TokenAssumption DEF Signed, Token

LEMMA CountedToken ==
  ASSUME NEW t \in Token,
         t # Nobody, t.left >= 0 => t.since + t.left <= TokenLife
  PROVE  /\ Counted(t) \in Token
         /\ Counted(t).left >= 0 => Counted(t).since + Counted(t).left <= TokenLife
<1>1. /\ t = [id |-> t.id, role |-> t.role, left |-> t.left, since |-> t.since]
      /\ t.id \in Id /\ t.role \in Role /\ t.left \in -1..TokenLife
      /\ t.since \in 0..(TokenLife + 1)
  BY DEF Token
<1> DEFINE left  == IF t.left < 0 THEN t.left ELSE t.left - 1
           since == IF Has(t.id, t.role) THEN 0
                    ELSE IF t.since > TokenLife THEN t.since ELSE t.since + 1
<1>2. Counted(t) = [id |-> t.id, role |-> t.role, left |-> left, since |-> since]
  BY <1>1 DEF Counted
<1>3. left \in -1..TokenLife /\ since \in 0..(TokenLife + 1)
  BY <1>1, TokenAssumption
<1>4. left >= 0 => since + left <= TokenLife
  BY <1>1, TokenAssumption
<1> HIDE DEF left, since
<1>5. QED
  BY <1>1, <1>2, <1>3, <1>4 DEF Token

LEMMA TokensAge ==
  ASSUME RowTypes, TokenTypes, TokenInv, AccountsStep
  PROVE  TokenTypes' /\ TokenInv'
<1>1. ASSUME NEW c \in Client, NEW e \in Employee, SignToken(c, e)
      PROVE  TokenTypes' /\ TokenInv'
  <2> DEFINE t == Signed(account[e].id, account[e].role)
  <2>1. t \in Token /\ t.left = TokenLife /\ t.since = 0
    BY <1>1, SignedToken DEF SignToken
  <2>2. token' = [token EXCEPT ![c] = t]
    BY <1>1 DEF SignToken
  <2> HIDE DEF t
  <2>3. QED
    BY <2>1, <2>2, TokenAssumption DEF TokenTypes, TokenInv
<1>2. CASE TickTokens
  <2>1. ASSUME NEW c \in Client
        PROVE  /\ token'[c] \in Token \cup {Nobody}
               /\ token'[c] # Nobody /\ token'[c].left >= 0
                    => token'[c].since + token'[c].left <= TokenLife
    <3>1. token'[c] = Counted(token[c])
      BY <1>2 DEF TickTokens
    <3>2. CASE token[c] = Nobody
      BY <3>1, <3>2 DEF Counted
    <3>3. CASE token[c] # Nobody
      BY <3>1, <3>3, CountedToken DEF TokenTypes, TokenInv
    <3>4. QED
      BY <3>2, <3>3
  <2>2. QED
    BY <1>2, <2>1 DEF TickTokens, TokenTypes, TokenInv
<1>3. CASE UNCHANGED token
  BY <1>3 DEF TokenTypes, TokenInv
<1>4. QED
  BY <1>1, <1>2, <1>3 DEF AccountsStep, FirstLogin, CreateUser, ReadForRole, SaveRole,
     ReadForDelete, DeleteRow, ErrandFails

\* The members who have a request under way keep their row and role in a step that
\* leaves every other row as it is.
LEMMA OthersStay ==
  ASSUME NEW i, NEW e \in Employee, account[e] = Nobody \/ account[e].id # i,
         \A f \in Employee : f # e => account'[f] = account[f]
  PROVE  Has(i, Staff) => Has(i, Staff)'
BY DEF Has, With

LEMMA OfficeStep ==
  ASSUME RowTypes, OfficeTypes, OfficeInv, AccountsNext
  PROVE  OfficeTypes' /\ OfficeInv'
<1> USE DEF OfficeTypes
<1>1. /\ raced' = (raced \/ ~OneErrand' \/ SelfDelete')
      /\ raced \in BOOLEAN
  BY DEF AccountsNext
<1>2. \A i : Has(i, Staff) => Members # {}
  BY DEF Has, With, Members
<1>3. ASSUME NEW e \in Employee, account[e] = Nobody, \A f \in Employee : f # e => account'[f] = account[f],
             office' = office
      PROVE  OfficeTypes' /\ OfficeInv'
  <2>1. Members # {} => Members' # {}
    BY <1>3 DEF Members
  <2>2. \A i : Has(i, Staff) => Has(i, Staff)'
    BY <1>3, OthersStay
  <2>3. Busy' = Busy
    BY <1>3 DEF Busy
  <2>4. QED
    BY <1>1, <1>3, <2>1, <2>2, <2>3 DEF OfficeInv, OneErrand
<1>4. ASSUME UNCHANGED <<account, office>>  PROVE OfficeTypes' /\ OfficeInv'
  <2>1. Busy' = Busy /\ Members' = Members /\ \A i : Has(i, Staff)' = Has(i, Staff)
    BY <1>4 DEF Busy, Members, Has, With
  <2>2. QED
    BY <1>1, <1>4, <2>1 DEF OfficeInv, OneErrand
<1>5. ASSUME NEW o \in Office, NEW by \in Id, NEW i \in Id, NEW op \in Role \cup {"delete"},
             Has(by, Staff), office[o] = Nobody, account' = account, i # by \/ op = "delete",
             \E e \in With(i) : office' = [office EXCEPT ![o] =
               [by |-> by, op |-> op, id |-> i, seen |-> account[e].role]]
      PROVE  OfficeTypes' /\ OfficeInv'
  <2>1. PICK e \in With(i) : office' = [office EXCEPT ![o] =
               [by |-> by, op |-> op, id |-> i, seen |-> account[e].role]]
    BY <1>5
  <2> DEFINE req == [by |-> by, op |-> op, id |-> i, seen |-> account[e].role]
  <2>2. req \in Errand /\ req.by = by /\ req.id = i /\ req.op = op /\ req # Nobody
    <3>1. account[e].role \in Role
      BY DEF RowTypes, With, Account
    <3>2. req \in Errand /\ req.by = by /\ req.id = i /\ req.op = op
      BY <3>1 DEF Errand
    <3>3. QED
      BY <3>2, NobodyAssumption
  <2>3. OfficeTypes' /\ office'[o] = req
    BY <1>1, <2>1, <2>2
  <2> HIDE DEF req
  <2>4. Members' = Members /\ \A j : Has(j, Staff)' = Has(j, Staff)
    BY <1>5 DEF Members, Has, With
  <2>5. Busy' = Busy \cup {o} /\ \A q \in Busy : office'[q] = office[q]
    BY <1>5, <2>1, <2>2, <2>3 DEF Busy, req
  <2>6. ASSUME ~raced'  PROVE OneErrand' /\ \A q \in Busy' : q = o /\ i # by
    <3>1. OneErrand' /\ ~SelfDelete'
      BY <1>1, <2>6
    <3>2. \A q \in Busy' : q = o
      BY <2>5, <3>1 DEF OneErrand
    <3>3. i # by
      BY <1>5, <2>2, <2>3, <2>5, <3>1 DEF SelfDelete
    <3>4. QED
      BY <3>1, <3>2, <3>3
  <2>7. QED
    BY <1>1, <1>2, <1>5, <2>2, <2>3, <2>4, <2>6 DEF OfficeInv
<1>6. ASSUME NEW o \in Busy, office' = [office EXCEPT ![o] = Nobody], ~raced,
             Members' # {}
      PROVE  OfficeTypes' /\ OfficeInv'
  <2>1. \A q \in Busy : q = o
    BY <1>6 DEF OfficeInv, OneErrand
  <2>2. Busy' = {}
    BY <1>6, <2>1 DEF Busy
  <2>3. QED
    BY <1>1, <1>6, <2>2 DEF OfficeInv, OneErrand
<1>7. ASSUME raced, OfficeTypes'  PROVE OfficeTypes' /\ OfficeInv'
  BY <1>1, <1>7 DEF OfficeInv
<1>8. ASSUME NEW o \in Office, SaveRole(o), ~raced  PROVE Members' # {}
  <2>1. PICK e \in With(office[o].id) : account' = [account EXCEPT ![e].role =
          IF office[o].op = office[o].seen THEN @ ELSE office[o].op]
    BY <1>8 DEF SaveRole
  <2>2. Has(office[o].by, Staff) /\ office[o].id # office[o].by
    BY <1>8 DEF SaveRole, OfficeInv, Busy
  <2>3. PICK f \in Employee : account[f] # Nobody /\ account[f].id = office[o].by
                              /\ account[f].role = Staff
    BY <2>2 DEF Has, With
  <2>4. f # e
    BY <2>2, <2>3 DEF With
  <2>5. account'[f] = account[f]
    BY <2>1, <2>4 DEF RowTypes
  <2>6. QED
    BY <2>3, <2>5 DEF Members
<1>9. ASSUME NEW o \in Office, DeleteRow(o), ~raced  PROVE Members' # {}
  <2>1. Has(office[o].by, Staff) /\ office[o].id # office[o].by
    BY <1>9 DEF DeleteRow, OfficeInv, Busy
  <2>2. PICK f \in Employee : account[f] # Nobody /\ account[f].id = office[o].by
                              /\ account[f].role = Staff
    BY <2>1 DEF Has, With
  <2>3. account'[f] = account[f]
    BY <1>9, <2>1, <2>2 DEF DeleteRow, With
  <2>4. QED
    BY <2>2, <2>3 DEF Members
<1>10. ASSUME NEW e \in Employee, FirstLogin(e)  PROVE OfficeTypes' /\ OfficeInv'
  <2>1. office' = office /\ account[e] = Nobody /\ \A f \in Employee : f # e => account'[f] = account[f]
    BY <1>10 DEF FirstLogin, RowTypes
  <2>2. QED
    BY <1>3, <2>1
<1>11. ASSUME NEW e \in Employee, NEW i \in MadeId, NEW role \in Role, CreateUser(i, e, role)
       PROVE  OfficeTypes' /\ OfficeInv'
  <2>1. office' = office /\ account[e] = Nobody /\ \A f \in Employee : f # e => account'[f] = account[f]
    BY <1>11 DEF CreateUser, RowTypes
  <2>2. QED
    BY <1>3, <2>1
<1>12. ASSUME NEW o \in Office, NEW by \in Id, NEW i \in Id, NEW role \in Role,
              ReadForRole(o, by, i, role)
       PROVE  OfficeTypes' /\ OfficeInv'
  BY <1>5, <1>12 DEF ReadForRole
<1>13. ASSUME NEW o \in Office, NEW by \in Id, NEW i \in Id, ReadForDelete(o, by, i)
       PROVE  OfficeTypes' /\ OfficeInv'
  BY <1>5, <1>13 DEF ReadForDelete
<1>14. ASSUME NEW o \in Office, SaveRole(o) \/ DeleteRow(o) \/ ErrandFails(o)
       PROVE  OfficeTypes' /\ OfficeInv'
  <2>1. office' = [office EXCEPT ![o] = Nobody] /\ o \in Busy
    BY <1>14 DEF SaveRole, DeleteRow, ErrandFails, Busy
  <2>2. OfficeTypes'
    BY <1>1, <2>1
  <2>3. CASE raced
    BY <1>7, <2>2, <2>3
  <2>4. CASE ~raced
    <3>1. ErrandFails(o) => Members' # {}
      BY <2>4 DEF ErrandFails, OfficeInv, Members
    <3>2. QED
      BY <1>6, <1>8, <1>9, <1>14, <2>1, <2>4, <3>1
  <2>5. QED
    BY <2>3, <2>4
<1>15. QED
  <2>1. ASSUME NEW e \in Employee, NEW c \in Client, SignToken(c, e)
        PROVE  OfficeTypes' /\ OfficeInv'
    BY <1>4, <2>1 DEF SignToken
  <2>2. CASE TickTokens
    BY <1>4, <2>2 DEF TickTokens
  <2>3. QED
    BY <1>10, <1>11, <1>12, <1>13, <1>14, <2>1, <2>2 DEF AccountsNext, AccountsStep

LEMMA AccountsInvariance == AccountsSpec => []AccountsInv
<1>1. AccountsInv /\ UNCHANGED accountVars => AccountsInv'
  BY DEF accountVars, AccountsInv, RowTypes, TokenTypes, TokenInv, OfficeTypes, OfficeInv,
     OneErrand, Busy, Members, Has, With
<1>2. AccountsInv /\ AccountsNext => AccountsInv'
  BY RowsKeepTypes, TokensAge, OfficeStep DEF AccountsInv, AccountsNext
<1>3. QED
  BY <1>1, <1>2, AccountsInvInit, PTL DEF AccountsSpec

\* The other services admit nobody in a role he lost longer than a token's life ago.
THEOREM RolesAreRecent == AccountsSpec => []TokenStandsForRole
<1>1. AccountsInv => TokenStandsForRole
  BY TokenAssumption DEF AccountsInv, TokenTypes, TokenInv, TokenStandsForRole, Admits, Accepted,
     Token
<1>2. QED
  BY <1>1, AccountsInvariance, PTL

\* The last welfare member goes only by his own deletion or in a race of two members.
THEOREM StaffIsNeverLost == AccountsSpec => []StaffRemains
<1>1. AccountsInv => StaffRemains
  BY DEF AccountsInv, OfficeTypes, OfficeInv, StaffRemains
<1>2. QED
  BY <1>1, AccountsInvariance, PTL

----------------------------------------------------------------------------
(* ProfileCache: an answer under way is as old as its call, an entry as old *)
(* as what it has used up of its life and a call; and both are the row's,   *)
(* except for persons with an excuse or a change that is being answered.    *)

ProfileTypes ==
  /\ truth \in [Person -> Profile] /\ age \in [Person -> [Profile -> Ages]]
  /\ Stored \subseteq Key /\ \A k \in Stored : cache[k] \in Entry
  /\ ask \in [Reader -> Ask] /\ change \in [Writer -> Change] /\ excused \subseteq Person

AgeOf(k, v) == age[k[1]][v]

RecentInv ==
  /\ \A p \in Person : age[p][truth[p]] = 0
  /\ \A r \in Reader : ask[r].at = "answered" => AgeOf(ask[r].key, ask[r].profile) <= ask[r].spent
  /\ \A k \in Stored : cache[k].left >= 0
       => AgeOf(k, cache[k].profile) + cache[k].left <= Ttl + CallTime

FreshInv ==
  /\ \A r \in Reader : ask[r].at = "answered" /\ ask[r].key[1] \notin excused
                        => ask[r].profile = truth[ask[r].key[1]]
  /\ StaleHasReason

ProfileInv == ProfileTypes /\ RecentInv /\ FreshInv

LEMMA NoneFacts ==
  /\ NoAsk \in Ask /\ NoAsk.at = "idle" /\ NoAsk.spent = 0
  /\ NoChange \in Change /\ NoChange.at = "idle"
<1>1. PICK p \in Person, c \in Category, v \in Profile : TRUE
  BY PersonAssumption
<1>2. [at |-> "idle", key |-> <<p, c>>, profile |-> v, spent |-> 0] \in Ask
  BY CacheAssumption DEF Ask, Key
<1>3. \E a \in Ask : a.at = "idle" /\ a.spent = 0
  BY <1>2
<1>4. [at |-> "idle", person |-> p] \in Change
  BY DEF Change
<1>5. \E c1 \in Change : c1.at = "idle"
  BY <1>4
<1>6. QED
  BY <1>3, <1>5 DEF NoAsk, NoChange

LEMMA KeyFacts == \A k \in Key : k[1] \in Person
BY DEF Key

LEMMA ProfileInvInit == ProfileInit => ProfileInv
<1> SUFFICES ASSUME ProfileInit  PROVE ProfileInv
  OBVIOUS
<1>1. Stored = {}
  BY DEF ProfileInit, Stored
<1>2. \A p \in Person, v \in Profile : age[p][v] \in Ages
  BY CacheAssumption DEF ProfileInit, Ages
<1>3. ProfileTypes
  BY <1>1, <1>2, NoneFacts DEF ProfileInit, ProfileTypes
<1>4. RecentInv /\ FreshInv
  BY <1>1, NoneFacts DEF ProfileInit, RecentInv, FreshInv, StaleHasReason, Alive
<1>5. QED
  BY <1>3, <1>4 DEF ProfileInv

\* A step of a reader that leaves the cache or takes entries out of it, and does not
\* make the reader's request an answered one.
LEMMA ReaderMoves ==
  ASSUME ProfileInv, NEW r \in Reader, NEW x \in Ask, ask' = [ask EXCEPT ![r] = x],
         x.at # "answered", Stored' \subseteq Stored, \A k \in Stored' : cache'[k] = cache[k],
         UNCHANGED <<truth, age, change, excused>>
  PROVE  ProfileInv'
<1>1. ProfileTypes'
  BY DEF ProfileInv, ProfileTypes
<1>2. \A q \in Reader : ask'[q].at = "answered" => ask'[q] = ask[q]
  BY DEF ProfileInv, ProfileTypes
<1>3. RecentInv'
  BY <1>2 DEF ProfileInv, RecentInv, AgeOf
<1>4. FreshInv'
  BY <1>2 DEF ProfileInv, FreshInv, StaleHasReason, Alive, ChangePending
<1>5. QED
  BY <1>1, <1>3, <1>4 DEF ProfileInv

LEMMA StoredAsk ==
  ASSUME ask \in [Reader -> Ask], NEW r \in Reader, StoreProfile(r)
  PROVE  ask'[r] \in Ask /\ ask'[r].at = "done"
<1>1. ask'[r] = [ask[r] EXCEPT !.at = "done", !.spent = 0]
  BY DEF StoreProfile
<1>2. ask[r] \in Ask /\ 0 \in 0..CallTime
  BY CacheAssumption
<1>3. QED
  BY <1>1, <1>2 DEF Ask

LEMMA StoreKeeps ==
  ASSUME ProfileInv, NEW r \in Reader, StoreProfile(r)
  PROVE  ProfileInv'
<1> DEFINE key == ask[r].key
           new == ask[r].profile
<1>1. key \in Key /\ new \in Profile /\ ask[r] \in Ask /\ ask[r].at = "answered"
  BY DEF StoreProfile, ProfileInv, ProfileTypes, Ask
<1>2. PICK gone \in Pruned : cache' = [l \in (Stored \ gone) \cup {key} |->
        IF l = key THEN [profile |-> new, left |-> Ttl] ELSE cache[l]]
  BY DEF StoreProfile, Set
<1>3. Stored' = (Stored \ gone) \cup {key}
  BY <1>2 DEF Stored
<1>4. \A k \in Stored' : cache'[k] = IF k = key THEN [profile |-> new, left |-> Ttl] ELSE cache[k]
  BY <1>2, <1>3
<1>5. ask \in [Reader -> Ask] /\ ask'[r] \in Ask /\ ask'[r].at = "done"
  BY StoredAsk DEF ProfileInv, ProfileTypes
<1>6. \A q \in Reader : q # r => ask'[q] = ask[q]
  BY <1>5 DEF StoreProfile
<1>7. /\ ask' \in [Reader -> Ask] /\ \A q \in Reader : ask'[q].at = "answered" => ask'[q] = ask[q]
      /\ UNCHANGED <<truth, age, change, excused>>
  BY <1>5, <1>6 DEF StoreProfile, ProfileInv, ProfileTypes
<1>8. AgeOf(key, new) <= CallTime /\ AgeOf(key, new) \in Nat
      /\ (key[1] \notin excused => new = truth[key[1]])
  <2>1. ask[r].spent \in 0..CallTime /\ key[1] \in Person
    BY <1>1, KeyFacts DEF Ask
  <2>2. AgeOf(key, new) \in Ages
    BY <1>1, <2>1 DEF AgeOf, ProfileInv, ProfileTypes
  <2>3. AgeOf(key, new) <= ask[r].spent
    BY <1>1 DEF ProfileInv, RecentInv
  <2>4. QED
    BY <1>1, <2>1, <2>2, <2>3, CacheAssumption DEF Ages, ProfileInv, FreshInv
<1> HIDE DEF key, new
<1>9. [profile |-> new, left |-> Ttl] \in Entry
  BY <1>1, CacheAssumption DEF Entry
<1>10. ProfileTypes'
  BY <1>1, <1>3, <1>4, <1>7, <1>9 DEF ProfileInv, ProfileTypes
<1>11. RecentInv'
  BY <1>3, <1>4, <1>7, <1>8, CacheAssumption DEF ProfileInv, RecentInv, AgeOf
<1>12. FreshInv'
  BY <1>3, <1>4, <1>7, <1>8 DEF ProfileInv, FreshInv, StaleHasReason, Alive, ChangePending
<1>13. QED
  BY <1>10, <1>11, <1>12 DEF ProfileInv

\* A new version of a row is of age 0 and makes none older; the person is excused, or
\* nobody has an older version under way and the change is being answered.
LEMMA RowWritten ==
  ASSUME ProfileInv, NEW p \in Person, NEW v \in Profile, WriteRow(p, v),
         UNCHANGED <<cache, ask>>, change' \in [Writer -> Change],
         \A q \in Person : q # p /\ ChangePending(q) => ChangePending(q)',
         excused \subseteq excused', excused' \subseteq Person,
         p \in excused' \/ (~Underway(p) /\ ChangePending(p)')
  PROVE  ProfileInv'
<1>1. /\ truth' \in [Person -> Profile] /\ truth'[p] = v
      /\ \A q \in Person : q # p => truth'[q] = truth[q]
  BY DEF WriteRow, ProfileInv, ProfileTypes
<1>2. /\ age' \in [Person -> [Profile -> Ages]]
      /\ \A q \in Person, u \in Profile : age'[q][u] = IF q = p /\ u = v THEN 0 ELSE age[q][u]
  BY CacheAssumption DEF WriteRow, ProfileInv, ProfileTypes, Ages
<1>3. ProfileTypes'
  BY <1>1, <1>2 DEF ProfileInv, ProfileTypes, Stored
<1>4. /\ \A k \in Stored : k[1] \in Person /\ cache[k].profile \in Profile /\ cache[k].left \in -1..Ttl
      /\ \A r \in Reader : /\ ask[r].key \in Key /\ ask[r].key[1] \in Person
                          /\ ask[r].profile \in Profile /\ ask[r].spent \in 0..CallTime
  BY KeyFacts DEF ProfileInv, ProfileTypes, Entry, Ask
<1>5. \A q \in Person, u \in Profile : age'[q][u] \in Nat /\ age[q][u] \in Nat /\ age'[q][u] <= age[q][u]
  BY <1>2, CacheAssumption DEF ProfileInv, ProfileTypes, Ages
<1>6. RecentInv'
  <2>1. \A q \in Person : age'[q][truth'[q]] = 0
    <3>1. ASSUME NEW q \in Person, q # p  PROVE age'[q][truth'[q]] = 0
      <4>1. truth'[q] = truth[q] /\ truth[q] \in Profile /\ age[q][truth[q]] = 0
        BY <1>1, <3>1 DEF ProfileInv, ProfileTypes, RecentInv
      <4>2. QED
        BY <1>2, <3>1, <4>1
    <3>2. QED
      BY <1>1, <1>2, <3>1
  <2>2. ASSUME NEW r \in Reader, ask[r].at = "answered"
        PROVE  age'[ask[r].key[1]][ask[r].profile] <= ask[r].spent
    <3>1. age[ask[r].key[1]][ask[r].profile] <= ask[r].spent
      BY <2>2 DEF ProfileInv, RecentInv, AgeOf
    <3>2. QED
      BY <1>4, <1>5, <3>1, CacheAssumption
  <2>3. ASSUME NEW k \in Stored, cache[k].left >= 0
        PROVE  age'[k[1]][cache[k].profile] + cache[k].left <= Ttl + CallTime
    <3>1. age[k[1]][cache[k].profile] + cache[k].left <= Ttl + CallTime
      BY <2>3 DEF ProfileInv, RecentInv, AgeOf
    <3>2. QED
      BY <1>4, <1>5, <3>1, CacheAssumption
  <2>4. QED
    BY <2>1, <2>2, <2>3 DEF RecentInv, AgeOf, Stored
<1>7. FreshInv'
  <2>1. ASSUME NEW r \in Reader, ask[r].at = "answered", ask[r].key[1] \notin excused'
        PROVE  ask[r].profile = truth'[ask[r].key[1]]
    <3>1. ask[r].key[1] # p
      BY <2>1 DEF Underway
    <3>2. ask[r].profile = truth[ask[r].key[1]]
      BY <2>1 DEF ProfileInv, FreshInv
    <3>3. QED
      BY <1>1, <1>4, <3>1, <3>2
  <2>2. ASSUME NEW k \in Stored, cache[k].left >= 0, k[1] \notin excused', ~ChangePending(k[1])'
        PROVE  cache[k].profile = truth'[k[1]]
    <3>1. k[1] \in Person /\ k[1] # p
      BY <1>4, <2>2
    <3>2. ~ChangePending(k[1])
      BY <2>2, <3>1
    <3>3. cache[k].profile = truth[k[1]]
      BY <2>2, <3>2, KeyFacts DEF ProfileInv, ProfileTypes, FreshInv, StaleHasReason, Alive
    <3>4. QED
      BY <1>1, <3>1, <3>3
  <2>3. QED
    BY <2>1, <2>2 DEF FreshInv, StaleHasReason, Alive, Stored, ChangePending
<1>8. QED
  BY <1>3, <1>6, <1>7 DEF ProfileInv

LEMMA AskedAsk ==
  ASSUME ask \in [Reader -> Ask], NEW r \in Reader, NEW k \in Key
  PROVE  /\ [ask[r] EXCEPT !.at = "asked", !.key = k] \in Ask
         /\ [ask[r] EXCEPT !.at = "asked", !.key = k].at = "asked"
<1> DEFINE y == [ask[r] EXCEPT !.at = "asked", !.key = k]
<1>1. ask[r] \in Ask
  OBVIOUS
<1>2. y \in Ask /\ y.at = "asked"
  BY <1>1 DEF Ask
<1>3. QED
  BY <1>2

LEMMA HitAsk ==
  ASSUME ask \in [Reader -> Ask], NEW r \in Reader, NEW k \in Key, Hit(r, k),
         cache[k].profile \in Profile
  PROVE  /\ ask'[r] \in Ask /\ ask'[r].at = "done"
         /\ ask'[r].key = k /\ ask'[r].profile = cache[k].profile
<1>1. ask'[r] = [ask[r] EXCEPT !.at = "done", !.key = k, !.profile = cache[k].profile]
  BY DEF Hit
<1>2. ask[r] \in Ask
  OBVIOUS
<1>3. QED
  BY <1>1, <1>2 DEF Ask

LEMMA AnswerAsk ==
  ASSUME ask \in [Reader -> Ask], truth \in [Person -> Profile], NEW r \in Reader, AnswerProfile(r)
  PROVE  /\ ask'[r] \in Ask /\ ask'[r].spent \in 0..CallTime
         /\ ask'[r].key = ask[r].key /\ ask'[r].profile = truth[ask[r].key[1]]
<1>1. ask'[r] = [ask[r] EXCEPT !.at = "answered", !.profile = truth[ask[r].key[1]]]
  BY DEF AnswerProfile
<1>2. ask[r] \in Ask /\ ask[r].key \in Key
  BY DEF Ask
<1>3. truth[ask[r].key[1]] \in Profile
  BY <1>2, KeyFacts
<1>4. QED
  BY <1>1, <1>2, <1>3 DEF Ask

LEMMA AnswerKeeps ==
  ASSUME ProfileInv, NEW r \in Reader, AnswerProfile(r)
  PROVE  ProfileInv'
<1>1. /\ ask'[r] \in Ask /\ ask'[r].spent \in 0..CallTime
      /\ ask'[r].key = ask[r].key /\ ask'[r].profile = truth[ask[r].key[1]]
  BY AnswerAsk DEF ProfileInv, ProfileTypes
<1>2. ask[r].key[1] \in Person
  BY KeyFacts DEF ProfileInv, ProfileTypes, Ask
<1>3. /\ \A q \in Reader : q # r => ask'[q] = ask[q]
      /\ ask' \in [Reader -> Ask] /\ UNCHANGED <<truth, age, cache, change, excused>>
  BY <1>1 DEF AnswerProfile, ProfileInv, ProfileTypes
<1>4. ProfileTypes'
  BY <1>3 DEF ProfileInv, ProfileTypes, Stored
<1>5. RecentInv'
  <2>1. age[ask'[r].key[1]][ask'[r].profile] <= ask'[r].spent
    BY <1>1, <1>2, CacheAssumption DEF ProfileInv, RecentInv
  <2>2. QED
    BY <1>3, <2>1 DEF ProfileInv, RecentInv, AgeOf, Stored
<1>6. FreshInv'
  BY <1>1, <1>3 DEF ProfileInv, FreshInv, StaleHasReason, Alive, Stored, ChangePending
<1>7. QED
  BY <1>4, <1>5, <1>6 DEF ProfileInv

\* An empty cache and no request under way.
LEMMA CacheCleared ==
  ASSUME ProfileInv, Clear, UNCHANGED <<truth, age>>, excused' \subseteq Person, excused \subseteq excused',
         change' \in [Writer -> Change], ask' \in [Reader -> Ask],
         \A r \in Reader : ask'[r].at = "answered" => ask'[r] = ask[r]
  PROVE  ProfileInv'
<1>1. Stored' = {}
  BY DEF Clear, Stored
<1>2. QED
  BY <1>1 DEF ProfileInv, ProfileTypes, RecentInv, AgeOf, FreshInv, StaleHasReason, Alive

\* Only excuses and changes move; whoever loses a change under way has an excuse.
LEMMA ChangeMoves ==
  ASSUME ProfileInv, UNCHANGED <<truth, age, cache, ask>>, change' \in [Writer -> Change],
         excused \subseteq excused', excused' \subseteq Person,
         \A w \in Writer : change[w].at = "written" =>
           change'[w] = change[w] \/ change[w].person \in excused'
  PROVE  ProfileInv'
<1>1. ProfileTypes' /\ RecentInv'
  BY DEF ProfileInv, ProfileTypes, RecentInv, AgeOf, Stored
<1>2. \A p \in Person : p \notin excused' /\ ChangePending(p) =>
         \E w \in Writer : change'[w].at = "written" /\ change'[w].person = p
  BY DEF ChangePending
<1>3. \A k \in Key : Alive(k)' = Alive(k) /\ k[1] \in Person
  BY KeyFacts DEF Alive, Stored
<1>4. StaleHasReason'
  BY <1>2, <1>3 DEF ProfileInv, FreshInv, StaleHasReason, ChangePending
<1>5. QED
  BY <1>1, <1>4 DEF ProfileInv, FreshInv

LEMMA TimeKeeps ==
  ASSUME ProfileInv, TickProfiles
  PROVE  ProfileInv'
<1>1. ASSUME NEW p \in Person, NEW v \in Profile
      PROVE  /\ age'[p][v] \in Ages /\ age[p][v] \in Nat /\ age'[p][v] <= age[p][v] + 1
             /\ v = truth[p] => age'[p][v] = 0
  <2>1. age[p][v] \in Ages /\ age'[p][v] = IF v = truth[p] THEN 0 ELSE Older(age[p][v])
    BY DEF TickProfiles, ProfileInv, ProfileTypes
  <2>2. QED
    BY <2>1, CacheAssumption DEF Ages, Older
<1>2. ASSUME NEW r \in Reader
      PROVE  /\ ask'[r] \in Ask /\ ask'[r].at = ask[r].at /\ ask'[r].key = ask[r].key
             /\ ask'[r].profile = ask[r].profile
             /\ ask[r].at = "answered" => ask'[r].spent = ask[r].spent + 1
  <2>1. ask[r] \in Ask /\ ask[r].spent \in 0..CallTime
    BY DEF ProfileInv, ProfileTypes, Ask
  <2>2. CASE ask[r].at = "answered"
    <3>1. ask'[r] = [ask[r] EXCEPT !.spent = ask[r].spent + 1]
      BY <2>2 DEF TickProfiles
    <3>2. ask[r].spent + 1 \in 0..CallTime
      BY <2>1, <2>2, CacheAssumption DEF TickProfiles
    <3>3. QED
      BY <2>1, <3>1, <3>2 DEF Ask
  <2>3. CASE ask[r].at # "answered"
    BY <2>1, <2>3 DEF TickProfiles
  <2>4. QED
    BY <2>2, <2>3
<1>3. Stored' = Stored
  BY DEF TickProfiles, Stored
<1>4. ASSUME NEW k \in Stored
      PROVE  /\ cache'[k] \in Entry /\ cache'[k].profile = cache[k].profile
             /\ cache[k].left \in Int
             /\ cache'[k].left >= 0 => cache[k].left >= 0 /\ cache'[k].left + 1 = cache[k].left
  <2>1. cache[k] \in Entry /\ cache[k].left \in -1..Ttl
    BY DEF ProfileInv, ProfileTypes, Entry
  <2>2. cache'[k] = [cache[k] EXCEPT !.left = IF cache[k].left < 0 THEN cache[k].left
                                             ELSE cache[k].left - 1]
    BY DEF TickProfiles
  <2> DEFINE left == IF cache[k].left < 0 THEN cache[k].left ELSE cache[k].left - 1
  <2>3. left \in -1..Ttl /\ (left >= 0 => cache[k].left >= 0 /\ left + 1 = cache[k].left)
    BY <2>1, CacheAssumption
  <2>4. cache'[k] = [cache[k] EXCEPT !.left = left]
    BY <2>2
  <2> HIDE DEF left
  <2>5. cache'[k] \in Entry /\ cache'[k].profile = cache[k].profile /\ cache'[k].left = left
    BY <2>1, <2>3, <2>4 DEF Entry
  <2>6. QED
    BY <2>1, <2>3, <2>5
<1>5. ProfileTypes'
  <2>1. age' \in [Person -> [Profile -> Ages]] /\ ask' \in [Reader -> Ask]
    BY <1>1, <1>2 DEF TickProfiles
  <2>2. UNCHANGED <<truth, change, excused>>
    BY DEF TickProfiles
  <2>3. QED
    BY <1>3, <1>4, <2>1, <2>2 DEF ProfileInv, ProfileTypes
<1>6. RecentInv'
  <2>1. \A p \in Person : age'[p][truth[p]] = 0 /\ truth' = truth
    BY <1>1 DEF TickProfiles, ProfileInv, ProfileTypes
  <2>2. ASSUME NEW r \in Reader, ask'[r].at = "answered"
        PROVE  age'[ask'[r].key[1]][ask'[r].profile] <= ask'[r].spent
    <3>1. ask[r].key[1] \in Person /\ ask[r].profile \in Profile /\ ask[r].spent \in 0..CallTime
      BY KeyFacts DEF ProfileInv, ProfileTypes, Ask
    <3>2. age[ask[r].key[1]][ask[r].profile] <= ask[r].spent
      BY <1>2, <2>2 DEF ProfileInv, RecentInv, AgeOf
    <3>3. /\ age'[ask[r].key[1]][ask[r].profile] \in Ages
          /\ age[ask[r].key[1]][ask[r].profile] \in Nat
          /\ age'[ask[r].key[1]][ask[r].profile] <= age[ask[r].key[1]][ask[r].profile] + 1
      BY <1>1, <3>1
    <3>4. ask'[r].spent = ask[r].spent + 1 /\ ask'[r].key = ask[r].key
          /\ ask'[r].profile = ask[r].profile
      BY <1>2, <2>2
    <3>5. QED
      BY <3>1, <3>2, <3>3, <3>4, CacheAssumption DEF Ages
  <2>3. ASSUME NEW k \in Stored, cache'[k].left >= 0
        PROVE  age'[k[1]][cache'[k].profile] + cache'[k].left <= Ttl + CallTime
    <3>1. k[1] \in Person /\ cache[k].profile \in Profile
      BY KeyFacts DEF ProfileInv, ProfileTypes, Entry
    <3>2. age[k[1]][cache[k].profile] + cache[k].left <= Ttl + CallTime
      BY <1>4, <2>3 DEF ProfileInv, RecentInv, AgeOf
    <3>3. /\ age'[k[1]][cache[k].profile] \in Ages /\ age[k[1]][cache[k].profile] \in Nat
          /\ age'[k[1]][cache[k].profile] <= age[k[1]][cache[k].profile] + 1
      BY <1>1, <3>1
    <3>4. cache'[k].profile = cache[k].profile /\ cache'[k].left + 1 = cache[k].left
          /\ cache[k].left \in Int /\ cache'[k].left \in Int
      BY <1>4, <2>3 DEF Entry
    <3>5. QED
      BY <3>2, <3>3, <3>4, CacheAssumption DEF Ages
  <2>4. QED
    BY <1>3, <2>1, <2>2, <2>3 DEF RecentInv, AgeOf
<1>7. FreshInv'
  <2>1. UNCHANGED <<truth, change, excused>>
    BY DEF TickProfiles
  <2>2. \A k \in Key : Alive(k)' => Alive(k) /\ cache'[k].profile = cache[k].profile
    BY <1>3, <1>4 DEF Alive
  <2>3. QED
    BY <1>2, <2>1, <2>2 DEF ProfileInv, FreshInv, StaleHasReason, ChangePending
<1>8. QED
  BY <1>5, <1>6, <1>7 DEF ProfileInv

LEMMA ProfileStep ==
  ASSUME ProfileInv, [ProfileNext]_profileVars
  PROVE  ProfileInv'
<1>1. CASE UNCHANGED profileVars
  BY <1>1 DEF profileVars, ProfileInv, ProfileTypes, RecentInv, AgeOf, FreshInv, StaleHasReason,
     Alive, Stored, ChangePending
<1>2. ASSUME NEW r \in Reader, NEW k \in Key, Hit(r, k)  PROVE ProfileInv'
  <2>1. ask'[r] \in Ask /\ ask'[r].at = "done"
    BY <1>2, HitAsk DEF Hit, Alive, ProfileInv, ProfileTypes, Entry
  <2>2. ask' = [ask EXCEPT ![r] = ask'[r]]
    BY <1>2 DEF Hit, ProfileInv, ProfileTypes
  <2>3. QED
    BY <1>2, <2>1, <2>2, ReaderMoves DEF Hit, Stored
<1>3. ASSUME NEW r \in Reader, NEW k \in Key, Miss(r, k)  PROVE ProfileInv'
  <2>1. /\ [ask[r] EXCEPT !.at = "asked", !.key = k] \in Ask
        /\ [ask[r] EXCEPT !.at = "asked", !.key = k].at = "asked"
    BY AskedAsk DEF ProfileInv, ProfileTypes
  <2>2. ask' = [ask EXCEPT ![r] = [ask[r] EXCEPT !.at = "asked", !.key = k]]
    BY <1>3 DEF Miss, ProfileInv, ProfileTypes
  <2>3. Stored' \subseteq Stored /\ \A l \in Stored' : cache'[l] = cache[l]
    BY <1>3 DEF Miss, Without, Stored
  <2>4. QED
    BY <1>3, <2>1, <2>2, <2>3, ReaderMoves DEF Miss
<1>4. ASSUME NEW r \in Reader, EndAsk(r)  PROVE ProfileInv'
  BY <1>4, NoneFacts, ReaderMoves DEF EndAsk, Stored
<1>5. ASSUME NEW p \in Person, NEW v \in Profile, ChangeElsewhere(p, v)  PROVE ProfileInv'
  <2>1. \A q \in Person : ChangePending(q) => ChangePending(q)'
    BY <1>5 DEF ChangeElsewhere, ChangePending
  <2>2. QED
    BY <1>5, <2>1, RowWritten DEF ChangeElsewhere, ProfileInv, ProfileTypes
<1>6. ASSUME NEW w \in Writer, NEW p \in Person, BeginChange(w, p)  PROVE ProfileInv'
  BY <1>6, ChangeMoves DEF BeginChange, ProfileInv, ProfileTypes, Change
<1>7. ASSUME NEW w \in Writer, NEW v \in Profile, CommitChange(w, v)  PROVE ProfileInv'
  <2>1. PICK p \in Person : p = change[w].person /\ change[w] \in Change
    BY DEF ProfileInv, ProfileTypes, Change
  <2>2. change'[w] = [change[w] EXCEPT !.at = "written"]
    BY <1>7 DEF CommitChange, ProfileInv, ProfileTypes
  <2>3. change'[w] \in Change /\ change'[w].at = "written" /\ change'[w].person = p
    BY <2>1, <2>2 DEF Change
  <2>4. change' \in [Writer -> Change] /\ \A x \in Writer : x # w => change'[x] = change[x]
    BY <1>7, <2>3 DEF CommitChange, ProfileInv, ProfileTypes
  <2>5. ChangePending(p)'
    BY <2>3 DEF ChangePending
  <2>6. ASSUME NEW q \in Person, q # p, ChangePending(q)  PROVE ChangePending(q)'
    BY <2>1, <2>4, <2>6 DEF ChangePending
  <2>7. /\ WriteRow(p, v) /\ UNCHANGED <<cache, ask>>
        /\ excused' = IF Underway(p) THEN excused \cup {p} ELSE excused
    BY <1>7, <2>1 DEF CommitChange
  <2>8. /\ excused \subseteq excused' /\ excused' \subseteq Person
        /\ p \in excused' \/ ~Underway(p)
    BY <2>1, <2>7 DEF ProfileInv, ProfileTypes
  <2>9. QED
    BY <2>4, <2>5, <2>6, <2>7, <2>8, RowWritten
<1>8. ASSUME NEW w \in Writer, ChangeSeen(w)  PROVE ProfileInv'
  BY <1>8, NoneFacts, CacheCleared DEF ChangeSeen, ProfileInv, ProfileTypes
<1>9. ASSUME NEW w \in Writer, ChangeFails(w)  PROVE ProfileInv'
  <2>1. change[w].person \in Person
    BY DEF ProfileInv, ProfileTypes, Change
  <2>2. QED
    BY <1>9, <2>1, NoneFacts, ChangeMoves DEF ChangeFails, ProfileInv, ProfileTypes
<1>10. CASE RestartTransactionService
  BY <1>10, NoneFacts, CacheCleared DEF RestartTransactionService, ProfileInv, ProfileTypes
<1>11. QED
  BY <1>1, <1>2, <1>3, <1>4, <1>5, <1>6, <1>7, <1>8, <1>9, <1>10, AnswerKeeps, StoreKeeps, TimeKeeps
     DEF ProfileNext

LEMMA ProfileInvariance == ProfileSpec => []ProfileInv
  BY ProfileInvInit, ProfileStep, PTL DEF ProfileSpec

\* After a punishment or an update has returned no key gives the profile from before,
\* but for the changes named.
THEOREM CacheForgetsOldProfiles == ProfileSpec => []StaleHasReason
<1>1. ProfileInv => StaleHasReason
  BY DEF ProfileInv, FreshInv
<1>2. QED
  BY <1>1, ProfileInvariance, PTL

\* Nobody goes by a profile that was replaced longer ago than a life of an entry and a call.
THEOREM ProfilesAreRecent == ProfileSpec => ProfileIsRecent
<1>1. ASSUME ProfileInv, ProfileNext, NEW r \in Reader, ask'[r].at = "done", ask[r].at # "done"
      PROVE  age[ask'[r].key[1]][ask'[r].profile] <= Ttl + CallTime
  <2>1. ask' # ask
    BY <1>1
  <2>3. ASSUME NEW k \in Key, Hit(r, k)
        PROVE  age[ask'[r].key[1]][ask'[r].profile] <= Ttl + CallTime
    <3>1. k \in Stored /\ cache[k] \in Entry /\ cache[k].left \in 0..Ttl
          /\ cache[k].profile \in Profile
      BY <1>1, <2>3 DEF Hit, Alive, ProfileInv, ProfileTypes, Entry
    <3>2. ask'[r].key = k /\ ask'[r].profile = cache[k].profile
      BY <1>1, <2>3, <3>1, HitAsk DEF ProfileInv, ProfileTypes
    <3>3. age[k[1]][cache[k].profile] + cache[k].left <= Ttl + CallTime
      BY <1>1, <3>1 DEF ProfileInv, RecentInv, AgeOf
    <3>4. age[k[1]][cache[k].profile] \in Ages
      BY <1>1, <3>1, KeyFacts DEF ProfileInv, ProfileTypes
    <3>5. QED
      BY <3>1, <3>2, <3>3, <3>4, CacheAssumption DEF Ages
  <2>4. CASE StoreProfile(r)
    <3>1. /\ ask'[r].key = ask[r].key /\ ask'[r].profile = ask[r].profile
          /\ ask[r] \in Ask /\ ask[r].at = "answered" /\ ask[r].spent \in 0..CallTime
          /\ ask[r].profile \in Profile /\ ask[r].key[1] \in Person
      BY <1>1, <2>4, KeyFacts DEF StoreProfile, ProfileInv, ProfileTypes, Ask
    <3>2. age[ask[r].key[1]][ask[r].profile] <= ask[r].spent
      BY <1>1, <3>1 DEF ProfileInv, RecentInv, AgeOf
    <3>3. age[ask[r].key[1]][ask[r].profile] \in Ages
      BY <1>1, <3>1 DEF ProfileInv, ProfileTypes
    <3>4. QED
      BY <3>1, <3>2, <3>3, CacheAssumption DEF Ages
  <2>5. ASSUME NEW k \in Key, Miss(r, k)  PROVE FALSE
    BY <1>1, <2>5, AskedAsk DEF Miss, ProfileInv, ProfileTypes
  <2>6. ~AnswerProfile(r)
    <3>1. ASSUME AnswerProfile(r)  PROVE ask'[r].at = "answered"
      <4>1. ask[r] \in Ask /\ ask'[r] = [ask[r] EXCEPT !.at = "answered", !.profile = truth[ask[r].key[1]]]
        BY <1>1, <3>1 DEF AnswerProfile, ProfileInv, ProfileTypes
      <4>2. QED
        BY <4>1 DEF Ask
    <3>2. QED
      BY <1>1, <3>1
  <2>7. ~EndAsk(r)
    BY <1>1, NoneFacts DEF EndAsk, ProfileInv, ProfileTypes
  <2>8. ~TickProfiles
    BY <1>1 DEF TickProfiles, ProfileInv, ProfileTypes, Ask
  <2>9. ~RestartTransactionService
    BY <1>1, NoneFacts DEF RestartTransactionService
  <2>10. ASSUME NEW q \in Reader, q # r,
                \/ \E k \in Key : Hit(q, k) \/ Miss(q, k)
                \/ AnswerProfile(q) \/ StoreProfile(q) \/ EndAsk(q)
         PROVE  FALSE
    <3>1. ask'[r] = ask[r]
      BY <1>1, <2>10 DEF Hit, Miss, AnswerProfile, StoreProfile, EndAsk, ProfileInv, ProfileTypes
    <3>2. QED
      BY <1>1, <3>1
  <2>11. QED
    BY <1>1, <2>1, <2>3, <2>4, <2>5, <2>6, <2>7, <2>8, <2>9, <2>10
       DEF ProfileNext, ChangeElsewhere, BeginChange, CommitChange, ChangeSeen, ChangeFails
<1>2. ProfileInv /\ [ProfileNext]_profileVars =>
        [\A r \in Reader : ask'[r].at = "done" /\ ask[r].at # "done"
           => age[ask'[r].key[1]][ask'[r].profile] <= Ttl + CallTime]_profileVars
  BY <1>1
<1>3. QED
  BY <1>2, ProfileInvariance, PTL DEF ProfileSpec, ProfileIsRecent

----------------------------------------------------------------------------
(* Autofill: the preferences hold what was saved last for their category.   *)

AutofillTypes ==
  /\ diet \in KnownDiet
  /\ pref \in [EventCategory -> Wish \cup {Null}]
  /\ saved \in [EventCategory -> Details \cup {Null}]

SavedInv ==
  \A c \in EventCategory : saved[c] # Null =>
    /\ pref[c] # Null /\ saved[c].diet \in KnownDiet /\ pref[c].diet = saved[c].diet
    /\ IF saved[c].limited THEN saved[c].guest = 0 ELSE pref[c].guest = saved[c].guest

AutofillInv == AutofillTypes /\ SavedInv

LEMMA ResolvedTypes ==
  ASSUME AutofillTypes, NEW c \in EventCategory \cup {Null}
  PROVE  Resolve(c).diet \in Diet /\ Resolve(c).guest \in Guests \cup {Null}
<1>1. diet \in Diet
  BY DEF AutofillTypes, Diet
<1>2. CASE c = Null \/ pref[c] = Null
  BY <1>1, <1>2 DEF Resolve
<1>3. CASE c # Null /\ pref[c] # Null
  <2>1. pref[c] \in Wish
    BY <1>3 DEF AutofillTypes
  <2>2. pref[c].diet \in Diet \cup {Null} /\ pref[c].guest \in Guests \cup {Null}
    BY <2>1 DEF Wish
  <2>3. QED
    BY <1>1, <1>3, <2>2 DEF Resolve, Or
<1>4. QED
  BY <1>2, <1>3

LEMMA FilledTypes ==
  ASSUME AutofillTypes, NEW wish \in Wish, NEW c \in EventCategory \cup {Null}, NEW limited \in BOOLEAN
  PROVE  LET d == Filled(wish, c, limited)
         IN  /\ d \in Details /\ d.diet \in Diet /\ d.limited = limited
             /\ d.guest \in Guests /\ (limited => d.guest = 0)
<1>1. Resolve(c).diet \in Diet /\ Resolve(c).guest \in Guests \cup {Null}
  BY ResolvedTypes
<1>2. wish.diet \in Diet \cup {Null} /\ wish.guest \in Guests \cup {Null}
  BY DEF Wish
<1>3. 0 \in Guests
  BY MaxGuestsAssumption DEF Guests
<1>4. Or(wish.diet, Resolve(c).diet) \in Diet
  BY <1>1, <1>2 DEF Or
<1>5. (IF limited THEN 0 ELSE Or(Or(wish.guest, Resolve(c).guest), 0)) \in Guests
  BY <1>1, <1>2, <1>3 DEF Or
<1>6. QED
  BY <1>4, <1>5 DEF Filled, Details

LEMMA UpsertedTypes ==
  ASSUME AutofillTypes, NEW c \in EventCategory, NEW d \in Details, d.diet \in KnownDiet
  PROVE  LET u == Upserted(c, d)
         IN  u \in Wish /\ u.diet = d.diet /\ (~d.limited => u.guest = d.guest)
<1> DEFINE old == IF pref[c] = Null THEN NoWish ELSE pref[c]
<1>1. old.diet \in Diet \cup {Null} /\ old.guest \in Guests \cup {Null}
  <2>1. CASE pref[c] = Null
    BY <2>1 DEF NoWish
  <2>2. CASE pref[c] # Null
    BY <2>2 DEF AutofillTypes, Wish
  <2>3. QED
    BY <2>1, <2>2
<1>2. d.diet \in Diet /\ d.guest \in Guests /\ d.diet # Null
  BY NullAssumption DEF Diet, Details
<1>3. Upserted(c, d) = [diet |-> d.diet, guest |-> IF d.limited THEN old.guest ELSE d.guest]
  BY <1>2 DEF Upserted, Or
<1> HIDE DEF old
<1>4. QED
  BY <1>1, <1>2, <1>3 DEF Wish

LEMMA AutofillStep ==
  ASSUME AutofillInv, [AutofillNext]_autofillVars
  PROVE  AutofillInv'
<1>1. CASE UNCHANGED autofillVars
  BY <1>1 DEF autofillVars, AutofillInv, AutofillTypes, SavedInv
<1>2. ASSUME NEW d \in KnownDiet, EditPreferences(d)  PROVE AutofillInv'
  BY <1>2 DEF EditPreferences, AutofillInv, AutofillTypes, SavedInv
<1>3. ASSUME NEW wish \in Wish, NEW c \in EventCategory \cup {Null}, NEW limited \in BOOLEAN,
             SaveDetails(wish, c, limited)
      PROVE  AutofillInv'
  <2> DEFINE d == Filled(wish, c, limited)
  <2>1. /\ d \in Details /\ d.diet \in Diet /\ d.limited = limited
        /\ d.guest \in Guests /\ (limited => d.guest = 0)
    BY FilledTypes DEF AutofillInv
  <2>2. d.diet \in KnownDiet
    BY <1>3, <2>1, NullAssumption DEF SaveDetails
  <2>3. CASE c = Null
    <3>1. diet' \in KnownDiet /\ UNCHANGED <<pref, saved>>
      BY <1>3, <2>2, <2>3 DEF SaveDetails, Or, AutofillInv, AutofillTypes
    <3>2. QED
      BY <3>1 DEF AutofillInv, AutofillTypes, SavedInv
  <2>4. CASE c # Null
    <3>1. /\ pref' = [pref EXCEPT ![c] = Upserted(c, d)] /\ saved' = [saved EXCEPT ![c] = d]
          /\ diet' = diet /\ c \in EventCategory
      BY <1>3, <2>4 DEF SaveDetails
    <3>2. LET u == Upserted(c, d)
          IN  u \in Wish /\ u.diet = d.diet /\ (~d.limited => u.guest = d.guest)
      BY <2>1, <2>2, <3>1, UpsertedTypes DEF AutofillInv
    <3> DEFINE u == Upserted(c, d)
    <3>3. u \in Wish /\ u.diet = d.diet /\ (~d.limited => u.guest = d.guest) /\ u # Null
      BY <3>2, NullAssumption
    <3> HIDE DEF d, u
    <3>4. QED
      BY <2>1, <2>2, <3>1, <3>3 DEF AutofillInv, AutofillTypes, SavedInv, u
  <2>5. QED
    BY <2>3, <2>4
<1>4. QED
  BY <1>1, <1>2, <1>3 DEF AutofillNext

\* What was saved last for a category is what a registration is filled in with.
THEOREM AutofillIsFaithful == AutofillSpec => []AutofillCarriesOver
<1>1. AutofillInit => AutofillInv
  BY DEF AutofillInit, AutofillInv, AutofillTypes, SavedInv, KnownDiet
<1>2. AutofillInv => AutofillCarriesOver
  <2> SUFFICES ASSUME AutofillInv, NEW c \in EventCategory, saved[c] # Null
               PROVE  Filled(NoWish, c, saved[c].limited) = saved[c]
    BY DEF AutofillCarriesOver
  <2>1. /\ pref[c] # Null /\ c # Null
        /\ saved[c] = [diet |-> saved[c].diet, guest |-> saved[c].guest, limited |-> saved[c].limited]
        /\ saved[c].diet \in KnownDiet /\ saved[c].guest \in Guests /\ saved[c].limited \in BOOLEAN
    BY NullAssumption DEF AutofillInv, AutofillTypes, SavedInv, Details
  <2>2. saved[c].diet # Null /\ saved[c].guest # Null
    BY <2>1, NullAssumption DEF Diet
  <2>3. pref[c].diet = saved[c].diet
        /\ IF saved[c].limited THEN saved[c].guest = 0 ELSE pref[c].guest = saved[c].guest
    BY DEF AutofillInv, SavedInv
  <2>4. Or(NoWish.diet, Resolve(c).diet) = saved[c].diet
    BY <2>1, <2>2, <2>3 DEF NoWish, Resolve, Or
  <2>5. (IF saved[c].limited THEN 0 ELSE Or(Or(NoWish.guest, Resolve(c).guest), 0)) = saved[c].guest
    BY <2>1, <2>2, <2>3 DEF NoWish, Resolve, Or
  <2>6. QED
    BY <2>1, <2>4, <2>5 DEF Filled
<1>3. QED
  BY <1>1, <1>2, AutofillStep, PTL DEF AutofillSpec

----------------------------------------------------------------------------
(* TicketDisplay: a decision; the proof goes through the cases of the view. *)

\* Whatever the clock, the event, the distance and the asker: available is what the
\* holder's check-in makes of it.
THEOREM AvailabilityIsHonest == ViewInit => AvailableMeansCheckin
<1> SUFFICES ASSUME ViewInit, view.away <= view.radius
             PROVE  LET shown == Detail(view)
                    IN  /\ view.own => ListEntry(view) = shown
                        /\ view.own /\ ~view.staff => (shown.available <=> CheckinByHolder(view) = 200)
                        /\ view.answers => (shown.available <=> shown.status = "unused")
                        /\ shown.available /\ ListedAsNoShow(view) => view.now = view.end
                        /\ shown.available => Checkin(view) = 200
  BY DEF AvailableMeansCheckin
<1>1. /\ view.now \in Int /\ view.start \in Int /\ view.end \in Int
      /\ view.column \in {"unused", "used"} /\ view.own \in BOOLEAN /\ view.staff \in BOOLEAN
      /\ view.answers \in BOOLEAN
  BY InstantAssumption DEF ViewInit, View
<1>2. /\ Shown(view).available <=> view.answers /\ Available(view)
      /\ Available(view) <=> view.start <= view.now /\ view.now <= view.end /\ view.column = "unused"
      /\ view.answers => (Shown(view).status = "unused" <=> Available(view))
  <2>1. Available(view) <=> view.start <= view.now /\ view.now <= view.end /\ view.column = "unused"
    BY DEF Available, DuringEvent
  <2>2. DisplayStatus(view) = "unused" <=> Available(view)
    BY <1>1, <2>1 DEF DisplayStatus
  <2>3. CASE view.answers
    BY <2>1, <2>2, <2>3 DEF Shown
  <2>4. CASE ~view.answers
    BY <2>1, <2>4 DEF Shown
  <2>5. QED
    BY <2>3, <2>4
<1>3. Nothing.available = FALSE /\ Nothing.status # "unused"
  BY HiddenAssumption DEF Nothing
<1>4. CASE ~(view.own \/ view.staff)
  BY <1>3, <1>4 DEF Detail
<1>5. CASE view.own \/ view.staff
  <2>1. Detail(view) = Shown(view) /\ (view.own => ListEntry(view) = Shown(view))
    BY <1>5 DEF Detail, ListEntry
  <2>2. view.own /\ ~view.staff => (Shown(view).available <=> CheckinByHolder(view) = 200)
    BY <1>1, <1>2 DEF CheckinByHolder, DuringEvent
  <2>3. view.answers => (Shown(view).available <=> Shown(view).status = "unused")
    BY <1>2
  <2>4. Shown(view).available /\ ListedAsNoShow(view) => view.now = view.end
    BY <1>1, <1>2 DEF ListedAsNoShow
  <2>5. Shown(view).available => Checkin(view) = 200
    <3>1. CASE view.staff
      BY <3>1 DEF Checkin, CheckinByWelfare
    <3>2. CASE ~view.staff
      BY <1>5, <2>2, <3>2, Zenon DEF Checkin
    <3>3. QED
      BY <3>1, <3>2
  <2>6. QED
    BY <2>1, <2>2, <2>3, <2>4, <2>5, Zenon
<1>6. QED
  BY <1>4, <1>5

----------------------------------------------------------------------------
(* Eligibility: a decision again.                                           *)

Refused == {"USER_NOT_FOUND", "FORBIDDEN_ROLE", "USER_LOCKED", "EVENT_NOT_FOUND", "EVENT_DRAFT",
            "REGISTRATION_NOT_OPEN", "REGISTRATION_CLOSED", "EVENT_ENDED", "ALREADY_REGISTERED"}

\* A refusal has a name of its own; without one it is the seats that count.
LEMMA ReasonFacts ==
  ASSUME NEW x
  PROVE  \/ Reason(x) \in Refused
         \/ Reason(x) = "WILL_BE_WAITLIST" /\ SoldOut(x)
         \/ Reason(x) = "OK" /\ ~SoldOut(x)
<1> DEFINE hits == {i \in 1..9 : Refusals(x)[i][2]}
           first == CHOOSE i \in hits : \A j \in hits : i <= j
<1>1. ASSUME NEW i \in 1..9  PROVE Refusals(x)[i][1] \in Refused
  <2>1. i \in {1, 2, 3, 4, 5, 6, 7, 8, 9}
    BY <1>1
  <2>2. QED
    BY <2>1 DEF Refusals, Refused
<1>2. ASSUME hits # {}  PROVE first \in 1..9
  <2>1. \E i \in hits : \A j \in hits : i <= j
    <3> HIDE DEF hits
    <3>1. hits \subseteq 1..9
      BY DEF hits
    <3> SUFFICES ASSUME \A i \in hits : \E j \in hits : j < i
                 PROVE  FALSE
      BY <3>1
    <3>2. 1 \notin hits /\ 2 \notin hits /\ 3 \notin hits
      BY <3>1
    <3>3. 4 \notin hits /\ 5 \notin hits /\ 6 \notin hits
      BY <3>1, <3>2
    <3>4. 7 \notin hits /\ 8 \notin hits /\ 9 \notin hits
      BY <3>1, <3>2, <3>3
    <3>5. PICK i : i \in hits
      BY <1>2
    <3>6. i \in {1, 2, 3, 4, 5, 6, 7, 8, 9}
      BY <3>1, <3>5
    <3>7. QED
      BY <3>2, <3>3, <3>4, <3>5, <3>6
  <2>2. QED
    BY <2>1
<1>3. Reason(x) = IF hits # {} THEN Refusals(x)[first][1]
                  ELSE IF SoldOut(x) THEN "WILL_BE_WAITLIST" ELSE "OK"
  BY DEF Reason
<1> HIDE DEF hits, first
<1>4. QED
  BY <1>1, <1>2, <1>3

\* Whatever the profile, the event, the clock and the table: the two endpoints agree.
THEOREM PreCheckIsHonest == EligibilityInit => PreCheckPredictsPost
<1> SUFFICES ASSUME EligibilityInit
             PROVE  PreCheckPredictsPost
  OBVIOUS
<1> DEFINE x == situation
           e == Received(x)
<1>1. /\ x \in Situation /\ e.limit = x.limit /\ e.confirmed = x.confirmed
      /\ x.confirmed \in Nat /\ (x.limit # NoLimit => x.limit \in Nat)
  BY SeatAssumption DEF EligibilityInit, Situation, Received
<1>2. CASE Forbidden(x)
  BY <1>2 DEF PreCheckPredictsPost, GetEligibility, PostTransaction
<1>3. CASE ~Forbidden(x)
  <2> DEFINE pre  == GetEligibility(x)
             post == PostTransaction(x)
  <2>1. /\ pre.http = 200 /\ pre.reason = Told(Reason(e))
        /\ pre.eligible <=> Eligible(e)
        /\ pre.waitlist <=> Reason(e) = "WILL_BE_WAITLIST"
        /\ Eligible(e) => pre.remaining = Remaining(e)
    BY <1>3 DEF GetEligibility
  <2>2. /\ ~Eligible(e) => post.http = HttpOf(Reason(e)) /\ post.place = Missing
        /\ Eligible(e) => post.http = 201 /\ post.place = Place(e)
    BY <1>3 DEF PostTransaction
  <2>3. SUFFICES /\ pre.eligible <=> post.http = 201
                 /\ pre.waitlist <=> post.place = "waitlist"
                 /\ pre.reason = "OK" <=> post.place = "confirmed"
                 /\ pre.eligible /\ x.limit # NoLimit
                      => (pre.remaining > 0 <=> post.place = "confirmed")
                 /\ pre.reason = "LOCKED" => post.http = 409
    BY <2>1 DEF PreCheckPredictsPost
  <2> HIDE DEF pre, post
  <2>4. CASE Reason(e) \in Refused
    <3>1. ~Eligible(e) /\ pre.reason # "OK" /\ (pre.reason = "LOCKED" => Reason(e) = "USER_LOCKED")
      BY <2>1, <2>4 DEF Eligible, Refused, Told
    <3>2. HttpOf(Reason(e)) # 201 /\ (Reason(e) = "USER_LOCKED" => HttpOf(Reason(e)) = 409)
      BY DEF HttpOf
    <3>3. Reason(e) # "WILL_BE_WAITLIST"
      BY <2>4 DEF Refused
    <3>4. QED
      BY <2>1, <2>2, <3>1, <3>2, <3>3, MissingAssumption
  <2>5. CASE Reason(e) = "WILL_BE_WAITLIST" /\ SoldOut(e)
    <3>1. Eligible(e) /\ pre.reason = "NO_TICKETS" /\ Place(e) = "waitlist"
      BY <1>1, <2>1, <2>5 DEF Eligible, Told, SoldOut, Place
    <3>2. Remaining(e) = 0
      BY <1>1, <2>5 DEF SoldOut, Remaining
    <3>3. QED
      BY <2>1, <2>2, <2>5, <3>1, <3>2
  <2>6. CASE Reason(e) = "OK" /\ ~SoldOut(e)
    <3>1. Eligible(e) /\ pre.reason = "OK" /\ Place(e) = "confirmed"
      BY <1>1, <2>1, <2>6 DEF Eligible, Told, SoldOut, Place
    <3>2. x.limit # NoLimit => Remaining(e) > 0
      BY <1>1, <2>6 DEF SoldOut, Remaining
    <3>3. QED
      BY <2>1, <2>2, <2>6, <3>1, <3>2
  <2>7. QED
    BY <2>4, <2>5, <2>6, ReasonFacts
<1>4. QED
  BY <1>2, <1>3
=============================================================================
