------------------------------- MODULE NoShow -------------------------------
(***************************************************************************)
(* Punishing those who did not come to one event: the transaction service  *)
(* asks the ticket service for the unused tickets of the ended event,      *)
(* picks the confirmed registrations that name one, and asks the account   *)
(* service to punish their users one by one.  Everything else goes on      *)
(* meanwhile, the event's end or not: no date of a registration is tied to *)
(* it, so seats are given and given up, tickets issued, voided and named   *)
(* in their rows, late calls carried out.  A welfare member checks in at   *)
(* any time, a holder before the end; both load the ticket, decide, and    *)
(* save it later.                                                          *)
(***************************************************************************)
EXTENDS Naturals, FiniteSets

CONSTANTS
  Holder,     \* registrations of the event, one per user, with their tickets
  Visit,      \* slots for check-ins
  Runner,     \* slots for runs of punish_no_shows_for_event
  ListLimit,  \* tickets the ticket service lists: 1000
  NoHolder    \* an idle slot

ASSUME ListLimitAssumption == ListLimit \in Nat
ASSUME NoHolderAssumption == NoHolder \notin Holder
ASSUME HolderAssumption == IsFiniteSet(Holder)

VARIABLES
  over,      \* the event's end has passed
  place,     \* per holder: column transactions.status; "waitlist" also before there is a row
  card,      \* per holder: the ticket; "none" before it is issued, "void" after its deletion
  named,     \* holders whose transactions.ticket_id is set
  voids,     \* holders whose cancellation asks for the ticket to be voided
  visit,     \* per slot: the holder whose unused ticket a check-in has loaded
  hunt,      \* per runner: the run, its list and what came of it
  punished,  \* holders whose account was locked for this event
  late,      \* history: holders whose check-in was saved after the end
  moved      \* history: the event was given a later end after it had ended

noShowVars == <<over, place, card, named, voids, visit, hunt, punished, late, moved>>

\* A run's locals; due and excess are history: the no-shows when it asked for its list,
\* and by how many tickets the list fell short.
Hunt == [at : {"idle", "listed", "matched"}, list : SUBSET Holder, todo : SUBSET Holder,
         errors : SUBSET Holder, due : SUBSET Holder, excess : Nat]
NoHunt == [at |-> "idle", list |-> {}, todo |-> {}, errors |-> {}, due |-> {}, excess |-> 0]

NoShowInit ==
  /\ over = FALSE
  /\ place \in [Holder -> {"waitlist", "confirmed"}]
  /\ card = [h \in Holder |-> "none"]
  /\ named = {}
  /\ voids = {}
  /\ visit = [v \in Visit |-> NoHolder]
  /\ hunt = [r \in Runner |-> NoHunt]
  /\ punished = {}
  /\ late = {}
  /\ moved = FALSE

----------------------------------------------------------------------------
(* The registrations and their tickets, before the end and after it.        *)

\* create_registration and _promote_next_waitlist
ConfirmPlace(h) ==
  /\ place[h] = "waitlist"
  /\ place' = [place EXCEPT ![h] = "confirmed"]
  /\ UNCHANGED <<over, card, named, voids, visit, hunt, punished, late, moved>>

\* create_ticket, once for a registration, which may be cancelled by then.
IssueCard(h) ==
  /\ place[h] # "waitlist"
  /\ card[h] = "none"
  /\ card' = [card EXCEPT ![h] = "unused"]
  /\ UNCHANGED <<over, place, named, voids, visit, hunt, punished, late, moved>>

\* The registration gets the ticket's id whenever the answer arrives, if it does.
NameCard(h) ==
  /\ card[h] # "none" /\ h \notin named \cup voids
  /\ named' = named \cup {h}
  /\ UNCHANGED <<over, place, card, voids, visit, hunt, punished, late, moved>>

\* cancel_registration: the row loses the ticket's id, if that was there to be read, ...
CancelPlace(h) ==
  /\ place[h] # "waitlist"
  /\ place' = [place EXCEPT ![h] = "cancelled"]
  /\ \/ h \in named /\ named' = named \ {h} /\ voids' = voids \cup {h}
     \/ UNCHANGED <<named, voids>>
  /\ UNCHANGED <<over, card, visit, hunt, punished, late, moved>>

\* ... and void_ticket may come late or never, and does not see a check-in that is
\* saved after it looked.
VoidCard(h) ==
  /\ h \in voids
  /\ card' = [card EXCEPT ![h] = "void"]
  /\ UNCHANGED <<over, place, named, voids, visit, hunt, punished, late, moved>>

EventEnds ==
  /\ ~over
  /\ over' = TRUE
  /\ UNCHANGED <<place, card, named, voids, visit, hunt, punished, late, moved>>

\* update_event does not look at the dates the event had.
MoveEnd ==
  /\ over
  /\ over' = FALSE
  /\ moved' = TRUE
  /\ UNCHANGED <<place, card, named, voids, visit, hunt, punished, late>>

----------------------------------------------------------------------------
(* checkin and checkin_by_welfare                                           *)

\* The ticket is unused; the holder's own check-in comes before the end.
LoadVisit(v, h, own) ==
  /\ visit[v] = NoHolder
  /\ card[h] = "unused"
  /\ own => ~over
  /\ visit' = [visit EXCEPT ![v] = h]
  /\ UNCHANGED <<over, place, card, named, voids, hunt, punished, late, moved>>

SaveVisit(v) ==
  LET h == visit[v]
  IN  /\ h # NoHolder
      /\ card[h] # "void"
      /\ card' = [card EXCEPT ![h] = "used"]
      /\ late' = IF over THEN late \cup {h} ELSE late
      /\ visit' = [visit EXCEPT ![v] = NoHolder]
      /\ UNCHANGED <<over, place, named, voids, hunt, punished, moved>>

\* Out of range, the event service does not answer, or the ticket is gone.
VisitFails(v) ==
  /\ visit[v] # NoHolder
  /\ visit' = [visit EXCEPT ![v] = NoHolder]
  /\ UNCHANGED <<over, place, card, named, voids, hunt, punished, late, moved>>

----------------------------------------------------------------------------
(* punish_no_shows_for_event                                                *)

Unused == {h \in Holder : card[h] = "unused"}

\* A no-show as the documents have it.
Missed == {h \in named : place[h] = "confirmed" /\ card[h] = "unused"}

\* The run's locals once it has its list, the first page of the unused tickets in no order.
Listed(list) ==
  [at |-> "listed", list |-> list, todo |-> {}, errors |-> {},
   due |-> Missed, excess |-> Cardinality(Unused) - Cardinality(list)]

ListUnused_AnyTime(r) ==
  /\ hunt[r].at = "idle"
  /\ \E list \in SUBSET Unused :
       /\ \/ list = Unused /\ Cardinality(Unused) <= ListLimit
          \/ Cardinality(list) = ListLimit /\ Cardinality(Unused) > ListLimit
       /\ hunt' = [hunt EXCEPT ![r] = Listed(list)]
  /\ UNCHANGED <<over, place, card, named, voids, visit, punished, late, moved>>

\* get_unused_tickets_for_ended_event; if it fails, so does the run.
ListUnused(r) ==
  /\ hunt[r].at = "idle"
  /\ over
  /\ \E list \in SUBSET Unused :
       /\ \/ list = Unused /\ Cardinality(Unused) <= ListLimit
          \/ Cardinality(list) = ListLimit /\ Cardinality(Unused) > ListLimit
       /\ hunt' = [hunt EXCEPT ![r] = Listed(list)]
  /\ UNCHANGED <<over, place, card, named, voids, visit, punished, late, moved>>

\* The confirmed registrations that name a ticket of the list.
MatchPlaces(r) ==
  /\ hunt[r].at = "listed"
  /\ hunt' = [hunt EXCEPT ![r].at = "matched",
       ![r].todo = {h \in hunt[r].list \cap named : place[h] = "confirmed"}]
  /\ UNCHANGED <<over, place, card, named, voids, visit, punished, late, moved>>

PunishHolder(r, h) ==
  /\ h \in hunt[r].todo
  /\ hunt' = [hunt EXCEPT ![r].todo = @ \ {h}]
  /\ punished' = punished \cup {h}
  /\ UNCHANGED <<over, place, card, named, voids, visit, late, moved>>

PunishFails_Passed(r, h) ==
  /\ h \in hunt[r].todo
  /\ hunt' = [hunt EXCEPT ![r].todo = @ \ {h}]
  /\ punished' \in {punished, punished \cup {h}}
  /\ UNCHANGED <<over, place, card, named, voids, visit, late, moved>>

\* An error goes into the result, whether or not the account was locked; the rest goes on.
PunishFails(r, h) ==
  /\ h \in hunt[r].todo
  /\ hunt' = [hunt EXCEPT ![r].todo = @ \ {h}, ![r].errors = @ \cup {h}]
  /\ punished' \in {punished, punished \cup {h}}
  /\ UNCHANGED <<over, place, card, named, voids, visit, late, moved>>

EndRun(r) ==
  /\ hunt[r].at = "matched"
  /\ hunt[r].todo = {}
  /\ hunt' = [hunt EXCEPT ![r] = NoHunt]
  /\ UNCHANGED <<over, place, card, named, voids, visit, punished, late, moved>>

\* The process stops: nothing remembers whom the run has punished already.
RunDies(r) ==
  /\ hunt[r].at # "idle"
  /\ hunt' = [hunt EXCEPT ![r] = NoHunt]
  /\ UNCHANGED <<over, place, card, named, voids, visit, punished, late, moved>>

----------------------------------------------------------------------------
NoShowNext ==
  \/ \E h \in Holder : \/ ConfirmPlace(h) \/ IssueCard(h) \/ NameCard(h)
                        \/ CancelPlace(h) \/ VoidCard(h)
  \/ EventEnds \/ MoveEnd
  \/ \E v \in Visit : \/ \E h \in Holder, own \in BOOLEAN : LoadVisit(v, h, own)
                      \/ SaveVisit(v) \/ VisitFails(v)
  \/ \E r \in Runner : \/ ListUnused(r) \/ MatchPlaces(r) \/ EndRun(r) \/ RunDies(r)
                       \/ \E h \in Holder : PunishHolder(r, h) \/ PunishFails(r, h)

NoShowSpec == NoShowInit /\ [][NoShowNext]_noShowVars

----------------------------------------------------------------------------
(* Properties *)

\* Nobody whose check-in was saved before the end is punished, as long as the end is
\* not moved: neither by a list that was made too soon nor by a later run.
CameNotPunished ==
  ~moved => \A h \in punished : card[h] = "used" => h \in late

\* Who did not come when a run asked for its list and has kept the registration is, when
\* the run ends, punished or among the errors it reports; except for as many as the ticket
\* service's list was too short for.  So it is whatever is issued, named, cancelled or
\* checked in meanwhile and whatever other runs do.  A ticket that was issued, or whose id
\* was written into the registration, after that moment is left to a later run, if any.
EveryNoShowPunished ==
  \A r \in Runner : hunt[r].at = "matched" /\ hunt[r].todo = {} =>
    Cardinality({h \in hunt[r].due : place[h] = "confirmed"} \ (punished \cup hunt[r].errors))
      <= hunt[r].excess
=============================================================================
