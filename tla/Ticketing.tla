----------------------------- MODULE Ticketing -----------------------------
(***************************************************************************)
(* The registrations of one event together with the ticket service: its    *)
(* table tickets, the HTTP calls by which the transaction service issues   *)
(* and voids tickets, the check-ins, and the deletion of the event.        *)
(*                                                                         *)
(* A call lives on when the caller has given up waiting for it (5 s) or    *)
(* has died.  Handlers of the ticket service load rows, decide, and write  *)
(* in a later statement; nothing locks the rows in between.                *)
(***************************************************************************)
EXTENDS Registrations

CONSTANT Desk  \* slots for check-ins

VARIABLES
  row,    \* per ticket id: "absent" before the INSERT, the column status, "deleted"
  for,    \* column transaction_id
  who,    \* column user_id
  issue,  \* per registration: the call that issues its ticket
  void,   \* per worker: the call that voids a ticket, [at, ticket]
  desk,   \* per desk: the unused ticket a check-in has loaded
  purge   \* deletion of the event: "no", "tickets" deleted, "done"

tickets       == <<row, for, who>>
ticketingVars == <<vars, tickets, issue, void, desk, purge>>

Live == {"unused", "used"}

\* at: owed (the caller has another call to make first), sent, looked (no ticket
\* of this registration), clear (no unused ticket of this user), and the outcomes.
Issue == [at   : {"none", "owed", "sent", "looked", "clear", "done", "conflict", "failed"},
          user : User \cup {None},
          ans  : Ticket \cup {None}]

Void == [at : {"none", "sent", "loaded"}, ticket : Ticket \cup {None}]

NoIssue == [at |-> "none", user |-> None, ans |-> None]
NoVoid  == [at |-> "none", ticket |-> None]

TicketingInit ==
  /\ Init
  /\ row = [k \in Ticket |-> "absent"]
  /\ for = [k \in Ticket |-> None]
  /\ who = [k \in Ticket |-> None]
  /\ issue = [t \in Tx |-> NoIssue]
  /\ void = [w \in Worker |-> NoVoid]
  /\ desk = [d \in Desk |-> None]
  /\ purge = "no"

----------------------------------------------------------------------------
(* The transaction service's requests and the calls they make.              *)

\* Steps between two calls.  One void per request slot is under way at a time.
QuietStep(w) ==
  /\ \/ \E u \in User, t \in Tx : BeginRegister(w, u, t)
     \/ DecidePlace(w) \/ InsertConflict(w)
     \/ void[w] = NoVoid /\ \E t \in Tx : ReadForCancel(w, t)
     \/ RefuseCancel(w) \/ AdmitCancel(w) \/ ChooseSuccessor(w)
     \/ LockForWithdrawal(w) \/ CancelRowGone(w) \/ Abort(w)
  /\ UNCHANGED <<tickets, issue, void, desk, purge>>

Call(stage, t) == [at |-> stage, user |-> owner'[t], ans |-> None]

\* A confirmed registration calls issue_ticket.
Register(w) ==
  LET t == req[w].tx
  IN  /\ InsertRow(w)
      /\ issue' = IF req'[w].at = "issuing" THEN [issue EXCEPT ![t] = Call("sent", t)] ELSE issue
      /\ UNCHANGED <<tickets, void, desk, purge>>

\* A cancellation calls void_ticket if it had read a ticket id, then issue_ticket
\* if it promoted somebody.
Cancel(w) ==
  LET s == req[w].next
      k == req[w].held
  IN  /\ CommitCancel(w)
      /\ void' = IF k = None THEN void
                 ELSE [void EXCEPT ![w] = [at |-> "sent", ticket |-> k]]
      /\ issue' = IF s = None THEN issue
                  ELSE [issue EXCEPT ![s] = Call(IF k = None THEN "sent" ELSE "owed", s)]
      /\ UNCHANGED <<tickets, desk, purge>>

\* void_ticket has returned, or 5 s have passed.
GoOn(w) ==
  LET s == req[w].next
  IN  /\ VoidAnswered(w)
      /\ issue' = IF s = None THEN issue ELSE [issue EXCEPT ![s].at = "sent"]
      /\ UNCHANGED <<tickets, void, desk, purge>>

Attach(w) ==
  /\ \E t \in Tx : /\ req[w].tx = t
                   /\ issue[t].at = "done"
                   /\ AttachTicket(w, issue[t].ans)
  /\ UNCHANGED <<tickets, issue, void, desk, purge>>

\* An error status, 409 included; or 5 s have passed; or the row is gone.
GiveUp(w) ==
  /\ IssueFails(w)
  /\ UNCHANGED <<tickets, issue, void, desk, purge>>

----------------------------------------------------------------------------
(* create_ticket                                                            *)

Answer(t, outcome, k) == issue' = [issue EXCEPT ![t].at = outcome, ![t].ans = k]

\* The call is lost, the user is unknown to the account service, or the handler dies.
IssueLost(t) ==
  /\ issue[t].at \in {"sent", "looked", "clear"}
  /\ Answer(t, "failed", None)
  /\ UNCHANGED <<vars, tickets, void, desk, purge>>

LookUp_ByUser(t) ==
  LET mine == {k \in Ticket : row[k] \in Live /\ who[k] = issue[t].user}
  IN  /\ issue[t].at = "sent"
      /\ IF mine = {} THEN Answer(t, "looked", None)
         ELSE \E k \in mine : Answer(t, "done", k)
      /\ UNCHANGED <<vars, tickets, void, desk, purge>>

\* The ticket of this registration, if it has one already, is the answer.
LookUp(t) ==
  LET mine == {k \in Ticket : row[k] \in Live /\ for[k] = t}
  IN  /\ issue[t].at = "sent"
      /\ IF mine = {} THEN Answer(t, "looked", None)
         ELSE \E k \in mine : Answer(t, "done", k)
      /\ UNCHANGED <<vars, tickets, void, desk, purge>>

CheckActive_AnyUser(t) ==
  LET taken == \E k \in Ticket : row[k] = "unused"
  IN  /\ issue[t].at = "looked"
      /\ Answer(t, IF taken THEN "conflict" ELSE "clear", None)
      /\ UNCHANGED <<vars, tickets, void, desk, purge>>

\* 409 TICKET_ALREADY_EXISTS if the user has an unused ticket for the event.
CheckActive(t) ==
  LET taken == \E k \in Ticket : row[k] = "unused" /\ who[k] = issue[t].user
  IN  /\ issue[t].at = "looked"
      /\ Answer(t, IF taken THEN "conflict" ELSE "clear", None)
      /\ UNCHANGED <<vars, tickets, void, desk, purge>>

\* INSERT under a fresh id; transaction_id is unique.
InsertTicket(t, k) ==
  /\ issue[t].at = "clear"
  /\ row[k] = "absent"
  /\ \A l \in Ticket : row[l] \in Live => for[l] # t
  /\ row' = [row EXCEPT ![k] = "unused"]
  /\ for' = [for EXCEPT ![k] = t]
  /\ who' = [who EXCEPT ![k] = issue[t].user]
  /\ Answer(t, "done", k)
  /\ UNCHANGED <<vars, void, desk, purge>>

----------------------------------------------------------------------------
(* void_ticket                                                              *)

\* Lost, no such ticket, or 409 ALREADY_USED: nothing is deleted.
VoidEnds(w) ==
  /\ void[w].at # "none"
  /\ void' = [void EXCEPT ![w] = NoVoid]
  /\ UNCHANGED <<vars, tickets, issue, desk, purge>>

LoadForVoid(w) ==
  /\ void[w].at = "sent"
  /\ row[void[w].ticket] = "unused"
  /\ void' = [void EXCEPT ![w].at = "loaded"]
  /\ UNCHANGED <<vars, tickets, issue, desk, purge>>

DeleteTicket_Soft(w) ==
  /\ void[w].at = "loaded"
  /\ row' = [row EXCEPT ![void[w].ticket] = "voided"]
  /\ void' = [void EXCEPT ![w] = NoVoid]
  /\ UNCHANGED <<vars, for, who, issue, desk, purge>>

DeleteTicket_OfUser(w) ==
  /\ void[w].at = "loaded"
  /\ row' = [k \in Ticket |-> IF row[k] \in Live /\ who[k] = who[void[w].ticket]
                              THEN "deleted" ELSE row[k]]
  /\ void' = [void EXCEPT ![w] = NoVoid]
  /\ UNCHANGED <<vars, for, who, issue, desk, purge>>

\* DELETE by primary key, whatever the row holds by now.
DeleteTicket(w) ==
  /\ void[w].at = "loaded"
  /\ row' = [row EXCEPT ![void[w].ticket] = "deleted"]
  /\ void' = [void EXCEPT ![w] = NoVoid]
  /\ UNCHANGED <<vars, for, who, issue, desk, purge>>

----------------------------------------------------------------------------
(* checkin and checkin_by_welfare                                           *)

\* Only an unused ticket is checked in; a used one changes nothing.
LoadForCheckin(d, k) ==
  /\ desk[d] = None
  /\ row[k] = "unused"
  /\ desk' = [desk EXCEPT ![d] = k]
  /\ UNCHANGED <<vars, tickets, issue, void, purge>>

SaveCheckin_Merge(d) ==
  /\ desk[d] # None
  /\ row' = [row EXCEPT ![desk[d]] = "used"]
  /\ desk' = [desk EXCEPT ![d] = None]
  /\ UNCHANGED <<vars, for, who, issue, void, purge>>

SaveCheckin(d) ==
  /\ desk[d] # None
  /\ row[desk[d]] \in Live
  /\ row' = [row EXCEPT ![desk[d]] = "used"]
  /\ desk' = [desk EXCEPT ![d] = None]
  /\ UNCHANGED <<vars, for, who, issue, void, purge>>

\* Not event time, out of range, the event service does not answer, or the row
\* is gone (StaleDataError).
CheckinFails(d) ==
  /\ desk[d] # None
  /\ desk' = [desk EXCEPT ![d] = None]
  /\ UNCHANGED <<vars, tickets, issue, void, purge>>

----------------------------------------------------------------------------
(* The event service deletes the event: tickets first, then registrations.  *)

PurgeTickets ==
  /\ purge = "no"
  /\ purge' = "tickets"
  /\ row' = [k \in Ticket |-> IF row[k] \in Live THEN "deleted" ELSE row[k]]
  /\ UNCHANGED <<vars, for, who, issue, void, desk>>

PurgeRegistrations ==
  /\ purge = "tickets"
  /\ purge' = "done"
  /\ DeleteEventRegistrations
  /\ UNCHANGED <<tickets, issue, void, desk>>

----------------------------------------------------------------------------
Transactions == \E w \in Worker :
  QuietStep(w) \/ Register(w) \/ Cancel(w) \/ GoOn(w) \/ Attach(w) \/ GiveUp(w)

IssueCalls == \E t \in Tx :
  \/ IssueLost(t) \/ LookUp(t) \/ CheckActive(t)
  \/ \E k \in Ticket : InsertTicket(t, k)

VoidCalls == \E w \in Worker : VoidEnds(w) \/ LoadForVoid(w) \/ DeleteTicket(w)

Checkins == \E d \in Desk :
  \/ \E k \in Ticket : LoadForCheckin(d, k)
  \/ SaveCheckin(d) \/ CheckinFails(d)

KeptNext == Transactions \/ IssueCalls \/ VoidCalls \/ Checkins

TicketingNext == KeptNext \/ PurgeTickets \/ PurgeRegistrations

TicketingSpec == TicketingInit /\ [][TicketingNext]_ticketingVars

\* Nobody deletes the event.
KeptSpec == TicketingInit /\ [][KeptNext]_ticketingVars

----------------------------------------------------------------------------
(* Environments, each of which rules out one kind of overlap.               *)

\* No ticket is being checked in while a void has it loaded.
VoidsApart == \A w \in Worker, d \in Desk : void[w].at = "loaded" => desk[d] # void[w].ticket

ApartSpec == TicketingInit /\ [][KeptNext /\ VoidsApart']_ticketingVars

\* No two calls for tickets of one user are between their check and their INSERT.
ChecksApart ==
  \A t, r \in Tx : t # r /\ issue[t].at = "clear" /\ issue[r].at = "clear"
                   => issue[t].user # issue[r].user

SerialSpec == TicketingInit /\ [][TicketingNext /\ ChecksApart']_ticketingVars

\* The seats and passes these tables stand for: a registration that had a seat is one
\* whose ticket was asked for.
SeatOf(t) == IF status[t] = "confirmed" THEN "held"
             ELSE IF issue[t].at = "none" THEN "none" ELSE "over"

HasTicket(t, s) == \E k \in Ticket : for[k] = t /\ row[k] = s

PassOf(t) == IF HasTicket(t, "unused") THEN "valid"
             ELSE IF HasTicket(t, "used") THEN "used"
             ELSE IF HasTicket(t, "deleted") THEN "void" ELSE "none"

Promise == INSTANCE Passes WITH
  Reg <- Tx, seat <- [t \in Tx |-> SeatOf(t)], pass <- [t \in Tx |-> PassOf(t)],
  removed <- purge # "no"

----------------------------------------------------------------------------
(* Properties *)

\* Columns and calls stay in their domains.
TicketingTypeOK ==
  /\ TypeOK
  /\ row \in [Ticket -> {"absent", "unused", "used", "deleted"}]
  /\ for \in [Ticket -> Tx \cup {None}]
  /\ who \in [Ticket -> User \cup {None}]
  /\ issue \in [Tx -> Issue]
  /\ void \in [Worker -> Void]
  /\ desk \in [Desk -> Ticket \cup {None}]
  /\ purge \in {"no", "tickets", "done"}

\* The ticket a registration names was issued for it and for its user: no late
\* or repeated answer gives anybody somebody else's ticket.  And although a user can
\* have several tickets, no two of them belong to active registrations.
TicketsMatch ==
  /\ \A t \in Tx : ticket[t] # None => for[ticket[t]] = t /\ who[ticket[t]] = owner[t]
  /\ \A k, l \in Ticket :
       k # l /\ row[k] \in Live /\ row[l] \in Live /\ who[k] = who[l]
       => ~(status[for[k]] \in Active /\ status[for[l]] \in Active)

\* The ticket of a confirmed registration is there, unless the event is being
\* deleted: only the cancellation of a registration voids its ticket, however late
\* the call arrives.
SeatKeepsTicket ==
  \A t \in Tx : status[t] = "confirmed" /\ ticket[t] # None /\ purge = "no"
                => row[ticket[t]] \in Live

\* However late or lost the calls are, seats and tickets do what Passes says: one
\* ticket for a registration ever, and none voided but after its seat was given up.
PassesImplemented == Promise!PSpec

\* A registration is refused its ticket (409) only for a ticket of another registration
\* of its user: if it holds a seat, for one that was given up before.
RefusedForLeftover ==
  [][\A t \in Tx : issue[t].at = "looked" /\ issue'[t].at = "conflict" =>
       \E k \in Ticket : /\ row[k] = "unused" /\ who[k] = issue[t].user /\ for[k] # t
                         /\ status[t] = "confirmed" => /\ owner[t] = who[k]
                                                       /\ status[for[k]] \notin Active]_ticketingVars

\* A ticket that was checked in is not voided.
UsedIsKept ==
  [][\A k \in Ticket : row[k] = "used" => row'[k] = "used"]_ticketingVars
=============================================================================
