--------------------------- MODULE TicketingProofs ---------------------------
(* Theorems about Ticketing, for every number of users, registrations,     *)
(* tickets, requests and check-ins.                                        *)
EXTENDS Ticketing, RegistrationsProofs

----------------------------------------------------------------------------
(* The inductive invariant, on top of the one of Registrations.             *)

\* A registration has its ticket issued once, when it gets its seat, and the answer
\* names a ticket that was made for it.
CallInv ==
  \A t \in Tx :
    /\ issue[t].at # "none" => /\ status[t] \in {"confirmed", "cancelled", "deleted"}
                               /\ status[t] # "deleted" => issue[t].user = owner[t]
    /\ issue[t].at = "done" <=> issue[t].ans # None
    /\ issue[t].ans # None => row[issue[t].ans] # "absent" /\ for[issue[t].ans] = t

\* Who has a seat has been asked a ticket for.
AskedInv == \A t \in Tx : status[t] = "confirmed" => issue[t].at # "none"

\* A ticket is the answer to the one call it was made by, and of its user.
MadeInv ==
  \A k \in Ticket : row[k] # "absent" =>
    for[k] \in Tx /\ issue[for[k]].ans = k /\ who[k] = issue[for[k]].user

\* A registration names the ticket its call was answered with.
NamedInv ==
  \A t \in Tx : ticket[t] # None => status[t] # "deleted" /\ issue[t].ans = ticket[t]

\* The successor's ticket is not asked for before the old one was given up.
SuccessorInv ==
  \A w \in Worker : req[w].at = "voiding" /\ req[w].next # None => issue[req[w].next].at = "owed"

\* The ticket a cancellation has read is the one of its registration.
HeldInv ==
  \A w \in Worker : req[w].at \in Cancelling /\ req[w].held # None =>
    row[req[w].held] # "absent" /\ for[req[w].held] = req[w].tx

\* Only tickets of registrations that are over are voided.
VoidInv ==
  \A w \in Worker : void[w].at # "none" =>
    /\ void[w].ticket \in Ticket /\ row[void[w].ticket] # "absent"
    /\ status[for[void[w].ticket]] \in {"cancelled", "deleted"}

\* The ticket of a seat is not deleted, whether the registration names it yet or not.
LiveInv ==
  \A t \in Tx : issue[t].ans # None /\ status[t] = "confirmed" /\ purge = "no"
                => row[issue[t].ans] \in Live

TInv == /\ TicketingTypeOK /\ CallInv /\ AskedInv /\ MadeInv /\ NamedInv
        /\ SuccessorInv /\ HeldInv /\ VoidInv /\ LiveInv

----------------------------------------------------------------------------
\* The steps of Ticketing that change the registrations are those of Registrations.
LEMMA StepIsRegistrations ==
  ASSUME TicketingTypeOK, CallInv, [TicketingNext]_ticketingVars
  PROVE  [Next]_vars
<1>1. CASE UNCHANGED ticketingVars
  BY <1>1 DEF ticketingVars
<1>2. CASE Transactions
  <2>1. PICK w \in Worker :
          QuietStep(w) \/ Register(w) \/ Cancel(w) \/ GoOn(w) \/ Attach(w) \/ GiveUp(w)
    BY <1>2 DEF Transactions
  <2>2. CASE QuietStep(w)
    BY <2>2 DEF QuietStep, Next, RequestStep, Begin, WaitForLock, Continue
  <2>3. CASE Attach(w)
    <3>1. PICK t \in Tx : issue[t].at = "done" /\ AttachTicket(w, issue[t].ans)
      BY <2>3 DEF Attach
    <3>2. issue[t].ans \in Ticket
      BY <3>1 DEF TicketingTypeOK, Issue, CallInv
    <3>3. \E k \in Ticket : AttachTicket(w, k)
      BY <3>1, <3>2
    <3>4. QED
      BY <3>3 DEF Next, RequestStep, Continue
  <2>4. CASE Register(w) \/ Cancel(w) \/ GoOn(w) \/ GiveUp(w)
    BY <2>4 DEF Register, Cancel, GoOn, GiveUp, Next, RequestStep, Continue
  <2>5. QED
    BY <2>1, <2>2, <2>3, <2>4
<1>3. CASE IssueCalls
  BY <1>3 DEF IssueCalls, IssueLost, LookUp, CheckActive, InsertTicket
<1>4. CASE VoidCalls \/ Checkins \/ PurgeTickets
  BY <1>4 DEF VoidCalls, VoidEnds, LoadForVoid, DeleteTicket, Checkins, LoadForCheckin,
              SaveCheckin, CheckinFails, PurgeTickets
<1>5. CASE PurgeRegistrations
  BY <1>5 DEF PurgeRegistrations, Next
<1>6. QED
  BY <1>1, <1>2, <1>3, <1>4, <1>5 DEF TicketingNext, KeptNext

----------------------------------------------------------------------------
\* What a request knows of the ticket it read, across the steps between two calls.
LEMMA QuietEffect ==
  ASSUME IInv, NEW w \in Worker, QuietStep(w) \/ GiveUp(w)
  PROVE  /\ OthersKeep(w) /\ TableKept
         /\ UNCHANGED <<tickets, issue, void, desk, purge>>
         /\ req'[w].at # "voiding"
         /\ req'[w].at \in Cancelling /\ req'[w].held # None =>
              \/ req'[w].tx \in Tx /\ req'[w].held = ticket[req'[w].tx]
              \/ /\ req[w].at \in Cancelling
                 /\ req[w].held = req'[w].held /\ req[w].tx = req'[w].tx
<1> USE DEF Cancelling
<1>1. TypeOK /\ req[w] \in Request
  BY DEF IInv, TypeOK
<1>2. UNCHANGED <<tickets, issue, void, desk, purge>>
  BY DEF QuietStep, GiveUp
<1>3. CASE \/ InsertConflict(w) \/ IssueFails(w) \/ RefuseCancel(w)
           \/ CancelRowGone(w) \/ Abort(w)
  BY <1>1, <1>2, <1>3, GiveUpEffect, IdleFields
<1>4. ASSUME NEW u \in User, NEW t \in Tx, BeginRegister(w, u, t)
      PROVE  OthersKeep(w) /\ TableKept /\ req'[w].at = "eligible"
  BY <1>1, <1>4, BeginRegisterEffect
<1>5. CASE DecidePlace(w)
  BY <1>1, <1>2, <1>5, DecidePlaceEffect
<1>6. ASSUME NEW t \in Tx, ReadForCancel(w, t)
      PROVE  /\ OthersKeep(w) /\ TableKept /\ req'[w].at = "read"
             /\ req'[w].tx \in Tx /\ req'[w].held = ticket[req'[w].tx]
  <2>1. req'[w].tx = t /\ req'[w].held = ticket[t]
    BY <1>1, <1>6 DEF ReadForCancel, TypeOK, Idle
  <2>2. QED
    BY <1>1, <1>6, <2>1, ReadForCancelEffect
<1>7. CASE AdmitCancel(w) \/ ChooseSuccessor(w) \/ LockForWithdrawal(w)
  <2>1. req'[w].held = req[w].held
    <3>1. CASE AdmitCancel(w)
      BY <1>1, <3>1 DEF AdmitCancel, TypeOK, Request
    <3>2. CASE LockForWithdrawal(w)
      BY <1>1, <3>2 DEF LockForWithdrawal, TypeOK, Request
    <3>3. ASSUME NEW h \in Heads,
                 req' = [req EXCEPT ![w] = [@ EXCEPT !.at = "promoting", !.next = h]]
          PROVE  req'[w].held = req[w].held
      BY <1>1, <3>3 DEF TypeOK, Request
    <3>4. QED
      BY <1>7, <3>1, <3>2, <3>3 DEF ChooseSuccessor
  <2>2. QED
    BY <1>1, <1>2, <1>7, <2>1, AdmitCancelEffect, ChooseSuccessorEffect, LockForWithdrawalEffect
<1>8. QED
  BY <1>2, <1>3, <1>4, <1>5, <1>6, <1>7 DEF QuietStep, GiveUp

LEMMA QuietKeeps ==
  ASSUME TInv, IInv, IInv', NEW w \in Worker, QuietStep(w) \/ GiveUp(w)
  PROVE  TInv'
<1> DEFINE Same == UNCHANGED <<status, owner, ticket, tickets, issue, void, desk, purge>>
<1>1. Same
  BY QuietEffect DEF TableKept
<1>2. TicketingTypeOK'
  BY <1>1 DEF TInv, IInv, TicketingTypeOK, tickets
<1>3. (CallInv /\ AskedInv /\ MadeInv /\ NamedInv /\ VoidInv /\ LiveInv)'
  BY <1>1 DEF TInv, CallInv, AskedInv, MadeInv, NamedInv, VoidInv, LiveInv, tickets
<1>4. SuccessorInv'
  BY <1>1, QuietEffect DEF TInv, SuccessorInv, OthersKeep
<1>5. HeldInv'
  <2>1. ASSUME NEW v \in Worker, req'[v].at \in Cancelling, req'[v].held # None
        PROVE  row[req'[v].held] # "absent" /\ for[req'[v].held] = req'[v].tx
    <3>1. CASE req[v].at \in Cancelling /\ req[v].held = req'[v].held /\ req[v].tx = req'[v].tx
      BY <2>1, <3>1 DEF TInv, HeldInv
    <3>2. CASE req'[v].tx \in Tx /\ req'[v].held = ticket[req'[v].tx]
      BY <2>1, <3>2 DEF TInv, NamedInv, CallInv
    <3>3. QED
      BY <2>1, <3>1, <3>2, QuietEffect DEF OthersKeep
  <2>2. QED
    BY <1>1, <2>1 DEF HeldInv, tickets
<1>6. QED
  BY <1>2, <1>3, <1>4, <1>5 DEF TInv

----------------------------------------------------------------------------
\* A row's status does not go back, and its user stays while it is there.
LEMMA RowsMove ==
  ASSUME IInv, [Next]_vars, NEW t \in Tx
  PROVE  /\ status[t] = "confirmed" => status'[t] \in {"confirmed", "cancelled", "deleted"}
         /\ status[t] \in {"cancelled", "deleted"} => status'[t] \in {"cancelled", "deleted"}
         /\ status[t] = "deleted" => status'[t] = "deleted"
         /\ status'[t] = "confirmed" => status[t] \in {"absent", "waitlist", "confirmed"}
  BY StatusChange DEF IInv

\* The INSERT of a registration, and the call for its ticket if it got a seat.
LEMMA RegisterKeeps ==
  ASSUME TInv, IInv, IInv', NEW w \in Worker, Register(w)
  PROVE  TInv'
<1> DEFINE t == req[w].tx
<1>1. TypeOK /\ TypeOK' /\ RequestInv
  BY DEF IInv
<1>2. InsertRow(w) /\ UNCHANGED <<tickets, void, desk, purge>>
  BY DEF Register
<1>3. t \in Tx /\ status[t] = "absent" /\ status'[t] \in {"confirmed", "waitlist"}
  BY <1>1, <1>2, InsertRowEffect DEF RequestInv
<1>4. /\ ticket' = ticket /\ owner'[t] \in User \cup {None}
      /\ \A r \in Tx : r # t => status'[r] = status[r] /\ owner'[r] = owner[r]
  BY <1>1, <1>2, <1>3, InsertRowEffect DEF TypeOK
<1>5. /\ issue[t].at = "none" /\ issue[t].ans = None
      /\ issue' = issue \/ /\ status'[t] = "confirmed"
                           /\ issue' = [issue EXCEPT ![t] = [at |-> "sent", user |-> owner'[t],
                                                             ans |-> None]]
  <2>1. issue[t].at = "none" /\ issue[t].ans = None
    BY <1>3 DEF TInv, CallInv
  <2>2. req'[w].at = "issuing" => status'[t] = "confirmed"
    BY <1>1, <1>2, <1>3, InsertRowEffect, IssuingFields, IdleFields
  <2>3. Call("sent", t) = [at |-> "sent", user |-> owner'[t], ans |-> None]
    BY DEF Call
  <2>4. QED
    BY <2>1, <2>2, <2>3 DEF Register
<1>6. \A r \in Tx : r # t => issue'[r] = issue[r]
  BY <1>3, <1>5 DEF TInv, TicketingTypeOK
<1>7. issue' \in [Tx -> Issue]
  <2>1. [at |-> "sent", user |-> owner'[t], ans |-> None] \in Issue
    BY <1>4 DEF Issue
  <2>2. QED
    BY <1>3, <1>5, <2>1 DEF TInv, TicketingTypeOK
<1>8. TicketingTypeOK'
  BY <1>1, <1>2, <1>7 DEF TInv, TicketingTypeOK, tickets
<1>9. /\ issue'[t].ans = None
      /\ issue'[t].at = "none" \/ /\ issue'[t].at = "sent" /\ status'[t] = "confirmed"
                                  /\ issue'[t].user = owner'[t]
      /\ status'[t] = "confirmed" => issue'[t].at # "none"
  <2>1. status'[t] = "confirmed" => req'[w].at = "issuing"
    <3>1. status'[t] = "confirmed" => req[w].slot = 0
      BY <1>1, <1>2, <1>3, InsertRowEffect
    <3>2. req'[w] = Issuing(IF req[w].slot = 0 THEN t ELSE None)
      BY <1>1, <1>2, InsertRowEffect
    <3>3. Issuing(t).at = "issuing"
      BY <1>3, IssuingFields, NoneAssumption
    <3>4. QED
      BY <3>1, <3>2, <3>3
  <2>2. status'[t] = "confirmed" => issue' = [issue EXCEPT ![t] = Call("sent", t)]
    BY <2>1 DEF Register
  <2>3. Call("sent", t).at = "sent"
    BY DEF Call
  <2>4. QED
    BY <1>3, <1>5, <2>2, <2>3 DEF TInv, TicketingTypeOK
<1>10. CallInv'
  <2>1. ASSUME NEW r \in Tx
        PROVE  /\ issue'[r].at # "none" =>
                    /\ status'[r] \in {"confirmed", "cancelled", "deleted"}
                    /\ status'[r] # "deleted" => issue'[r].user = owner'[r]
               /\ issue'[r].at = "done" <=> issue'[r].ans # None
               /\ issue'[r].ans # None => row[issue'[r].ans] # "absent" /\ for[issue'[r].ans] = r
    BY <1>4, <1>6, <1>9 DEF TInv, CallInv
  <2>2. QED
    BY <1>2, <2>1 DEF CallInv, tickets
<1>11. MadeInv' /\ AskedInv'
  <2>1. ASSUME NEW k \in Ticket, row[k] # "absent"
        PROVE  for[k] \in Tx /\ for[k] # t
    BY <1>5, <2>1, NoneAssumption DEF TInv, MadeInv
  <2>2. MadeInv'
    BY <1>2, <1>6, <2>1 DEF TInv, MadeInv, tickets
  <2>3. QED
    BY <1>4, <1>6, <1>9, <2>2 DEF TInv, AskedInv
<1>12. NamedInv'
  <2>1. ticket[t] = None
    BY <1>3, <1>5 DEF TInv, NamedInv
  <2>2. QED
    BY <1>4, <1>6, <2>1 DEF TInv, NamedInv
<1>13. req'[w].at \notin Cancelling \cup {"voiding"}
  <2>1. \A x : Issuing(x).at \in {"idle", "issuing"}
    BY DEF Issuing, Idle
  <2>2. QED
    BY <1>1, <1>2, <2>1, InsertRowEffect DEF Cancelling
<1>14. SuccessorInv'
  <2>1. ASSUME NEW v \in Worker, req'[v].at = "voiding", req'[v].next # None
        PROVE  issue'[req'[v].next].at = "owed"
    <3>1. req'[v] = req[v] /\ req[v].next \in Tx
      BY <1>1, <1>2, <1>13, <2>1, InsertRowEffect, RequestTypes DEF OthersKeep
    <3>2. req[v].next # t
      BY <1>5, <2>1, <3>1 DEF TInv, SuccessorInv
    <3>3. QED
      BY <1>6, <2>1, <3>1, <3>2 DEF TInv, SuccessorInv
  <2>2. QED
    BY <2>1 DEF SuccessorInv
<1>15. HeldInv'
  BY <1>1, <1>2, <1>13, InsertRowEffect DEF TInv, HeldInv, OthersKeep, tickets
<1>16. VoidInv'
  <2>1. ASSUME NEW v \in Worker, void[v].at # "none"
        PROVE  for[void[v].ticket] \in Tx /\ for[void[v].ticket] # t
    BY <1>3, <2>1 DEF TInv, VoidInv, MadeInv
  <2>2. QED
    BY <1>2, <1>4, <2>1 DEF TInv, VoidInv, tickets
<1>17. LiveInv'
  BY <1>2, <1>4, <1>6, <1>9 DEF TInv, LiveInv, tickets
<1>18. QED
  BY <1>8, <1>10, <1>11, <1>12, <1>14, <1>15, <1>16, <1>17 DEF TInv

----------------------------------------------------------------------------
\* A cancellation's commit: its row, its successor, and the calls it begins.
LEMMA CancelKeeps ==
  ASSUME TInv, IInv, IInv', NEW w \in Worker, Cancel(w)
  PROVE  TInv'
<1> DEFINE t == req[w].tx
           s == req[w].next
           k == req[w].held
<1>1. /\ TypeOK /\ TypeOK' /\ RequestInv /\ PlaceInv /\ OwedInv
      /\ \A r \in Tx : r \notin {t, s} => status'[r] = status[r]
  BY CommitCancelEffect DEF IInv, Cancel
<1>2. CommitCancel(w) /\ UNCHANGED <<tickets, desk, purge>>
  BY DEF Cancel
<1>3. /\ t \in Tx /\ status[t] # "absent" /\ status[t] # "deleted" /\ status'[t] = "cancelled"
      /\ req[w].at \in Cancelling /\ k \in Ticket \cup {None} /\ s \in Tx \cup {None}
      /\ owner' = owner
  BY <1>1, <1>2, CommitCancelEffect DEF RequestInv, Cancelling, TypeOK, Request
<1>4. s # None => /\ s \in Tx /\ status[s] = "waitlist"
                  /\ s # t => status'[s] = "confirmed"
                  /\ issue[s].at = "none" /\ issue[s].ans = None
  <2>1. s # None => s \in Tx /\ status[s] = "waitlist"
    BY <1>1, <1>2, SuccessorWaits DEF Waiting
  <2>2. s # None /\ s # t => status'[s] = "confirmed"
    BY <1>1, <1>2, <2>1, CommitCancelEffect
  <2>3. QED
    BY <2>1, <2>2 DEF TInv, CallInv
<1>5. /\ \A r \in Tx : r # s => issue'[r] = issue[r]
      /\ s # None => /\ issue'[s].at = IF k = None THEN "sent" ELSE "owed"
                     /\ issue'[s].user = owner'[s] /\ issue'[s].ans = None
      /\ issue' \in [Tx -> Issue]
  <2>1. issue \in [Tx -> Issue]
    BY DEF TInv, TicketingTypeOK
  <2>2. CASE s = None
    BY <1>3, <2>1, <2>2, NoneAssumption DEF Cancel
  <2>3. CASE s # None
    <3> DEFINE stage == IF k = None THEN "sent" ELSE "owed"
    <3>1. /\ issue' = [issue EXCEPT ![s] = Call(stage, s)]
          /\ Call(stage, s) = [at |-> stage, user |-> owner'[s], ans |-> None]
      BY <2>3 DEF Cancel, Call
    <3>2. stage \in {"sent", "owed"} /\ owner'[s] \in User \cup {None}
      BY <1>1, <1>4, <2>3 DEF TypeOK
    <3>3. stage = IF k = None THEN "sent" ELSE "owed"
      OBVIOUS
    <3> HIDE DEF stage
    <3>4. Call(stage, s) \in Issue
      BY <3>1, <3>2 DEF Issue
    <3>5. QED
      BY <1>4, <2>1, <2>3, <3>1, <3>3, <3>4
  <2>4. QED
    BY <2>2, <2>3
<1>6. /\ void' \in [Worker -> Void]
      /\ \A v \in Worker : v # w => void'[v] = void[v]
      /\ IF k = None THEN void'[w] = void[w] ELSE void'[w].at = "sent" /\ void'[w].ticket = k
  <2>1. [at |-> "sent", ticket |-> k] \in Void
    BY <1>3 DEF Void
  <2>2. QED
    BY <2>1 DEF Cancel, TInv, TicketingTypeOK
<1>7. TicketingTypeOK'
  BY <1>1, <1>2, <1>5, <1>6 DEF TInv, TicketingTypeOK, tickets
<1>8. CallInv'
  <2>1. ASSUME NEW r \in Tx
        PROVE  /\ issue'[r].at # "none" =>
                    /\ status'[r] \in {"confirmed", "cancelled", "deleted"}
                    /\ status'[r] # "deleted" => issue'[r].user = owner'[r]
               /\ issue'[r].at = "done" <=> issue'[r].ans # None
               /\ issue'[r].ans # None => row[issue'[r].ans] # "absent" /\ for[issue'[r].ans] = r
    <3>1. CASE r = s
      BY <1>3, <1>4, <1>5, <3>1, NoneAssumption
    <3>2. CASE r # s
      BY <1>1, <1>3, <1>5, <3>2 DEF TInv, CallInv
    <3>3. QED
      BY <3>1, <3>2
  <2>2. QED
    BY <1>2, <2>1 DEF CallInv, tickets
<1>9. MadeInv' /\ AskedInv'
  <2>1. ASSUME NEW l \in Ticket, row[l] # "absent"
        PROVE  for[l] \in Tx /\ for[l] # s
    BY <1>4, <2>1, NoneAssumption DEF TInv, MadeInv
  <2>2. MadeInv'
    BY <1>2, <1>5, <2>1 DEF TInv, MadeInv, tickets
  <2>3. AskedInv'
    BY <1>1, <1>3, <1>4, <1>5, NoneAssumption DEF TInv, AskedInv
  <2>4. QED
    BY <2>2, <2>3
<1>10. NamedInv'
  <2>1. ASSUME NEW r \in Tx, ticket'[r] # None
        PROVE  status'[r] # "deleted" /\ issue'[r].ans = ticket'[r]
    <3>1. ticket[r] # None /\ ticket'[r] = ticket[r]
      BY <1>1, <1>2, <2>1, CommitCancelEffect
    <3>2. r # s
      BY <1>4, <3>1, NoneAssumption DEF TInv, NamedInv
    <3>3. QED
      BY <1>1, <1>3, <1>5, <3>1, <3>2 DEF TInv, NamedInv
  <2>2. QED
    BY <2>1 DEF NamedInv
<1>11. /\ req'[w].at \notin Cancelling
       /\ req'[w].at = "voiding" => k # None /\ req'[w].next = s
  <2>1. \A x : Issuing(x).at \in {"idle", "issuing"}
    BY DEF Issuing, Idle
  <2>2. k = None => req'[w] = Issuing(s)
    BY <1>1, <1>2 DEF CommitCancel, TypeOK
  <2>3. QED
    BY <1>1, <1>2, <2>1, <2>2, CommitCancelEffect DEF Cancelling
<1>12. SuccessorInv'
  <2>1. ASSUME NEW v \in Worker, req'[v].at = "voiding", req'[v].next # None
        PROVE  issue'[req'[v].next].at = "owed"
    <3>1. CASE v = w
      BY <1>5, <1>11, <2>1, <3>1
    <3>2. CASE v # w
      <4>1. req'[v] = req[v] /\ req[v].next \in Tx
        BY <1>1, <1>2, <2>1, <3>2, CommitCancelEffect, RequestTypes DEF OthersKeep
      <4>2. issue[req[v].next].at = "owed"
        BY <2>1, <4>1 DEF TInv, SuccessorInv
      <4>3. req[v].next # s
        BY <1>4, <2>1, <4>1, <4>2
      <4>4. QED
        BY <1>5, <4>1, <4>2, <4>3
    <3>3. QED
      BY <3>1, <3>2
  <2>2. QED
    BY <2>1 DEF SuccessorInv
<1>13. HeldInv'
  BY <1>1, <1>2, <1>11, CommitCancelEffect DEF TInv, HeldInv, OthersKeep, tickets
<1>14. VoidInv'
  <2>1. ASSUME NEW v \in Worker, void'[v].at # "none"
        PROVE  /\ void'[v].ticket \in Ticket /\ row[void'[v].ticket] # "absent"
               /\ status'[for[void'[v].ticket]] \in {"cancelled", "deleted"}
    <3>1. CASE v = w /\ k # None
      BY <1>3, <1>6, <3>1 DEF TInv, HeldInv
    <3>2. CASE ~(v = w /\ k # None)
      <4>1. void'[v] = void[v]
        BY <1>6, <3>2
      <4>2. /\ void[v].ticket \in Ticket /\ row[void[v].ticket] # "absent"
            /\ status[for[void[v].ticket]] \in {"cancelled", "deleted"}
            /\ for[void[v].ticket] \in Tx
        BY <2>1, <4>1 DEF TInv, VoidInv, MadeInv
      <4>3. for[void[v].ticket] # s
        BY <1>4, <4>2, NoneAssumption
      <4>4. QED
        BY <1>1, <1>3, <4>1, <4>2, <4>3
    <3>3. QED
      BY <3>1, <3>2
  <2>2. QED
    BY <1>2, <2>1 DEF VoidInv, tickets
<1>15. LiveInv'
  <2>1. ASSUME NEW r \in Tx, issue'[r].ans # None, status'[r] = "confirmed", purge = "no"
        PROVE  row[issue'[r].ans] \in Live
    <3>1. r # s /\ r # t
      BY <1>3, <1>5, <2>1, NoneAssumption
    <3>2. QED
      BY <1>1, <1>5, <2>1, <3>1 DEF TInv, LiveInv
  <2>2. QED
    BY <1>2, <2>1 DEF LiveInv, tickets
<1>16. QED
  BY <1>7, <1>8, <1>9, <1>10, <1>12, <1>13, <1>14, <1>15 DEF TInv

----------------------------------------------------------------------------
\* A request goes on to its successor's ticket.
LEMMA GoOnKeeps ==
  ASSUME TInv, IInv, IInv', NEW w \in Worker, GoOn(w)
  PROVE  TInv'
<1> DEFINE s == req[w].next
<1>1. TypeOK /\ TypeOK' /\ OwedInv
  BY DEF IInv
<1>2. VoidAnswered(w) /\ UNCHANGED <<tickets, void, desk, purge>>
  BY DEF GoOn
<1>3. /\ OthersKeep(w) /\ TableKept
      /\ req[w].at = "voiding" /\ s \in Tx \cup {None} /\ req'[w] = Issuing(s)
  BY <1>1, <1>2, VoidAnsweredEffect
<1>4. s # None => issue[s].at = "owed" /\ issue[s].ans = None
  BY <1>3 DEF TInv, SuccessorInv, CallInv
<1>5. /\ issue' \in [Tx -> Issue]
      /\ \A r \in Tx : r # s => issue'[r] = issue[r]
      /\ s # None => /\ issue'[s].at = "sent"
                     /\ issue'[s].user = issue[s].user /\ issue'[s].ans = None
  <2>1. issue \in [Tx -> Issue]
    BY DEF TInv, TicketingTypeOK
  <2>2. CASE s = None
    BY <2>1, <2>2, NoneAssumption DEF GoOn
  <2>3. CASE s # None
    <3>1. issue' = [issue EXCEPT ![s].at = "sent"]
      BY <2>3 DEF GoOn
    <3>2. QED
      BY <1>3, <1>4, <2>1, <2>3, <3>1 DEF Issue
  <2>4. QED
    BY <2>2, <2>3
<1>6. TicketingTypeOK'
  BY <1>1, <1>2, <1>5 DEF TInv, TicketingTypeOK, tickets
<1>7. CallInv'
  <2>1. ASSUME NEW r \in Tx
        PROVE  /\ issue'[r].at # "none" =>
                    /\ status[r] \in {"confirmed", "cancelled", "deleted"}
                    /\ status[r] # "deleted" => issue'[r].user = owner[r]
               /\ issue'[r].at = "done" <=> issue'[r].ans # None
               /\ issue'[r].ans # None => row[issue'[r].ans] # "absent" /\ for[issue'[r].ans] = r
    <3>1. CASE r = s
      BY <1>4, <1>5, <3>1, NoneAssumption DEF TInv, CallInv
    <3>2. CASE r # s
      BY <1>5, <3>2 DEF TInv, CallInv
    <3>3. QED
      BY <3>1, <3>2
  <2>2. QED
    BY <1>2, <1>3, <2>1 DEF CallInv, tickets, TableKept
<1>8. MadeInv' /\ AskedInv'
  BY <1>2, <1>3, <1>4, <1>5, NoneAssumption DEF TInv, MadeInv, AskedInv, tickets, TableKept
<1>9. NamedInv' /\ LiveInv'
  BY <1>2, <1>3, <1>4, <1>5, NoneAssumption DEF TInv, NamedInv, LiveInv, tickets, TableKept
<1>10. req'[w].at \notin Cancelling \cup {"voiding"}
  BY <1>3 DEF Issuing, Idle, Cancelling
<1>11. SuccessorInv'
  <2>1. ASSUME NEW v \in Worker, req'[v].at = "voiding", req'[v].next # None
        PROVE  issue'[req'[v].next].at = "owed"
    <3>1. v # w /\ req'[v] = req[v] /\ req[v].next \in Tx
      BY <1>1, <1>3, <1>10, <2>1, RequestTypes DEF OthersKeep
    <3>2. req[v].next # s
      BY <1>1, <1>3, <2>1, <3>1 DEF OwedInv, Owes
    <3>3. QED
      BY <1>5, <2>1, <3>1, <3>2 DEF TInv, SuccessorInv
  <2>2. QED
    BY <2>1 DEF SuccessorInv
<1>12. HeldInv' /\ VoidInv'
  BY <1>2, <1>3, <1>10 DEF TInv, HeldInv, VoidInv, OthersKeep, TableKept, tickets
<1>13. QED
  BY <1>6, <1>7, <1>8, <1>9, <1>11, <1>12 DEF TInv

\* The ticket's id is written into the row.
LEMMA AttachKeeps ==
  ASSUME TInv, IInv, IInv', NEW w \in Worker, Attach(w)
  PROVE  TInv'
<1>1. TypeOK /\ TypeOK' /\ UNCHANGED <<tickets, issue, void, desk, purge>>
  BY DEF IInv, Attach
<1>2. PICK t \in Tx : req[w].tx = t /\ issue[t].at = "done" /\ AttachTicket(w, issue[t].ans)
  BY DEF Attach
<1>3. issue[t].ans \in Ticket
  BY <1>2 DEF TInv, TicketingTypeOK, CallInv, Issue
<1>4. /\ OthersKeep(w) /\ req'[w] = Idle
      /\ status[t] # "deleted" /\ status' = status /\ owner' = owner
      /\ ticket' = [ticket EXCEPT ![t] = issue[t].ans]
  BY <1>1, <1>2, <1>3, AttachTicketEffect
<1>5. (TicketingTypeOK /\ CallInv /\ AskedInv /\ MadeInv /\ VoidInv /\ LiveInv)'
  BY <1>1, <1>4 DEF TInv, TicketingTypeOK, CallInv, AskedInv, MadeInv, VoidInv, LiveInv, tickets
<1>6. NamedInv'
  BY <1>1, <1>2, <1>4 DEF TInv, NamedInv, TypeOK
<1>7. SuccessorInv' /\ HeldInv'
  BY <1>1, <1>4, IdleFields DEF TInv, SuccessorInv, HeldInv, OthersKeep, Cancelling, tickets
<1>8. QED
  BY <1>5, <1>6, <1>7 DEF TInv

----------------------------------------------------------------------------
\* The call for a ticket, up to its answer.
LEMMA IssueKeeps ==
  ASSUME TInv, IInv, IInv', IssueCalls
  PROVE  TInv'
<1>1. /\ UNCHANGED <<vars, void, desk, purge>>
      /\ issue \in [Tx -> Issue] /\ row \in [Ticket -> {"absent", "unused", "used", "deleted"}]
      /\ for \in [Ticket -> Tx \cup {None}] /\ who \in [Ticket -> User \cup {None}]
  BY DEF IssueCalls, IssueLost, LookUp, CheckActive, InsertTicket, TInv, TicketingTypeOK
<1>2. PICK t \in Tx : \/ IssueLost(t) \/ LookUp(t) \/ CheckActive(t)
                      \/ \E k \in Ticket : InsertTicket(t, k)
  BY DEF IssueCalls
<1>3. issue[t].at \in {"sent", "looked", "clear"} /\ issue[t].ans = None
  BY <1>2 DEF IssueLost, LookUp, CheckActive, InsertTicket, TInv, CallInv
<1>4. ticket[t] = None
  BY <1>3 DEF TInv, NamedInv
\* What the step does to the call and, if the ticket is made, to the table.
<1> DEFINE Answered(outcome, k) == issue' = [issue EXCEPT ![t].at = outcome, ![t].ans = k]
           Made(k) == /\ row' = [row EXCEPT ![k] = "unused"]
                      /\ for' = [for EXCEPT ![k] = t]
                      /\ who' = [who EXCEPT ![k] = issue[t].user]
<1>5. \/ /\ tickets' = tickets
         /\ \E o \in {"failed", "looked", "conflict", "clear"} : Answered(o, None)
      \/ \E k \in Ticket : row[k] = "absent" /\ Made(k) /\ Answered("done", k)
  <2>1. CASE IssueLost(t)
    BY <2>1 DEF IssueLost, Answer
  <2>2. CASE LookUp(t)
    <3>1. \A k \in Ticket : ~(row[k] \in Live /\ for[k] = t)
      BY <1>3, NoneAssumption DEF TInv, MadeInv, Live
    <3>2. QED
      BY <2>2, <3>1 DEF LookUp, Answer
  <2>3. CASE CheckActive(t)
    BY <2>3 DEF CheckActive, Answer
  <2>4. CASE \E k \in Ticket : InsertTicket(t, k)
    BY <2>4 DEF InsertTicket, Answer
  <2>5. QED
    BY <1>2, <2>1, <2>2, <2>3, <2>4
<1>6. \A r \in Tx : r # t => issue'[r] = issue[r]
  BY <1>1, <1>5
<1>7. /\ issue' \in [Tx -> Issue] /\ issue'[t].user = issue[t].user
      /\ issue'[t].at \notin {"none", "owed"}
      /\ issue'[t].at = "done" <=> issue'[t].ans # None
      /\ issue'[t].ans # None => row'[issue'[t].ans] \in Live /\ for'[issue'[t].ans] = t
  <2> USE DEF Issue
  <2>1. ASSUME NEW o \in {"failed", "looked", "conflict", "clear"}, Answered(o, None)
        PROVE  /\ issue' \in [Tx -> Issue] /\ issue'[t].user = issue[t].user
               /\ issue'[t].at = o /\ issue'[t].ans = None
    BY <1>1, <2>1
  <2>2. ASSUME NEW k \in Ticket, Answered("done", k)
        PROVE  /\ issue' \in [Tx -> Issue] /\ issue'[t].user = issue[t].user
               /\ issue'[t].at = "done" /\ issue'[t].ans = k /\ k # None
    BY <1>1, <2>2, NoneAssumption
  <2>3. ASSUME NEW k \in Ticket, Made(k)
        PROVE  row'[k] \in Live /\ for'[k] = t
    BY <1>1, <2>3 DEF Live
  <2>4. QED
    BY <1>5, <2>1, <2>2, <2>3 DEF tickets
<1>8. /\ row' \in [Ticket -> {"absent", "unused", "used", "deleted"}]
      /\ for' \in [Ticket -> Tx \cup {None}] /\ who' \in [Ticket -> User \cup {None}]
      /\ \A l \in Ticket :
           /\ row[l] # "absent" => row'[l] = row[l] /\ for'[l] = for[l] /\ who'[l] = who[l]
           /\ row[l] = "absent" /\ row'[l] # "absent" =>
                for'[l] = t /\ who'[l] = issue[t].user /\ issue'[t].ans = l
  <2>1. CASE tickets' = tickets
    BY <1>1, <2>1 DEF tickets
  <2>2. CASE \E k \in Ticket : row[k] = "absent" /\ Made(k) /\ Answered("done", k)
    <3>1. issue[t].user \in User \cup {None}
      BY <1>1 DEF Issue
    <3>2. PICK k \in Ticket : row[k] = "absent" /\ Made(k) /\ Answered("done", k)
      BY <2>2
    <3>3. issue'[t].ans = k
      BY <1>1, <3>2 DEF Issue
    <3>4. QED
      BY <1>1, <3>1, <3>2, <3>3
  <2>3. QED
    BY <1>5, <2>1, <2>2
<1> HIDE DEF Answered, Made
<1>9. TicketingTypeOK'
  BY <1>1, <1>7, <1>8 DEF IInv, TInv, TicketingTypeOK
<1>10. CallInv'
  <2>1. ASSUME NEW r \in Tx
        PROVE  /\ issue'[r].at # "none" =>
                    /\ status[r] \in {"confirmed", "cancelled", "deleted"}
                    /\ status[r] # "deleted" => issue'[r].user = owner[r]
               /\ issue'[r].at = "done" <=> issue'[r].ans # None
               /\ issue'[r].ans # None => row'[issue'[r].ans] # "absent" /\ for'[issue'[r].ans] = r
    <3>1. CASE r = t
      BY <1>3, <1>7, <3>1 DEF TInv, CallInv, Live
    <3>2. CASE r # t
      <4>1. issue[r].ans \in Ticket \cup {None}
        BY <1>1 DEF Issue
      <4>2. QED
        BY <1>6, <1>8, <3>2, <4>1 DEF TInv, CallInv
    <3>3. QED
      BY <3>1, <3>2
  <2>2. QED
    BY <1>1, <2>1 DEF CallInv, vars
<1>11. MadeInv' /\ AskedInv'
  <2>1. ASSUME NEW l \in Ticket, row'[l] # "absent"
        PROVE  for'[l] \in Tx /\ issue'[for'[l]].ans = l /\ who'[l] = issue'[for'[l]].user
    <3>1. CASE row[l] = "absent"
      BY <1>7, <1>8, <2>1, <3>1
    <3>2. CASE row[l] # "absent"
      <4>1. for[l] # t
        BY <1>3, <3>2, NoneAssumption DEF TInv, MadeInv
      <4>2. QED
        BY <1>6, <1>8, <3>2, <4>1 DEF TInv, MadeInv
    <3>3. QED
      BY <3>1, <3>2
  <2>2. AskedInv'
    BY <1>1, <1>6, <1>7 DEF TInv, AskedInv, vars
  <2>3. QED
    BY <2>1, <2>2 DEF MadeInv
<1>12. NamedInv'
  BY <1>1, <1>4, <1>6 DEF TInv, NamedInv, vars
<1>13. SuccessorInv'
  <2>1. ASSUME NEW v \in Worker, req[v].at = "voiding", req[v].next # None
        PROVE  issue'[req[v].next].at = "owed"
    <3>1. issue[req[v].next].at = "owed" /\ req[v].next \in Tx
      BY <2>1, RequestTypes DEF IInv, TInv, SuccessorInv
    <3>2. QED
      BY <1>3, <1>6, <3>1
  <2>2. QED
    BY <1>1, <2>1 DEF SuccessorInv, vars
<1>14. HeldInv'
  <2>1. \A v \in Worker : req[v].held \in Ticket \cup {None}
    BY DEF IInv, TypeOK, Request
  <2>2. QED
    BY <1>1, <1>8, <2>1 DEF TInv, HeldInv, vars
<1>15. VoidInv'
  BY <1>1, <1>8 DEF TInv, VoidInv, vars
<1>16. LiveInv'
  <2>1. ASSUME NEW r \in Tx, issue'[r].ans # None, status[r] = "confirmed", purge = "no"
        PROVE  row'[issue'[r].ans] \in Live
    <3>1. CASE r = t
      BY <1>7, <2>1, <3>1
    <3>2. CASE r # t
      <4>1. issue[r].ans \in Ticket /\ issue'[r].ans = issue[r].ans
        BY <1>1, <1>6, <2>1, <3>2 DEF Issue
      <4>2. QED
        BY <1>8, <2>1, <4>1 DEF TInv, LiveInv, CallInv
    <3>3. QED
      BY <3>1, <3>2
  <2>2. QED
    BY <1>1, <2>1 DEF LiveInv, vars
<1>17. QED
  BY <1>9, <1>10, <1>11, <1>12, <1>13, <1>14, <1>15, <1>16 DEF TInv

----------------------------------------------------------------------------
\* A void that ends, looks or deletes takes nobody's ticket but that of a registration
\* that is over.
LEMMA VoidKeeps ==
  ASSUME TInv, IInv, IInv', VoidCalls
  PROVE  TInv'
<1>1. PICK w \in Worker : VoidEnds(w) \/ LoadForVoid(w) \/ DeleteTicket(w)
  BY DEF VoidCalls
<1>2. /\ UNCHANGED <<vars, for, who, issue, desk, purge>>
      /\ row \in [Ticket -> {"absent", "unused", "used", "deleted"}] /\ void \in [Worker -> Void]
  BY <1>1 DEF VoidEnds, LoadForVoid, DeleteTicket, tickets, TInv, TicketingTypeOK
<1>3. /\ void' \in [Worker -> Void]
      /\ \A v \in Worker : void'[v].at # "none" =>
           void[v].at # "none" /\ void'[v].ticket = void[v].ticket
  <2>1. CASE VoidEnds(w) \/ DeleteTicket(w)
    BY <1>2, <2>1 DEF VoidEnds, DeleteTicket, NoVoid, Void
  <2>2. CASE LoadForVoid(w)
    BY <1>2, <2>2 DEF LoadForVoid, Void
  <2>3. QED
    BY <1>1, <2>1, <2>2
<1>4. /\ row' \in [Ticket -> {"absent", "unused", "used", "deleted"}]
      /\ \A k \in Ticket : \/ row'[k] = row[k]
                          \/ /\ row[k] # "absent" /\ row'[k] = "deleted"
                             /\ status[for[k]] \in {"cancelled", "deleted"}
  <2>1. CASE VoidEnds(w) \/ LoadForVoid(w)
    BY <1>2, <2>1 DEF VoidEnds, LoadForVoid, tickets
  <2>2. CASE DeleteTicket(w)
    BY <1>2, <2>2 DEF DeleteTicket, TInv, VoidInv
  <2>3. QED
    BY <1>1, <2>1, <2>2
<1>5. TicketingTypeOK'
  BY <1>2, <1>3, <1>4 DEF IInv, TInv, TicketingTypeOK
<1>6. CallInv' /\ MadeInv' /\ HeldInv'
  <2>1. /\ \A r \in Tx : issue[r].ans \in Ticket \cup {None}
        /\ \A v \in Worker : req[v].held \in Ticket \cup {None}
    BY DEF TInv, TicketingTypeOK, Issue, IInv, TypeOK, Request
  <2>2. QED
    BY <1>2, <1>4, <2>1 DEF TInv, CallInv, MadeInv, HeldInv, vars
<1>7. NamedInv' /\ SuccessorInv' /\ AskedInv'
  BY <1>2 DEF TInv, NamedInv, SuccessorInv, AskedInv, vars
<1>8. VoidInv'
  BY <1>2, <1>3, <1>4 DEF TInv, VoidInv, vars
<1>9. LiveInv'
  <2>1. \A r \in Tx : issue[r].ans \in Ticket \cup {None}
    BY DEF TInv, TicketingTypeOK, Issue
  <2>2. QED
    BY <1>2, <1>4, <2>1 DEF TInv, CallInv, LiveInv, vars
<1>10. QED
  BY <1>5, <1>6, <1>7, <1>8, <1>9 DEF TInv

\* A check-in makes a ticket used that is still there.
LEMMA CheckinKeeps ==
  ASSUME TInv, IInv, IInv', Checkins
  PROVE  TInv'
<1>1. PICK d \in Desk : \/ \E k \in Ticket : LoadForCheckin(d, k)
                        \/ SaveCheckin(d) \/ CheckinFails(d)
  BY DEF Checkins
<1>2. /\ UNCHANGED <<vars, for, who, issue, void, purge>>
      /\ row \in [Ticket -> {"absent", "unused", "used", "deleted"}]
      /\ desk \in [Desk -> Ticket \cup {None}]
  BY <1>1 DEF LoadForCheckin, SaveCheckin, CheckinFails, tickets, TInv, TicketingTypeOK
<1>3. /\ row' \in [Ticket -> {"absent", "unused", "used", "deleted"}]
      /\ desk' \in [Desk -> Ticket \cup {None}]
      /\ \A k \in Ticket : row'[k] = row[k] \/ (row[k] \in Live /\ row'[k] = "used")
  <2>1. CASE SaveCheckin(d)
    BY <1>2, <2>1 DEF SaveCheckin
  <2>2. CASE CheckinFails(d) \/ \E k \in Ticket : LoadForCheckin(d, k)
    BY <1>2, <2>2 DEF CheckinFails, LoadForCheckin, tickets
  <2>3. QED
    BY <1>1, <2>1, <2>2
<1>4. TicketingTypeOK'
  BY <1>2, <1>3 DEF IInv, TInv, TicketingTypeOK
<1>5. /\ \A r \in Tx : issue[r].ans \in Ticket \cup {None}
      /\ \A v \in Worker : req[v].held \in Ticket \cup {None}
  BY DEF TInv, TicketingTypeOK, Issue, IInv, TypeOK, Request
<1>6. CallInv' /\ MadeInv' /\ HeldInv' /\ LiveInv'
  BY <1>2, <1>3, <1>5 DEF TInv, CallInv, MadeInv, HeldInv, LiveInv, Live, vars
<1>7. NamedInv' /\ SuccessorInv' /\ VoidInv' /\ AskedInv'
  BY <1>2, <1>3 DEF TInv, NamedInv, SuccessorInv, VoidInv, AskedInv, vars
<1>8. QED
  BY <1>4, <1>6, <1>7 DEF TInv

----------------------------------------------------------------------------
\* The event's tickets are deleted, then its registrations.
LEMMA PurgeKeeps ==
  ASSUME TInv, IInv, IInv', PurgeTickets \/ PurgeRegistrations
  PROVE  TInv'
<1>1. CASE PurgeTickets
  <2>1. /\ UNCHANGED <<vars, for, who, issue, void, desk>> /\ purge' = "tickets"
        /\ row' \in [Ticket -> {"absent", "unused", "used", "deleted"}]
        /\ \A k \in Ticket : row[k] = "absent" <=> row'[k] = "absent"
    BY <1>1 DEF PurgeTickets, TInv, TicketingTypeOK, Live
  <2>2. TicketingTypeOK'
    BY <2>1 DEF IInv, TInv, TicketingTypeOK
  <2>3. /\ \A r \in Tx : issue[r].ans \in Ticket \cup {None}
        /\ \A v \in Worker : req[v].held \in Ticket \cup {None}
    BY DEF TInv, TicketingTypeOK, Issue, IInv, TypeOK, Request
  <2>4. (CallInv /\ AskedInv /\ MadeInv /\ NamedInv /\ SuccessorInv /\ HeldInv /\ VoidInv
         /\ LiveInv)'
    BY <2>1, <2>3 DEF TInv, CallInv, AskedInv, MadeInv, NamedInv, SuccessorInv, HeldInv, VoidInv,
                      LiveInv, vars
  <2>5. QED
    BY <2>2, <2>4 DEF TInv
<1>2. CASE PurgeRegistrations
  <2>1. /\ UNCHANGED <<tickets, issue, void, desk, req>> /\ purge' = "done"
        /\ \A t \in Tx : /\ status'[t] = IF status[t] = "absent" THEN "absent" ELSE "deleted"
                        /\ ticket'[t] = None
    BY <1>2 DEF PurgeRegistrations, DeleteEventRegistrations
  <2>2. TicketingTypeOK'
    BY <2>1 DEF IInv, TInv, TicketingTypeOK, tickets
  <2>3. (CallInv /\ AskedInv /\ MadeInv /\ NamedInv /\ SuccessorInv /\ HeldInv /\ LiveInv)'
    BY <2>1 DEF TInv, CallInv, AskedInv, MadeInv, NamedInv, SuccessorInv, HeldInv, LiveInv, tickets
  <2>4. VoidInv'
    BY <2>1 DEF TInv, VoidInv, MadeInv, tickets
  <2>5. QED
    BY <2>2, <2>3, <2>4 DEF TInv
<1>3. QED
  BY <1>1, <1>2

----------------------------------------------------------------------------
LEMMA TInvStep ==
  ASSUME TInv, IInv, [TicketingNext]_ticketingVars
  PROVE  TInv' /\ IInv'
<1>1. IInv'
  BY StepIsRegistrations, InvStep DEF TInv
<1>2. CASE UNCHANGED ticketingVars
  BY <1>1, <1>2 DEF IInv, TInv, TicketingTypeOK, CallInv, AskedInv, MadeInv, NamedInv, SuccessorInv,
                    HeldInv, VoidInv, LiveInv, ticketingVars, vars, tickets
<1>3. CASE Transactions
  <2>1. PICK w \in Worker :
          QuietStep(w) \/ Register(w) \/ Cancel(w) \/ GoOn(w) \/ Attach(w) \/ GiveUp(w)
    BY <1>3 DEF Transactions
  <2>2. QED
    BY <1>1, <2>1, QuietKeeps, RegisterKeeps, CancelKeeps, GoOnKeeps, AttachKeeps
<1>4. QED
  BY <1>1, <1>2, <1>3, IssueKeeps, VoidKeeps, CheckinKeeps, PurgeKeeps DEF TicketingNext, KeptNext

LEMMA TInvInit ==
  ASSUME TicketingInit
  PROVE  TInv /\ IInv
<1>1. IInv
  BY InvInit DEF TicketingInit
<1>2. TicketingTypeOK
  BY <1>1 DEF IInv, TicketingInit, TicketingTypeOK, Issue, NoIssue, Void, NoVoid
<1>3. CallInv /\ AskedInv /\ MadeInv /\ NamedInv /\ VoidInv /\ LiveInv
  BY DEF TicketingInit, Init, CallInv, AskedInv, MadeInv, NamedInv, VoidInv, LiveInv, NoIssue, NoVoid
<1>4. SuccessorInv /\ HeldInv
  BY DEF TicketingInit, Init, Idle, SuccessorInv, HeldInv, Cancelling
<1>5. QED
  BY <1>1, <1>2, <1>3, <1>4 DEF TInv

LEMMA TicketingInvariance == TicketingSpec => [](TInv /\ IInv)
<1>1. TicketingInit => TInv /\ IInv
  BY TInvInit
<1>2. TInv /\ IInv /\ [TicketingNext]_ticketingVars => (TInv /\ IInv)'
  BY TInvStep
<1>3. QED
  BY <1>1, <1>2, PTL DEF TicketingSpec

\* A registration has one ticket at most, ever, and it is its user's.
LEMMA TicketMade ==
  ASSUME TInv
  PROVE  /\ \A k \in Ticket : row[k] # "absent" =>
              /\ for[k] \in Tx /\ issue[for[k]].ans = k /\ issue[for[k]].at = "done"
              /\ who[k] = issue[for[k]].user
              /\ status[for[k]] # "deleted" => who[k] = owner[for[k]]
         /\ \A k, l \in Ticket : row[k] # "absent" /\ row[l] # "absent" /\ for[k] = for[l] => k = l
         /\ \A k \in Ticket : row[k] \in Live => row[k] # "absent"
BY NoneAssumption DEF TInv, MadeInv, CallInv, Live

\* Tables, calls and requests of the two services stay in their domains.
THEOREM TicketingTypeCorrect == TicketingSpec => []TicketingTypeOK
<1>1. TInv => TicketingTypeOK
  BY DEF TInv
<1>2. QED
  BY <1>1, TicketingInvariance, PTL

\* With the ticket service next to it, the transaction service still does what
\* Registrations says; so every theorem about Registrations holds here.
THEOREM TicketingImplementsRegistrations == TicketingSpec => Spec
<1>1. TicketingInit => Init
  BY DEF TicketingInit
<1>2. TInv /\ [TicketingNext]_ticketingVars => [Next]_vars
  BY StepIsRegistrations DEF TInv
<1>3. QED
  BY <1>1, <1>2, TicketingInvariance, PTL DEF TicketingSpec, Spec

\* No late, lost or repeated call gives a registration somebody else's ticket.
\* And of all tickets of a user at most one is that of an active registration.
THEOREM TicketsAlwaysMatch == TicketingSpec => []TicketsMatch
<1>1. ASSUME TInv, IInv, NEW t \in Tx, ticket[t] # None
      PROVE  for[ticket[t]] = t /\ who[ticket[t]] = owner[t]
  BY <1>1 DEF TInv, IInv, TypeOK, NamedInv, CallInv, MadeInv
<1>2. ASSUME TInv, IInv, NEW k \in Ticket, NEW l \in Ticket, k # l,
             row[k] \in Live, row[l] \in Live, who[k] = who[l],
             status[for[k]] \in Active, status[for[l]] \in Active
      PROVE  FALSE
  <2>1. for[k] \in Tx /\ for[l] \in Tx /\ for[k] # for[l]
    BY <1>2, TicketMade
  <2>2. owner[for[k]] = who[k] /\ owner[for[l]] = who[l]
    BY <1>2, TicketMade DEF Active
  <2>3. QED
    BY <1>2, <2>1, <2>2 DEF IInv, OneActivePerUser
<1>3. TInv /\ IInv => TicketsMatch
  BY <1>1, <1>2 DEF TicketsMatch
<1>4. QED
  BY <1>3, TicketingInvariance, PTL

\* No void, however late, takes the ticket of a confirmed registration.
THEOREM SeatsKeepTheirTickets == TicketingSpec => []SeatKeepsTicket
<1>1. TInv => SeatKeepsTicket
  BY DEF TInv, NamedInv, LiveInv, SeatKeepsTicket
<1>2. QED
  BY <1>1, TicketingInvariance, PTL

----------------------------------------------------------------------------
(* The promise of Passes.  Requests and the DELETE of the registrations     *)
(* move seats, an INSERT makes a pass, a check-in uses one, a DELETE voids  *)
(* one, and the deletion of the event removes them.                         *)

Word(s) == IF s = "unused" THEN "valid" ELSE IF s = "used" THEN "used" ELSE "void"

\* The pass of a registration is the ticket its call was answered with.
PassIsAnswer ==
  \A t \in Tx : PassOf(t) = IF issue[t].ans = None THEN "none" ELSE Word(row[issue[t].ans])

LEMMA AnswerIsPass == TInv => PassIsAnswer
<1> SUFFICES ASSUME TInv, NEW t \in Tx
             PROVE  PassOf(t) = IF issue[t].ans = None THEN "none" ELSE Word(row[issue[t].ans])
  BY DEF PassIsAnswer
<1>1. CASE issue[t].ans = None
  <2>1. \A k \in Ticket : row[k] # "absent" => for[k] # t
    BY <1>1, NoneAssumption DEF TInv, MadeInv
  <2>2. QED
    BY <1>1, <2>1 DEF PassOf, HasTicket
<1>2. CASE issue[t].ans # None
  <2>1. PICK k \in Ticket : k = issue[t].ans
    BY <1>2 DEF TInv, TicketingTypeOK, Issue
  <2>2. /\ row[k] \in {"unused", "used", "deleted"} /\ for[k] = t
        /\ \A l \in Ticket : row[l] # "absent" /\ for[l] = t => l = k
    BY <1>2, <2>1 DEF TInv, TicketingTypeOK, CallInv, MadeInv
  <2>3. \A s \in {"unused", "used", "deleted"} : HasTicket(t, s) <=> row[k] = s
    BY <2>2 DEF HasTicket
  <2>4. QED
    BY <1>2, <2>1, <2>2, <2>3 DEF PassOf, Word
<1>3. QED
  BY <1>1, <1>2

\* A ticket is asked for once, when a seat is given.
LEMMA AskedOnce ==
  ASSUME TInv, IInv, [TicketingNext]_ticketingVars, NEW t \in Tx
  PROVE  /\ issue[t].at # "none" => issue'[t].at # "none"
         /\ issue[t].at = "none" /\ issue'[t].at # "none" => status'[t] = "confirmed"
<1> DEFINE Goal == /\ issue[t].at # "none" => issue'[t].at # "none"
                   /\ issue[t].at = "none" /\ issue'[t].at # "none" => status'[t] = "confirmed"
<1>1. issue \in [Tx -> Issue] /\ TypeOK
  BY DEF TInv, TicketingTypeOK, IInv
<1>2. CASE issue' = issue
  BY <1>2
<1>3. ASSUME NEW w \in Worker, Register(w)
      PROVE  Goal
  <2>1. InsertRow(w) /\ req[w].tx \in Tx /\ status[req[w].tx] = "absent"
    BY <1>1, <1>3, InsertRowEffect DEF Register, IInv, RequestInv
  <2>2. issue[req[w].tx].at = "none"
    BY <2>1 DEF TInv, CallInv
  <2>3. CASE req'[w].at = "issuing"
    <3>1. status'[req[w].tx] = "confirmed"
      BY <1>1, <2>1, <2>3, InsertRowEffect, IssuingFields, IdleFields
    <3>2. \A r \in Tx : r # req[w].tx => issue'[r] = issue[r]
      BY <1>1, <1>3, <2>1, <2>3 DEF Register
    <3>3. QED
      BY <2>2, <3>1, <3>2
  <2>4. QED
    BY <1>2, <1>3, <2>3 DEF Register
<1>4. ASSUME NEW w \in Worker, Cancel(w)
      PROVE  Goal
  <2> DEFINE s == req[w].next
  <2>1. CommitCancel(w) /\ req[w].tx \in Tx
    BY <1>1, <1>4, CommitCancelEffect DEF Cancel, IInv, RequestInv, Cancelling
  <2>2. CASE s # None
    <3>1. s \in Tx /\ status[s] = "waitlist" /\ req[w].at = "promoting"
      BY <1>1, <2>1, <2>2, SuccessorWaits DEF IInv, Waiting
    <3>2. issue[s].at = "none"
      BY <3>1 DEF TInv, CallInv
    <3>3. s # req[w].tx
      BY <3>1 DEF IInv, RequestInv, SeenInv, Cancelling
    <3>4. status'[s] = "confirmed"
      BY <1>1, <2>1, <3>1, <3>3, CommitCancelEffect
    <3>5. \A r \in Tx : r # s => issue'[r] = issue[r]
      BY <1>1, <1>4, <2>2 DEF Cancel
    <3>6. QED
      BY <3>2, <3>4, <3>5
  <2>3. QED
    BY <1>2, <1>4, <2>2 DEF Cancel
<1>5. ASSUME NEW w \in Worker, GoOn(w)
      PROVE  Goal
  <2>1. req[w].at = "voiding" /\ req[w].next \in Tx \cup {None}
    BY <1>1, <1>5, VoidAnsweredEffect DEF GoOn
  <2>2. CASE req[w].next # None
    <3>1. issue[req[w].next].at = "owed" /\ issue' = [issue EXCEPT ![req[w].next].at = "sent"]
      BY <1>5, <2>1, <2>2 DEF GoOn, TInv, SuccessorInv
    <3>2. QED
      BY <1>1, <2>1, <3>1 DEF Issue
  <2>3. QED
    BY <1>2, <1>5, <2>2 DEF GoOn
<1>6. ASSUME NEW r \in Tx, NEW o \in {"failed", "looked", "done", "conflict", "clear"}, NEW k,
             issue[r].at \in {"sent", "looked", "clear"}, Answer(r, o, k)
      PROVE  Goal
  <2>1. issue'[r].at = o /\ \A q \in Tx : q # r => issue'[q] = issue[q]
    BY <1>1, <1>6 DEF Answer, Issue
  <2>2. QED
    BY <1>6, <2>1
<1>7. CASE IssueCalls
  BY <1>6, <1>7 DEF IssueCalls, IssueLost, LookUp, CheckActive, InsertTicket
<1>8. CASE VoidCalls \/ Checkins \/ PurgeTickets \/ PurgeRegistrations
  BY <1>2, <1>8 DEF VoidCalls, VoidEnds, LoadForVoid, DeleteTicket, Checkins, LoadForCheckin,
                    SaveCheckin, CheckinFails, PurgeTickets, PurgeRegistrations
<1>9. CASE Transactions
  <2>1. ASSUME NEW w \in Worker, QuietStep(w) \/ Attach(w) \/ GiveUp(w)
        PROVE  issue' = issue
    BY <2>1 DEF QuietStep, Attach, GiveUp
  <2>2. QED
    BY <1>2, <1>3, <1>4, <1>5, <1>9, <2>1 DEF Transactions
<1>10. QED
  BY <1>2, <1>7, <1>8, <1>9 DEF TicketingNext, KeptNext, ticketingVars

\* A seat is given once, and given up once.
LEMMA SeatsMove ==
  ASSUME TInv, IInv, [TicketingNext]_ticketingVars, NEW t \in Tx
  PROVE  /\ SeatOf(t)' \in {"none", "held", "over"}
         /\ \/ SeatOf(t)' = SeatOf(t)
            \/ SeatOf(t) = "none" /\ SeatOf(t)' = "held"
            \/ SeatOf(t) = "held" /\ SeatOf(t)' = "over"
<1>1. [Next]_vars
  BY StepIsRegistrations DEF TInv
<1>2. /\ status[t] = "confirmed" => status'[t] \in {"confirmed", "cancelled", "deleted"}
      /\ status[t] \in {"cancelled", "deleted"} => status'[t] \in {"cancelled", "deleted"}
  BY <1>1, RowsMove
<1>3. /\ issue[t].at # "none" => status[t] \in {"confirmed", "cancelled", "deleted"}
      /\ status[t] = "confirmed" => issue[t].at # "none"
  BY DEF TInv, CallInv, AskedInv
<1>4. QED
  BY <1>2, <1>3, AskedOnce DEF SeatOf

\* A row that changes is the pass of its registration.
LEMMA TicketTurns ==
  ASSUME TInv, TInv', issue' = issue, NEW k \in Ticket, NEW s \in {"unused", "used", "deleted"},
         row[k] # "absent", row' = [row EXCEPT ![k] = s]
  PROVE  /\ PassOf(for[k]) = Word(row[k])
         /\ \A t \in Tx : PassOf(t)' = IF t = for[k] THEN Word(s) ELSE PassOf(t)
<1>1. PassIsAnswer /\ PassIsAnswer'
  BY AnswerIsPass, PTL
<1>2. for[k] \in Tx /\ issue[for[k]].ans = k
  BY DEF TInv, MadeInv
<1>3. \A t \in Tx : /\ issue[t].ans \in Ticket \cup {None}
                    /\ t # for[k] => issue[t].ans # k
  BY NoneAssumption DEF TInv, TicketingTypeOK, Issue, CallInv
<1>4. row'[k] = s /\ \A l \in Ticket : l # k => row'[l] = row[l]
  BY DEF TInv, TicketingTypeOK
<1>5. QED
  BY <1>1, <1>2, <1>3, <1>4, NoneAssumption DEF PassIsAnswer

\* A step that leaves the tickets alone moves seats.
LEMMA MovesSeats ==
  ASSUME TInv, IInv, [TicketingNext]_ticketingVars, tickets' = tickets, (purge' # "no") = (purge # "no")
  PROVE  Promise!MoveSeats
<1>1. \A t \in Tx : PassOf(t)' = PassOf(t)
  BY DEF PassOf, HasTicket, tickets
<1>2. [t \in Tx |-> PassOf(t)]' = [t \in Tx |-> PassOf(t)]
  BY <1>1
<1>3. [t \in Tx |-> SeatOf(t)]' \in [Tx -> {"none", "held", "over"}]
  BY SeatsMove
<1>4. \A t \in Tx : \/ <<SeatOf(t), SeatOf(t)'>> \in {<<"none", "held">>, <<"held", "over">>}
                    \/ SeatOf(t)' = SeatOf(t)
  BY SeatsMove
<1>5. QED
  BY <1>2, <1>3, <1>4 DEF Promise!MoveSeats

\* A ticket that is there is checked in or deleted.
LEMMA TurnsPass ==
  ASSUME TInv, TInv', UNCHANGED <<vars, issue, purge>>, NEW k \in Ticket, NEW s \in {"used", "deleted"},
         row[k] # "absent", row' = [row EXCEPT ![k] = s],
         s = "used" => row[k] \in Live,
         s = "deleted" => status[for[k]] \in {"cancelled", "deleted"}
  PROVE  [Promise!PNext]_(Promise!pvars)
<1> DEFINE r == for[k]
           Seat == [t \in Tx |-> SeatOf(t)]
           Pass == [t \in Tx |-> PassOf(t)]
<1>1. r \in Tx /\ issue[r].at # "none"
  BY TicketMade
<1>2. Seat' = Seat /\ (purge' # "no") = (purge # "no")
  BY DEF SeatOf, vars
<1>3. Pass[r] = Word(row[k]) /\ \A t \in Tx : PassOf(t)' = IF t = r THEN Word(s) ELSE PassOf(t)
  BY <1>1, TicketTurns
<1>4. Pass' = [Pass EXCEPT ![r] = Word(s)]
  BY <1>1, <1>3
<1>5. CASE row[k] = s
  <2>1. Pass' = Pass
    BY <1>1, <1>3, <1>4, <1>5
  <2>2. QED
    BY <1>2, <2>1 DEF Promise!pvars
<1>6. CASE row[k] # s /\ s = "used"
  <2>1. Pass[r] = "valid" /\ Word(s) = "used"
    BY <1>3, <1>6 DEF Word, Live
  <2>2. Promise!UsePass(r)
    BY <1>2, <1>4, <2>1 DEF Promise!UsePass, Promise!Turn
  <2>3. QED
    BY <1>1, <2>2 DEF Promise!PNext
<1>7. CASE row[k] # s /\ s = "deleted"
  <2>1. Pass[r] \in {"valid", "used"} /\ Word(s) = "void"
    BY <1>3, <1>7 DEF Word, TInv, TicketingTypeOK
  <2>2. Seat[r] = "over"
    BY <1>1, <1>7 DEF SeatOf
  <2>3. Promise!VoidPass(r)
    BY <1>2, <1>4, <2>1, <2>2 DEF Promise!VoidPass, Promise!Turn
  <2>4. QED
    BY <1>1, <2>3 DEF Promise!PNext
<1>8. QED
  BY <1>5, <1>6, <1>7

LEMMA PromiseStep ==
  ASSUME TInv, IInv, TInv', [TicketingNext]_ticketingVars
  PROVE  [Promise!PNext]_(Promise!pvars)
<1> DEFINE Seat == [t \in Tx |-> SeatOf(t)]
           Pass == [t \in Tx |-> PassOf(t)]
<1>1. CASE tickets' = tickets /\ (purge' # "no") = (purge # "no")
  BY <1>1, MovesSeats DEF Promise!PNext
<1>2. ASSUME NEW t \in Tx, NEW k \in Ticket, InsertTicket(t, k)
      PROVE  [Promise!PNext]_(Promise!pvars)
  <2>1. /\ UNCHANGED <<vars, void, desk, purge>> /\ issue[t].at = "clear" /\ issue[t].ans = None
        /\ row' = [row EXCEPT ![k] = "unused"] /\ row[k] = "absent"
        /\ issue' = [issue EXCEPT ![t].at = "done", ![t].ans = k]
        /\ issue \in [Tx -> Issue] /\ row[k] # row'[k]
    BY <1>2 DEF InsertTicket, Answer, TInv, TicketingTypeOK, CallInv
  <2>2. issue'[t].at = "done" /\ issue'[t].ans = k /\ \A r \in Tx : r # t => issue'[r] = issue[r]
    BY <2>1 DEF Issue
  <2>3. PassIsAnswer /\ PassIsAnswer'
    BY AnswerIsPass, PTL
  <2>4. \A r \in Tx : r # t => issue[r].ans # k /\ issue[r].ans \in Ticket \cup {None}
    BY <2>1, NoneAssumption DEF TInv, CallInv, Issue
  <2>5. row'[k] = "unused" /\ \A l \in Ticket : l # k => row'[l] = row[l]
    BY <2>1 DEF TInv, TicketingTypeOK
  <2>6. /\ PassOf(t) = "none" /\ PassOf(t)' = "valid"
        /\ \A r \in Tx : r # t => PassOf(r)' = PassOf(r)
    BY <2>1, <2>2, <2>3, <2>4, <2>5, NoneAssumption DEF PassIsAnswer, Word
  <2>7. Pass[t] = "none" /\ Pass' = [Pass EXCEPT ![t] = "valid"]
    BY <2>6
  <2>8. Seat' = Seat /\ Seat[t] # "none" /\ (purge' # "no") = (purge # "no")
    BY <2>1, <2>2 DEF SeatOf, vars
  <2>9. Promise!MakePass(t)
    BY <2>7, <2>8 DEF Promise!MakePass, Promise!Turn
  <2>10. QED
    BY <2>9 DEF Promise!PNext
<1>3. ASSUME NEW w \in Worker, DeleteTicket(w)
      PROVE  [Promise!PNext]_(Promise!pvars)
  <2>1. /\ UNCHANGED <<vars, issue, purge>> /\ row' = [row EXCEPT ![void[w].ticket] = "deleted"]
        /\ void[w].ticket \in Ticket /\ row[void[w].ticket] # "absent"
        /\ status[for[void[w].ticket]] \in {"cancelled", "deleted"}
    BY <1>3 DEF DeleteTicket, TInv, VoidInv
  <2>2. QED
    BY <2>1, TurnsPass
<1>4. ASSUME NEW d \in Desk, SaveCheckin(d)
      PROVE  [Promise!PNext]_(Promise!pvars)
  <2>1. /\ UNCHANGED <<vars, issue, purge>> /\ row' = [row EXCEPT ![desk[d]] = "used"]
        /\ desk[d] \in Ticket /\ row[desk[d]] \in Live /\ row[desk[d]] # "absent"
    BY <1>4 DEF SaveCheckin, TInv, TicketingTypeOK, Live
  <2>2. QED
    BY <2>1, TurnsPass
<1>5. CASE PurgeTickets
  <2>1. /\ UNCHANGED <<vars, issue, for>> /\ purge = "no" /\ purge' # "no"
        /\ \A k \in Ticket : row'[k] = IF row[k] \in Live THEN "deleted" ELSE row[k]
    BY <1>5 DEF PurgeTickets
  <2>2. PassIsAnswer /\ PassIsAnswer'
    BY AnswerIsPass, PTL
  <2>3. \A t \in Tx : issue[t].ans \in Ticket \cup {None}
    BY DEF TInv, TicketingTypeOK, Issue
  <2>4. \A t \in Tx : PassOf(t)' = IF PassOf(t) \in {"valid", "used"} THEN "void" ELSE PassOf(t)
    BY <2>1, <2>2, <2>3 DEF PassIsAnswer, Word, Live, TInv, TicketingTypeOK, CallInv
  <2>5. Pass' = [t \in Tx |-> IF Pass[t] \in {"valid", "used"} THEN "void" ELSE Pass[t]]
    BY <2>4
  <2>6. Seat' = Seat
    BY <2>1 DEF SeatOf, vars
  <2>7. Promise!RemovePasses
    BY <2>1, <2>5, <2>6 DEF Promise!RemovePasses
  <2>8. QED
    BY <2>7 DEF Promise!PNext
<1>6. CASE UNCHANGED ticketingVars
  BY <1>1, <1>6 DEF ticketingVars
<1>7. CASE Transactions
  BY <1>1, <1>7 DEF Transactions, QuietStep, Register, Cancel, GoOn, Attach, GiveUp
<1>8. CASE IssueCalls
  BY <1>1, <1>2, <1>8 DEF IssueCalls, IssueLost, LookUp, CheckActive
<1>9. CASE VoidCalls
  BY <1>1, <1>3, <1>9 DEF VoidCalls, VoidEnds, LoadForVoid
<1>10. CASE Checkins
  BY <1>1, <1>4, <1>10 DEF Checkins, LoadForCheckin, CheckinFails
<1>11. CASE PurgeRegistrations
  BY <1>1, <1>11 DEF PurgeRegistrations
<1>12. QED
  BY <1>5, <1>6, <1>7, <1>8, <1>9, <1>10, <1>11 DEF TicketingNext, KeptNext

\* Whatever calls are lost, late or overtaken, seats and tickets keep the promise of
\* Passes; so every theorem about Passes holds of them.
THEOREM TicketingImplementsPasses == TicketingSpec => PassesImplemented
<1>1. TicketingInit => Promise!PInit
  <2> SUFFICES ASSUME TicketingInit
               PROVE  Promise!PInit
    OBVIOUS
  <2>1. \A t \in Tx : SeatOf(t) = "none" /\ PassOf(t) = "none"
    BY DEF TicketingInit, Init, SeatOf, PassOf, HasTicket, NoIssue
  <2>2. purge = "no"
    BY DEF TicketingInit
  <2>3. QED
    BY <2>1, <2>2 DEF Promise!PInit
<1>2. TInv /\ IInv /\ TInv' /\ [TicketingNext]_ticketingVars => [Promise!PNext]_(Promise!pvars)
  BY PromiseStep
<1>3. QED
  BY <1>1, <1>2, TicketingInvariance, PTL DEF TicketingSpec, PassesImplemented, Promise!PSpec

----------------------------------------------------------------------------
(* How many tickets, and who is refused one.                                *)

\* A registration has one ticket ever: not even a deleted one is replaced.
OneTicketEver ==
  \A k, l \in Ticket : row[k] # "absent" /\ row[l] # "absent" /\ for[k] = for[l] => k = l

\* However often a call is repeated or overtaken, no registration is given a second
\* ticket (create_ticket), not even after the first was voided.
THEOREM OneTicketForEach == TicketingSpec => []OneTicketEver
<1>1. TInv => OneTicketEver
  BY TicketMade DEF OneTicketEver
<1>2. QED
  BY <1>1, TicketingInvariance, PTL

\* The answer to a call under way comes from create_ticket.
LEMMA AnswerChanges ==
  ASSUME TInv, IInv, [TicketingNext]_ticketingVars, NEW t \in Tx,
         issue[t].at \in {"sent", "looked", "clear"}, issue'[t] # issue[t]
  PROVE  IssueLost(t) \/ LookUp(t) \/ CheckActive(t) \/ \E k \in Ticket : InsertTicket(t, k)
<1>1. issue \in [Tx -> Issue] /\ TypeOK
  BY DEF TInv, TicketingTypeOK, IInv
<1>2. ASSUME NEW w \in Worker, Register(w)
      PROVE  FALSE
  <2>1. InsertRow(w) /\ req[w].tx \in Tx /\ status[req[w].tx] = "absent"
    BY <1>1, <1>2, InsertRowEffect DEF Register, IInv, RequestInv
  <2>2. req[w].tx # t
    BY <2>1 DEF TInv, CallInv
  <2>3. QED
    BY <1>1, <1>2, <2>1, <2>2 DEF Register
<1>3. ASSUME NEW w \in Worker, Cancel(w)
      PROVE  FALSE
  <2>1. CommitCancel(w)
    BY <1>3 DEF Cancel
  <2>2. CASE req[w].next # None
    <3>1. req[w].next \in Tx /\ status[req[w].next] = "waitlist"
      BY <1>1, <2>1, <2>2, SuccessorWaits DEF IInv, Waiting
    <3>2. req[w].next # t
      BY <3>1 DEF TInv, CallInv
    <3>3. QED
      BY <1>1, <1>3, <2>2, <3>1, <3>2 DEF Cancel
  <2>3. QED
    BY <1>3, <2>2 DEF Cancel
<1>4. ASSUME NEW w \in Worker, GoOn(w)
      PROVE  FALSE
  <2>1. req[w].at = "voiding"
    BY <1>1, <1>4, VoidAnsweredEffect DEF GoOn
  <2>2. req[w].next # None => req[w].next # t
    BY <2>1 DEF TInv, SuccessorInv
  <2>3. QED
    BY <1>1, <1>4, <2>2 DEF GoOn
<1>5. ASSUME NEW r \in Tx, NEW o, NEW k, Answer(r, o, k)
      PROVE  r = t
  BY <1>1, <1>5 DEF Answer
<1>6. CASE IssueCalls
  BY <1>5, <1>6 DEF IssueCalls, IssueLost, LookUp, CheckActive, InsertTicket
<1>7. ASSUME VoidCalls \/ Checkins \/ PurgeTickets \/ PurgeRegistrations
      PROVE  FALSE
  BY <1>7 DEF VoidCalls, VoidEnds, LoadForVoid, DeleteTicket, Checkins, LoadForCheckin,
              SaveCheckin, CheckinFails, PurgeTickets, PurgeRegistrations
<1>8. ASSUME Transactions
      PROVE  FALSE
  <2>1. ASSUME NEW w \in Worker, QuietStep(w) \/ Attach(w) \/ GiveUp(w)
        PROVE  issue' = issue
    BY <2>1 DEF QuietStep, Attach, GiveUp
  <2>2. QED
    BY <1>2, <1>3, <1>4, <1>8, <2>1 DEF Transactions
<1>9. QED
  BY <1>6, <1>7, <1>8 DEF TicketingNext, KeptNext, ticketingVars

\* 409 TICKET_ALREADY_EXISTS meets nobody but who has an unused ticket of another
\* registration, which is over if this one has a seat.
THEOREM RefusedOnlyForLeftover == TicketingSpec => RefusedForLeftover
<1> DEFINE Leftover(t, k) ==
      /\ row[k] = "unused" /\ who[k] = issue[t].user /\ for[k] # t
      /\ status[t] = "confirmed" => owner[t] = who[k] /\ status[for[k]] \notin Active
<1>1. ASSUME TInv, IInv, [TicketingNext]_ticketingVars, NEW t \in Tx,
             issue[t].at = "looked", issue'[t].at = "conflict"
      PROVE  \E k \in Ticket : Leftover(t, k)
  <2>1. issue \in [Tx -> Issue] /\ issue'[t] # issue[t]
    BY <1>1 DEF TInv, TicketingTypeOK
  <2>2. CheckActive(t)
    <3>1. ASSUME NEW o, NEW k, Answer(t, o, k)
          PROVE  issue'[t].at = o
      BY <2>1, <3>1 DEF Answer, Issue
    <3>2. QED
      BY <1>1, <2>1, <3>1, AnswerChanges DEF IssueLost, LookUp, InsertTicket
  <2>3. PICK k \in Ticket : row[k] = "unused" /\ who[k] = issue[t].user
    <3>1. ~(\E k \in Ticket : row[k] = "unused" /\ who[k] = issue[t].user)
             => issue'[t].at = "clear"
      BY <2>1, <2>2 DEF CheckActive, Answer, Issue
    <3>2. QED
      BY <1>1, <3>1
  <2>4. for[k] \in Tx /\ for[k] # t /\ (status[for[k]] # "deleted" => who[k] = owner[for[k]])
    BY <1>1, <2>3, TicketMade
  <2>5. ASSUME status[t] = "confirmed"
        PROVE  owner[t] = who[k] /\ status[for[k]] \notin Active
    <3>1. owner[t] = who[k]
      BY <1>1, <2>3, <2>5 DEF TInv, CallInv
    <3>2. QED
      BY <1>1, <2>4, <2>5, <3>1 DEF IInv, OneActivePerUser, Active
  <2>6. QED
    BY <2>3, <2>4, <2>5
<1>2. TInv /\ IInv /\ [TicketingNext]_ticketingVars =>
        [\A t \in Tx : issue[t].at = "looked" /\ issue'[t].at = "conflict" =>
           \E k \in Ticket : /\ row[k] = "unused" /\ who[k] = issue[t].user /\ for[k] # t
                             /\ status[t] = "confirmed" => /\ owner[t] = who[k]
                                                           /\ status[for[k]] \notin Active]_ticketingVars
  BY <1>1
<1>3. QED
  BY <1>2, TicketingInvariance, PTL DEF TicketingSpec, RefusedForLeftover

----------------------------------------------------------------------------
(* What overlaps, and only they, can break.                                 *)

\* What a void has loaded stays unused, unless another void deletes it.
ApartInv ==
  /\ VoidsApart
  /\ \A w \in Worker : void[w].at = "loaded" => row[void[w].ticket] \in {"unused", "deleted"}

LEMMA ApartStep ==
  ASSUME TInv, ApartInv, KeptNext, VoidsApart'
  PROVE  /\ ApartInv'
         /\ \A k \in Ticket : row[k] = "used" => row'[k] = "used"
<1> DEFINE Goal == /\ \A w \in Worker : void'[w].at = "loaded" => row'[void'[w].ticket] \in {"unused", "deleted"}
                   /\ \A k \in Ticket : row[k] = "used" => row'[k] = "used"
<1> SUFFICES Goal
  BY DEF ApartInv
<1>1. /\ row \in [Ticket -> {"absent", "unused", "used", "deleted"}]
      /\ void \in [Worker -> Void] /\ desk \in [Desk -> Ticket \cup {None}]
      /\ \A w \in Worker : void[w].at # "none" => void[w].ticket \in Ticket
      /\ \A w \in Worker : void[w].at = "loaded" => row[void[w].ticket] \in {"unused", "deleted"}
  BY DEF TInv, TicketingTypeOK, VoidInv, ApartInv
<1>2. CASE row' = row /\ void' = void
  BY <1>1, <1>2
<1>3. ASSUME NEW w \in Worker, Cancel(w)
      PROVE  Goal
  <2>1. row' = row /\ (void' = void \/ void' = [void EXCEPT ![w] = [at |-> "sent", ticket |-> req[w].held]])
    BY <1>3 DEF Cancel, tickets
  <2>2. QED
    BY <1>1, <1>2, <2>1
<1>4. CASE Transactions
  <2>1. ASSUME NEW w \in Worker, QuietStep(w) \/ Register(w) \/ GoOn(w) \/ Attach(w) \/ GiveUp(w)
        PROVE  row' = row /\ void' = void
    BY <2>1 DEF QuietStep, Register, GoOn, Attach, GiveUp, tickets
  <2>2. QED
    BY <1>2, <1>3, <1>4, <2>1 DEF Transactions
<1>5. ASSUME NEW t \in Tx, NEW k \in Ticket, InsertTicket(t, k)
      PROVE  Goal
  <2>1. row[k] = "absent" /\ row' = [row EXCEPT ![k] = "unused"] /\ void' = void
    BY <1>5 DEF InsertTicket
  <2>2. QED
    BY <1>1, <2>1
<1>6. CASE IssueCalls
  BY <1>2, <1>5, <1>6 DEF IssueCalls, IssueLost, LookUp, CheckActive, tickets
<1>7. ASSUME NEW w \in Worker, VoidEnds(w) \/ LoadForVoid(w)
      PROVE  Goal
  <2>1. /\ row' = row
        /\ \A v \in Worker : v # w => void'[v] = void[v]
        /\ void'[w].at = "loaded" => row[void'[w].ticket] = "unused"
    BY <1>1, <1>7 DEF VoidEnds, LoadForVoid, NoVoid, Void, tickets
  <2>2. QED
    BY <1>1, <2>1
<1>8. ASSUME NEW w \in Worker, DeleteTicket(w)
      PROVE  Goal
  <2>1. /\ void[w].at = "loaded" /\ row' = [row EXCEPT ![void[w].ticket] = "deleted"]
        /\ void'[w].at # "loaded" /\ \A v \in Worker : v # w => void'[v] = void[v]
    BY <1>1, <1>8 DEF DeleteTicket, NoVoid
  <2>2. QED
    BY <1>1, <2>1
<1>9. ASSUME NEW d \in Desk, SaveCheckin(d)
      PROVE  Goal
  <2>1. /\ desk[d] \in Ticket /\ row' = [row EXCEPT ![desk[d]] = "used"] /\ void' = void
        /\ \A w \in Worker : void[w].at = "loaded" => desk[d] # void[w].ticket
    BY <1>1, <1>9 DEF SaveCheckin, ApartInv, VoidsApart
  <2>2. QED
    BY <1>1, <2>1
<1>10. CASE VoidCalls \/ Checkins
  BY <1>2, <1>7, <1>8, <1>9, <1>10 DEF VoidCalls, Checkins, LoadForCheckin, CheckinFails, tickets
<1>11. QED
  BY <1>4, <1>6, <1>10 DEF KeptNext

\* Only a check-in that overlaps a void of the same ticket is ever lost: otherwise
\* void_ticket's test of the status keeps what was checked in.
THEOREM UsedStays == ApartSpec => UsedIsKept
<1>1. TicketingInit => ApartInv
  BY NoneAssumption DEF TicketingInit, ApartInv, VoidsApart, NoVoid
<1>2. TInv /\ ApartInv /\ [KeptNext /\ VoidsApart']_ticketingVars => ApartInv'
  <2>1. TInv /\ ApartInv /\ KeptNext /\ VoidsApart' => ApartInv'
    BY ApartStep
  <2>2. ApartInv /\ UNCHANGED ticketingVars => ApartInv'
    BY DEF ApartInv, VoidsApart, ticketingVars, tickets
  <2>3. QED
    BY <2>1, <2>2
<1>3. ApartSpec => TicketingSpec
  <2>1. [KeptNext /\ VoidsApart']_ticketingVars => [TicketingNext]_ticketingVars
    BY DEF TicketingNext
  <2>2. QED
    BY <2>1, PTL DEF ApartSpec, TicketingSpec
<1>4. TInv /\ ApartInv /\ [KeptNext /\ VoidsApart']_ticketingVars
        => [\A k \in Ticket : row[k] = "used" => row'[k] = "used"]_ticketingVars
  BY ApartStep
<1>5. QED
  BY <1>1, <1>2, <1>3, <1>4, TicketingInvariance, PTL DEF ApartSpec, UsedIsKept

\* No user has two unused tickets.
OneUnusedPerUser ==
  \A k, l \in Ticket : k # l /\ row[k] = "unused" /\ row[l] = "unused" => who[k] # who[l]

\* What a check has found is still so at the INSERT.
SerialInv ==
  /\ ChecksApart
  /\ \A t \in Tx, k \in Ticket : issue[t].at = "clear" /\ row[k] = "unused" => who[k] # issue[t].user

LEMMA SerialStep ==
  ASSUME TInv, IInv, SerialInv, OneUnusedPerUser, TicketingNext, ChecksApart'
  PROVE  SerialInv' /\ OneUnusedPerUser'
<1> DEFINE Clear == \A t \in Tx, k \in Ticket :
                      issue'[t].at = "clear" /\ row'[k] = "unused" => who'[k] # issue'[t].user
<1> SUFFICES Clear /\ OneUnusedPerUser'
  BY DEF SerialInv
<1>1. /\ issue \in [Tx -> Issue] /\ row \in [Ticket -> {"absent", "unused", "used", "deleted"}]
      /\ who \in [Ticket -> User \cup {None}]
  BY DEF TInv, TicketingTypeOK
<1>2. ASSUME NEW t \in Tx, NEW k \in Ticket, InsertTicket(t, k)
      PROVE  Clear /\ OneUnusedPerUser'
  <2>1. /\ issue[t].at = "clear" /\ row' = [row EXCEPT ![k] = "unused"]
        /\ who' = [who EXCEPT ![k] = issue[t].user]
        /\ issue'[t].at = "done" /\ \A r \in Tx : r # t => issue'[r] = issue[r]
    BY <1>1, <1>2 DEF InsertTicket, Answer, Issue
  <2>2. /\ \A l \in Ticket : row[l] = "unused" => who[l] # issue[t].user
        /\ \A r \in Tx : r # t /\ issue[r].at = "clear" => issue[r].user # issue[t].user
    BY <2>1 DEF SerialInv, ChecksApart
  <2>3. OneUnusedPerUser'
    BY <1>1, <2>1, <2>2 DEF OneUnusedPerUser
  <2>4. ASSUME NEW r \in Tx, NEW l \in Ticket, issue'[r].at = "clear", row'[l] = "unused"
        PROVE  who'[l] # issue'[r].user
    <3>1. r # t /\ issue'[r] = issue[r]
      BY <2>1, <2>4
    <3>2. CASE l = k
      BY <1>1, <2>1, <2>2, <2>4, <3>1, <3>2
    <3>3. CASE l # k
      BY <1>1, <2>1, <2>4, <3>1, <3>3 DEF SerialInv
    <3>4. QED
      BY <3>2, <3>3
  <2>5. QED
    BY <2>3, <2>4
<1>3. ASSUME NEW t \in Tx, CheckActive(t)
      PROVE  Clear /\ OneUnusedPerUser'
  <2>1. /\ row' = row /\ who' = who /\ \A r \in Tx : r # t => issue'[r] = issue[r]
        /\ issue'[t].user = issue[t].user
        /\ issue'[t].at = "clear" => ~(\E k \in Ticket : row[k] = "unused" /\ who[k] = issue[t].user)
    BY <1>1, <1>3 DEF CheckActive, Answer, Issue, tickets
  <2>2. QED
    BY <2>1 DEF SerialInv, OneUnusedPerUser
<1>4. ASSUME who' = who, \A k \in Ticket : row'[k] = "unused" => row[k] = "unused",
             \A t \in Tx : issue'[t].at = "clear" => issue'[t] = issue[t]
      PROVE  Clear /\ OneUnusedPerUser'
  BY <1>4 DEF SerialInv, OneUnusedPerUser
<1>5. ASSUME NEW t \in Tx, IssueLost(t) \/ LookUp(t)
      PROVE  Clear /\ OneUnusedPerUser'
  <2>1. /\ row' = row /\ who' = who /\ issue'[t].at # "clear"
        /\ \A r \in Tx : r # t => issue'[r] = issue[r]
    BY <1>1, <1>5 DEF IssueLost, LookUp, Answer, Issue, tickets
  <2>2. QED
    BY <1>4, <2>1
<1>6. ASSUME NEW w \in Worker, DeleteTicket(w)
      PROVE  Clear /\ OneUnusedPerUser'
  BY <1>1, <1>4, <1>6 DEF DeleteTicket
<1>7. ASSUME NEW d \in Desk, SaveCheckin(d)
      PROVE  Clear /\ OneUnusedPerUser'
  BY <1>1, <1>4, <1>7 DEF SaveCheckin
<1>8. CASE PurgeTickets \/ PurgeRegistrations
  BY <1>1, <1>4, <1>8 DEF PurgeTickets, PurgeRegistrations, tickets
<1>9. CASE VoidCalls \/ Checkins
  BY <1>4, <1>6, <1>7, <1>9 DEF VoidCalls, VoidEnds, LoadForVoid, Checkins, LoadForCheckin,
                                CheckinFails, tickets
<1>10. CASE Transactions
  <2>1. row' = row /\ who' = who
    BY <1>10 DEF Transactions, QuietStep, Register, Cancel, GoOn, Attach, GiveUp, tickets
  <2>2. ASSUME NEW t \in Tx, issue'[t].at = "clear"
        PROVE  issue'[t] = issue[t]
    <3>1. ASSUME NEW w \in Worker, QuietStep(w) \/ Attach(w) \/ GiveUp(w)
          PROVE  issue' = issue
      BY <3>1 DEF QuietStep, Attach, GiveUp
    <3>2. ASSUME NEW r \in Tx \cup {None}, NEW c \in {"sent", "owed"},
                 issue' = [issue EXCEPT ![r] = Call(c, r)] \/ issue' = [issue EXCEPT ![r].at = c]
          PROVE  issue'[t] = issue[t]
      BY <1>1, <2>2, <3>2 DEF Call, Issue
    <3>3. ASSUME NEW w \in Worker, Register(w) \/ Cancel(w) \/ GoOn(w)
          PROVE  issue'[t] = issue[t]
      <4>1. req[w].tx \in Tx \cup {None} /\ req[w].next \in Tx \cup {None}
        BY DEF IInv, TypeOK, Request
      <4>2. QED
        BY <3>2, <3>3, <4>1 DEF Register, Cancel, GoOn
    <3>4. QED
      BY <1>10, <3>1, <3>3 DEF Transactions
  <2>3. QED
    BY <1>4, <2>1, <2>2
<1>11. CASE IssueCalls
  BY <1>2, <1>3, <1>5, <1>11 DEF IssueCalls
<1>12. QED
  BY <1>8, <1>9, <1>10, <1>11 DEF TicketingNext, KeptNext

\* The test of create_ticket is enough for one unused ticket per user, if no two calls
\* for one user overlap between it and the INSERT.
THEOREM OneUnused == SerialSpec => []OneUnusedPerUser
<1>1. TicketingInit => SerialInv /\ OneUnusedPerUser
  BY DEF TicketingInit, SerialInv, ChecksApart, OneUnusedPerUser, NoIssue
<1>2. TInv /\ IInv /\ SerialInv /\ OneUnusedPerUser /\ [TicketingNext /\ ChecksApart']_ticketingVars
        => SerialInv' /\ OneUnusedPerUser'
  <2>1. TInv /\ IInv /\ SerialInv /\ OneUnusedPerUser /\ TicketingNext /\ ChecksApart'
          => SerialInv' /\ OneUnusedPerUser'
    BY SerialStep
  <2>2. SerialInv /\ OneUnusedPerUser /\ UNCHANGED ticketingVars => SerialInv' /\ OneUnusedPerUser'
    BY DEF SerialInv, ChecksApart, OneUnusedPerUser, ticketingVars, tickets
  <2>3. QED
    BY <2>1, <2>2
<1>3. SerialSpec => TicketingSpec
  <2>1. [TicketingNext /\ ChecksApart']_ticketingVars => [TicketingNext]_ticketingVars
    OBVIOUS
  <2>2. QED
    BY <2>1, PTL DEF SerialSpec, TicketingSpec
<1>4. QED
  BY <1>1, <1>2, <1>3, TicketingInvariance, PTL DEF SerialSpec

=============================================================================
