--------------------------- MODULE Registrations ---------------------------
(***************************************************************************)
(* The transaction service's registrations for ONE event: the rows of the  *)
(* table transactions and the HTTP requests that work on them              *)
(* (src/backend/transaction/app/services/transaction_service.py).  One     *)
(* event is enough: the advisory lock and every query are per event.       *)
(*                                                                         *)
(* Every request has a database session of its own, at READ COMMITTED.     *)
(* An action is a stretch of one request between two points at which other *)
(* requests can be observed: a read, a wait for the lock, a commit, an     *)
(* HTTP call.  Account, event and ticket services are external here: their *)
(* answers are choices.                                                    *)
(***************************************************************************)
EXTENDS Integers, FiniteSets

CONSTANTS
  User,      \* employees who register
  Tx,        \* transaction ids: uuid4, so drawn fresh
  Ticket,    \* ticket ids the ticket service may return
  Worker,    \* slots for requests in progress (the server's thread pool)
  HasLimit,  \* does the event have a ticketLimit?
  Limit,     \* its ticketLimit, if it has one
  None       \* SQL NULL, Python None, "nobody holds the lock"

ASSUME LimitAssumption == HasLimit \in BOOLEAN /\ Limit \in Nat
ASSUME NoneAssumption == None \notin Tx \cup Ticket \cup Worker \cup User

VARIABLES
  status,   \* per id: "absent" before the INSERT, the column, "deleted" after the DELETE
  owner,    \* column user_id
  number,   \* column waitlist_number; 0 stands for NULL (numbers start at 1)
  ticket,   \* column ticket_id
  lock,     \* the request that holds the event's advisory lock
  req       \* per worker: the stage of its request and the locals it still needs

table == <<status, owner, number, ticket>>
vars  == <<status, owner, number, ticket, lock, req>>

Active == {"confirmed", "waitlist"}

Confirmed == {t \in Tx : status[t] = "confirmed"}
Waiting   == {t \in Tx : status[t] = "waitlist"}

Stage == {"idle",
          "eligible",     \* registration: passed the checks made outside the lock
          "counted",      \* registration: holds the lock, place decided
          "read",         \* cancellation: row loaded, waiting for the event service
          "admitted",     \* cancellation: may go on, waiting for the lock
          "promoting",    \* cancellation of a seat: holds the lock, successor chosen
          "withdrawing",  \* cancellation of a waitlist place: holds the lock
          "voiding",      \* committed, old ticket still to be voided
          "issuing"}      \* committed, ticket of row req.tx still to be issued

Request == [at   : Stage,
            user : User \cup {None},    \* who registers
            tx   : Tx \cup {None},      \* the row the request works on
            seen : Active \cup {None},  \* old_status: the status when the row was loaded
            held : Ticket \cup {None},  \* old_ticket_id: the ticket when it was loaded
            next : Tx \cup {None},      \* promoted_tx
            slot : Nat]                 \* 0: a seat; n > 0: waitlist number n

Idle == [at |-> "idle", user |-> None, tx |-> None, seen |-> None,
         held |-> None, next |-> None, slot |-> 0]

Locked == {"counted", "promoting", "withdrawing"}

\* What is left of a request once row t (or no row) still needs its ticket issued.
Issuing(t) == IF t = None THEN Idle
              ELSE [Idle EXCEPT !.at = "issuing", !.tx = t]

Init ==
  /\ status = [t \in Tx |-> "absent"]
  /\ owner  = [t \in Tx |-> None]
  /\ number = [t \in Tx |-> 0]
  /\ ticket = [t \in Tx |-> None]
  /\ lock = None
  /\ req = [w \in Worker |-> Idle]

----------------------------------------------------------------------------
(* pg_advisory_xact_lock: waits until nobody holds the event's lock; the   *)
(* end of the database transaction, commit or rollback, gives it back.     *)

TakeLock_Ignored(w) == lock' = w

TakeLock(w) == lock = None /\ lock' = w

ReleaseLock_Never(w) == UNCHANGED lock

ReleaseLock(w) == lock' = IF lock = w THEN None ELSE lock

HasActive(u) == \E t \in Tx : owner[t] = u /\ status[t] \in Active

IndexAdmits_Always(u) == TRUE

\* The partial unique index uq_active_registration lets (u, event) in.
IndexAdmits(u) == ~HasActive(u)

Full_OffByOne == HasLimit /\ Cardinality(Confirmed) > Limit

\* _count_confirmed against event.ticket_limit
Full == HasLimit /\ Cardinality(Confirmed) >= Limit

NextNumbers_NoDefault == IF Waiting = {} THEN {None} ELSE {number[t] + 1 : t \in Waiting}

\* 1 + the largest number on the waitlist, as the set of that one number.
NextNumbers == {n \in {1} \cup {number[t] + 1 : t \in Waiting} :
                  \A t \in Waiting : number[t] < n}

Heads_Any == IF Waiting = {} THEN {None} ELSE Waiting

\* Whom _promote_next_waitlist may return: ORDER BY waitlist_number LIMIT 1.
Heads == IF Waiting = {} THEN {None}
         ELSE {t \in Waiting : \A r \in Waiting : number[t] <= number[r]}

----------------------------------------------------------------------------
(* create_registration *)

\* check_eligibility lets u through: no active row of u; role, lock of the
\* account, status and window of the event are answers of other services.  The
\* new row's uuid is drawn here; nobody sees it before the INSERT.
BeginRegister(w, u, t) ==
  /\ req[w].at = "idle"
  /\ ~HasActive(u)
  /\ status[t] = "absent"
  /\ \A v \in Worker : req[v].tx # t
  /\ req' = [req EXCEPT ![w] = [Idle EXCEPT !.at = "eligible", !.user = u, !.tx = t]]
  /\ UNCHANGED <<table, lock>>

\* Under the lock: seat if the fresh count is below the limit, else a number.
DecidePlace(w) ==
  /\ req[w].at = "eligible"
  /\ TakeLock(w)
  /\ \E n \in (IF Full THEN NextNumbers ELSE {0}) :
       req' = [req EXCEPT ![w] = [@ EXCEPT !.at = "counted", !.slot = n]]
  /\ UNCHANGED table

\* INSERT and commit, which gives the lock back.
InsertRow(w) ==
  LET t == req[w].tx
      n == req[w].slot
  IN  /\ req[w].at = "counted"
      /\ IndexAdmits(req[w].user)
      /\ status' = [status EXCEPT ![t] = IF n = 0 THEN "confirmed" ELSE "waitlist"]
      /\ owner'  = [owner EXCEPT ![t] = req[w].user]
      /\ number' = [number EXCEPT ![t] = n]
      /\ req' = [req EXCEPT ![w] = Issuing(IF n = 0 THEN t ELSE None)]
      /\ ReleaseLock(w)
      /\ UNCHANGED ticket

\* IntegrityError at the INSERT: rollback and 409 ALREADY_REGISTERED.
InsertConflict(w) ==
  /\ req[w].at = "counted"
  /\ ~IndexAdmits(req[w].user)
  /\ req' = [req EXCEPT ![w] = Idle]
  /\ ReleaseLock(w)
  /\ UNCHANGED table

----------------------------------------------------------------------------
(* _issue_and_attach_ticket, for a new seat or a promoted one *)

\* The ticket service answered k: UPDATE ticket_id of the row, whatever its
\* status is by now, without the lock.
AttachTicket(w, k) ==
  /\ req[w].at = "issuing"
  /\ status[req[w].tx] # "deleted"
  /\ ticket' = [ticket EXCEPT ![req[w].tx] = k]
  /\ req' = [req EXCEPT ![w] = Idle]
  /\ UNCHANGED <<status, owner, number, lock>>

\* The call failed (logged, the seat stays without a ticket), or the UPDATE
\* met no row (StaleDataError).
IssueFails(w) ==
  /\ req[w].at = "issuing"
  /\ req' = [req EXCEPT ![w] = Idle]
  /\ UNCHANGED <<table, lock>>

----------------------------------------------------------------------------
(* cancel_registration *)

\* db.get: the status and the ticket id this request will go by.
ReadForCancel(w, t) ==
  /\ req[w].at = "idle"
  /\ status[t] \in Active
  /\ req' = [req EXCEPT ![w] = [Idle EXCEPT !.at = "read", !.tx = t,
                                            !.seen = status[t], !.held = ticket[t]]]
  /\ UNCHANGED <<table, lock>>

\* get_event: NOT_CANCELLABLE or PAST_CANCELLATION_DEADLINE for a seat, or the
\* event service does not answer.
RefuseCancel(w) ==
  /\ req[w].at = "read"
  /\ req' = [req EXCEPT ![w] = Idle]
  /\ UNCHANGED <<table, lock>>

AdmitCancel(w) ==
  /\ req[w].at = "read"
  /\ req' = [req EXCEPT ![w].at = "admitted"]
  /\ UNCHANGED <<table, lock>>

\* old_status was "confirmed": the UPDATE of the row is flushed, uncommitted,
\* by the query for the successor.
ChooseSuccessor(w) ==
  /\ req[w].at = "admitted"
  /\ req[w].seen = "confirmed"
  /\ TakeLock(w)
  /\ status[req[w].tx] # "deleted"
  /\ \E h \in Heads :
       req' = [req EXCEPT ![w] = [@ EXCEPT !.at = "promoting", !.next = h]]
  /\ UNCHANGED table

LockForWithdrawal_NoLock(w) ==
  /\ req[w].at = "admitted"
  /\ req[w].seen = "waitlist"
  /\ req' = [req EXCEPT ![w].at = "withdrawing"]
  /\ UNCHANGED <<table, lock>>

\* old_status was "waitlist": nothing is read under the lock.
LockForWithdrawal(w) ==
  /\ req[w].at = "admitted"
  /\ req[w].seen = "waitlist"
  /\ TakeLock(w)
  /\ req' = [req EXCEPT ![w].at = "withdrawing"]
  /\ UNCHANGED table

CommitCancel_StaysWaiting(w) ==
  LET t == req[w].tx
      s == req[w].next
  IN  /\ req[w].at \in {"promoting", "withdrawing"}
      /\ status[t] # "deleted"
      /\ status' = [r \in Tx |-> IF r = t THEN "cancelled"
                                 ELSE IF r = s THEN "waitlist" ELSE status[r]]
      /\ req' = [req EXCEPT ![w] = Issuing(s)]
      /\ ReleaseLock(w)
      /\ UNCHANGED <<owner, number, ticket>>

\* Commit: row cancelled, successor confirmed, lock given back.  ticket_id is
\* written only if the row had one when it was loaded (the ORM emits changed
\* columns); the waitlist number of a cancelled row stays.
CommitCancel(w) ==
  LET t == req[w].tx
      s == req[w].next
  IN  /\ req[w].at \in {"promoting", "withdrawing"}
      /\ status[t] # "deleted"
      /\ status' = [r \in Tx |-> IF r = t THEN "cancelled"
                                 ELSE IF r = s THEN "confirmed" ELSE status[r]]
      /\ number' = [r \in Tx |-> IF r = s THEN 0 ELSE number[r]]
      /\ ticket' = [ticket EXCEPT ![t] = IF req[w].held = None THEN @ ELSE None]
      /\ req' = [req EXCEPT ![w] =
                   IF req[w].held = None THEN Issuing(s)
                   ELSE [Idle EXCEPT !.at = "voiding", !.held = req[w].held, !.next = s]]
      /\ ReleaseLock(w)
      /\ UNCHANGED owner

\* The UPDATE of the cancelled row met no row, when it was flushed before the
\* search for a successor or at the commit: StaleDataError, rollback.
CancelRowGone(w) ==
  /\ \/ req[w].at = "admitted" /\ req[w].seen = "confirmed" /\ lock = None
     \/ req[w].at = "withdrawing"
  /\ status[req[w].tx] = "deleted"
  /\ req' = [req EXCEPT ![w] = Idle]
  /\ ReleaseLock(w)
  /\ UNCHANGED table

\* void_ticket answered or failed (logged): on to the successor's ticket.
VoidAnswered(w) ==
  /\ req[w].at = "voiding"
  /\ req' = [req EXCEPT ![w] = Issuing(req[w].next)]
  /\ UNCHANGED <<table, lock>>

----------------------------------------------------------------------------
(* delete_event_registrations: one DELETE, which takes no advisory lock.   *)
(* It waits for the row a promoting cancellation has already written.      *)

DeleteEventRegistrations ==
  /\ \A w \in Worker : req[w].at # "promoting"
  /\ \E t \in Tx : status[t] \notin {"absent", "deleted"}
  /\ status' = [t \in Tx |-> IF status[t] = "absent" THEN "absent" ELSE "deleted"]
  /\ owner'  = [t \in Tx |-> None]
  /\ number' = [t \in Tx |-> 0]
  /\ ticket' = [t \in Tx |-> None]
  /\ UNCHANGED <<lock, req>>

\* A request dies between two steps (crash, lost database connection, deadlock
\* victim, failed refresh): its open transaction is rolled back.
Abort(w) ==
  /\ req[w].at # "idle"
  /\ req' = [req EXCEPT ![w] = Idle]
  /\ ReleaseLock(w)
  /\ UNCHANGED table

----------------------------------------------------------------------------
Begin(w) == \/ \E u \in User, t \in Tx : BeginRegister(w, u, t)
            \/ \E t \in Tx : ReadForCancel(w, t)

WaitForLock(w) == \/ DecidePlace(w) \/ ChooseSuccessor(w) \/ LockForWithdrawal(w)
                  \/ CancelRowGone(w)

Continue(w) == \/ InsertRow(w) \/ InsertConflict(w)
               \/ \E k \in Ticket : AttachTicket(w, k)
               \/ IssueFails(w)
               \/ RefuseCancel(w) \/ AdmitCancel(w)
               \/ CommitCancel(w) \/ VoidAnswered(w)

RequestStep(w) == Begin(w) \/ WaitForLock(w) \/ Continue(w) \/ Abort(w)

Next == DeleteEventRegistrations \/ \E w \in Worker : RequestStep(w)

Spec == Init /\ [][Next]_vars

(* Nothing makes a client send a request, or a request die.  A request that *)
(* can go on does: handlers run to completion and every HTTP call ends,     *)
(* after its 5 s timeout at the latest.  PostgreSQL queues lock requests,   *)
(* so a request that waits for the lock gets it if it keeps being released. *)
Fairness == \A w \in Worker : WF_vars(Continue(w)) /\ SF_vars(WaitForLock(w))

FairSpec == Spec /\ Fairness

----------------------------------------------------------------------------
(* Environments.  Two hazards of the code are about overlapping requests;   *)
(* each environment rules out one kind of overlap and nothing else, which   *)
(* says what the lock by itself does not give.                              *)

Cancelling == {"read", "admitted", "promoting", "withdrawing"}

\* Nobody deletes the event.
RequestsSpec == Init /\ [][\E w \in Worker : RequestStep(w)]_vars

\* No registration is cancelled by two requests at once (a double click, a retry).
OneCancelPerRow ==
  \A v, w \in Worker :
    v # w /\ req[v].at \in Cancelling /\ req[w].at \in Cancelling
      => req[v].tx # req[w].tx

SoloSpec == Init /\ [][Next /\ OneCancelPerRow']_vars

\* Cancellations follow one another, and the DELETE waits for the lock, as they
\* would if both read the rows under it.
OneCancelAtATime ==
  \A v, w \in Worker : req[v].at \in Cancelling /\ req[w].at \in Cancelling => v = w

CalmNext == /\ \/ lock = None /\ DeleteEventRegistrations
               \/ \E w \in Worker : RequestStep(w)
            /\ OneCancelAtATime'

CalmSpec == Init /\ [][CalmNext]_vars

\* Request w still has to get row t its ticket.
Owes(w, t) == \/ req[w].at = "issuing" /\ req[w].tx = t
              \/ req[w].at = "voiding" /\ req[w].next = t

\* No registration is cancelled while its ticket is on its way.
TicketsSettled ==
  \A v, w \in Worker : req[v].at \in Cancelling => ~Owes(w, req[v].tx)

SettledSpec == Init /\ [][Next /\ TicketsSettled']_vars

\* The seats and the waitlist this table stands for.
Ahead == {p \in Waiting \X Waiting : number[p[1]] < number[p[2]]}
Gone  == {t \in Tx : status[t] \in {"cancelled", "deleted"}}

Seats == INSTANCE SeatAllocation WITH
  seated <- Confirmed, waiting <- Waiting, ahead <- Ahead, gone <- Gone

----------------------------------------------------------------------------
(* Properties *)

\* Columns and locals stay in their domains.
TypeOK ==
  /\ status \in [Tx -> {"absent", "deleted", "confirmed", "waitlist", "cancelled"}]
  /\ owner \in [Tx -> User \cup {None}]
  /\ number \in [Tx -> Nat]
  /\ ticket \in [Tx -> Ticket \cup {None}]
  /\ lock \in Worker \cup {None}
  /\ req \in [Worker -> Request]

\* Nobody holds two active registrations for the event, although eligibility is
\* checked outside the lock and rows are reactivated by nobody.
OneActivePerUser ==
  \A t, r \in Tx :
    t # r /\ status[t] \in Active /\ status[r] \in Active => owner[t] # owner[r]

\* The waitlist is a queue with one place per number: no two waiting rows share
\* one, whatever was cancelled, promoted or deleted since the number was drawn.
WaitlistNumbersUnique ==
  \A t, r \in Waiting : t # r => number[t] # number[r]

\* No more seats are confirmed than the event has.
NoOversell == HasLimit => Cardinality(Confirmed) <= Limit

\* Nobody waits while a seat is free.
NoIdleSeat == Waiting # {} => HasLimit /\ Cardinality(Confirmed) >= Limit

\* A cancelled registration has no ticket.
CancelledHoldsNoTicket ==
  \A t \in Tx : status[t] = "cancelled" => ticket[t] = None

\* Where cancellations follow one another, requests, lock and table together do
\* what SeatAllocation says.
SeatsImplemented == Seats!ASpec

\* A new registration takes a seat only if there is one: the count it decided by
\* is still right when its INSERT commits.
RegistrationRespectsLimit ==
  [][\A t \in Tx : status[t] = "absent" /\ status'[t] = "confirmed"
                   => NoOversell']_vars

\* The waitlist is first come, first served.  Who joins goes behind everyone
\* waiting, who is promoted was ahead of everyone who still waits, and the
\* others keep their numbers.
QueueDiscipline ==
  [][\A t, r \in Tx :
       status[r] = "waitlist" /\ status'[r] = "waitlist" =>
         /\ number'[r] = number[r]
         /\ status[t] # "waitlist" /\ status'[t] = "waitlist" => number[r] < number'[t]
         /\ status[t] = "waitlist" /\ status'[t] = "confirmed" => number[t] < number[r]]_vars

\* A cancelled registration stays cancelled until its event is deleted: no
\* promotion chosen before the cancellation gives it a seat after it.
CancelledIsFinal ==
  [][\A t \in Tx : status[t] = "cancelled" => status'[t] \in {"cancelled", "deleted"}]_vars

\* At most one ticket is ever attached to a registration: no two requests owe it
\* one, so no ticket id is overwritten, and a waiting row has none.
OneTicketPerRegistration ==
  [][\A t \in Tx : ticket'[t] # ticket[t] => None \in {ticket[t], ticket'[t]}]_vars

\* Every request ends: the lock is never kept by a request that waits for
\* something else, and no wait for it is forever.
EveryRequestEnds == \A w \in Worker : []<>(req[w].at = "idle")

----------------------------------------------------------------------------
(* The inductive invariant behind the properties (RegistrationsProofs). *)

\* Exactly the request in its critical section holds the lock.
LockInv == \A w \in Worker : lock = w <=> req[w].at \in Locked

\* Columns that are NULL by status.
RowInv ==
  \A t \in Tx :
    /\ status[t] \in {"absent", "deleted"} => ticket[t] = None
    /\ status[t] = "waitlist" => ticket[t] = None /\ number[t] >= 1

\* What a request knows of its row at each stage.
RequestInv ==
  \A w \in Worker :
    /\ req[w].at = "idle" => req[w] = Idle
    /\ req[w].at \in {"eligible", "counted"} =>
         req[w].user \in User /\ req[w].tx \in Tx /\ status[req[w].tx] = "absent"
    /\ req[w].at \in Cancelling =>
         req[w].seen \in Active /\ req[w].tx \in Tx /\ status[req[w].tx] # "absent"
    /\ req[w].at = "issuing" => req[w].tx \in Tx
    /\ req[w].at \notin {"promoting", "voiding"} => req[w].next = None
    /\ req[w].at = "promoting" => req[w].seen = "confirmed"
    /\ req[w].at = "withdrawing" => req[w].seen = "waitlist"

\* A uuid drawn and not yet inserted is known to one request only.
FreshInv ==
  \A v, w \in Worker :
    v # w /\ req[v].at \in {"eligible", "counted"} => req[v].tx # req[w].tx

\* What was read under the lock is still so.
PlaceInv ==
  \A w \in Worker :
    /\ req[w].at = "counted" =>
         /\ req[w].slot = 0 => ~Full
         /\ req[w].slot > 0 => \A t \in Waiting : number[t] < req[w].slot
    /\ req[w].at = "promoting" => req[w].next \in Heads

\* A row is owed a ticket by one request at most, and then has none.
OwedInv ==
  \A w \in Worker, t \in Tx :
    Owes(w, t) => /\ status[t] \notin {"absent", "waitlist"}
                  /\ ticket[t] = None
                  /\ \A v \in Worker : v # w => ~Owes(v, t)

\* A seat that a cancellation has read does not wait again.
SeenInv ==
  \A w \in Worker : req[w].at \in Cancelling /\ req[w].seen = "confirmed"
                    => status[req[w].tx] \in {"confirmed", "cancelled", "deleted"}

IInv == /\ TypeOK /\ LockInv /\ RowInv /\ RequestInv /\ FreshInv /\ PlaceInv /\ OwedInv /\ SeenInv
        /\ OneActivePerUser /\ WaitlistNumbersUnique /\ IsFiniteSet(Confirmed)

\* Nobody else cancels the seat a cancellation has read.
SoloInv ==
  /\ OneCancelPerRow
  /\ \A w \in Worker : req[w].at \in Cancelling /\ req[w].seen = "confirmed"
                      => status[req[w].tx] \in {"confirmed", "deleted"}

\* A ticket that is attached while a cancellation runs is one it has read, and no
\* cancelled registration is owed one.
SettledInv ==
  /\ TicketsSettled
  /\ \A w \in Worker : req[w].at \in Cancelling /\ req[w].held = None => ticket[req[w].tx] = None
  /\ \A w \in Worker, t \in Tx : status[t] = "cancelled" => ~Owes(w, t)
  /\ CancelledHoldsNoTicket

\* The status a cancellation has read is the row's, unless the row is gone, and
\* a place on the waitlist is only given while the event is full.
CalmInv ==
  /\ OneCancelAtATime
  /\ \A w \in Worker :
       /\ req[w].at \in Cancelling => status[req[w].tx] \in {req[w].seen, "deleted"}
       /\ req[w].at = "counted" /\ req[w].slot > 0 => Full
=============================================================================
