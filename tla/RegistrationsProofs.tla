------------------------ MODULE RegistrationsProofs ------------------------
(* Theorems about Registrations, for every number of users, requests and   *)
(* registrations and every limit.                                          *)
EXTENDS Registrations, FiniteSetTheorems, TLAPS

\* A step of the code is a step of one of its actions.
LEMMA NextCases ==
  ASSUME Next
  PROVE  \/ DeleteEventRegistrations
         \/ \E w \in Worker :
              \/ \E u \in User, t \in Tx : BeginRegister(w, u, t)
              \/ DecidePlace(w) \/ InsertRow(w) \/ InsertConflict(w)
              \/ \E k \in Ticket : AttachTicket(w, k)
              \/ IssueFails(w)
              \/ \E t \in Tx : ReadForCancel(w, t)
              \/ RefuseCancel(w) \/ AdmitCancel(w)
              \/ ChooseSuccessor(w) \/ LockForWithdrawal(w)
              \/ CommitCancel(w) \/ CancelRowGone(w) \/ VoidAnswered(w) \/ Abort(w)
BY DEF Next, RequestStep, Begin, WaitForLock, Continue

\* The locals a handler writes are again the locals of a request.
LEMMA RequestForms ==
  /\ Idle \in Request
  /\ \A x \in Tx \cup {None} : Issuing(x) \in Request
  /\ \A u \in User, t \in Tx :
       [Idle EXCEPT !.at = "eligible", !.user = u, !.tx = t] \in Request
  /\ \A t \in Tx, s \in Active, k \in Ticket \cup {None} :
       [Idle EXCEPT !.at = "read", !.tx = t, !.seen = s, !.held = k] \in Request
  /\ \A k \in Ticket \cup {None}, x \in Tx \cup {None} :
       [Idle EXCEPT !.at = "voiding", !.held = k, !.next = x] \in Request
  /\ \A r \in Request, s \in Stage : [r EXCEPT !.at = s] \in Request
  /\ \A r \in Request, n \in Nat : [r EXCEPT !.at = "counted", !.slot = n] \in Request
  /\ \A r \in Request, x \in Tx \cup {None} :
       [r EXCEPT !.at = "promoting", !.next = x] \in Request
<1> USE DEF Request, Stage, Active, Idle
<1>1. Idle \in Request
  OBVIOUS
<1>2. \A x \in Tx \cup {None} : Issuing(x) \in Request
  BY DEF Issuing
<1>3. \A u \in User, t \in Tx :
        [Idle EXCEPT !.at = "eligible", !.user = u, !.tx = t] \in Request
  OBVIOUS
<1>4. \A t \in Tx, s \in Active, k \in Ticket \cup {None} :
        [Idle EXCEPT !.at = "read", !.tx = t, !.seen = s, !.held = k] \in Request
  OBVIOUS
<1>5. \A k \in Ticket \cup {None}, x \in Tx \cup {None} :
        [Idle EXCEPT !.at = "voiding", !.held = k, !.next = x] \in Request
  OBVIOUS
<1>6. \A r \in Request, s \in Stage : [r EXCEPT !.at = s] \in Request
  OBVIOUS
<1>7. \A r \in Request, n \in Nat : [r EXCEPT !.at = "counted", !.slot = n] \in Request
  OBVIOUS
<1>8. \A r \in Request, x \in Tx \cup {None} :
        [r EXCEPT !.at = "promoting", !.next = x] \in Request
  OBVIOUS
<1>9. QED
  BY <1>1, <1>2, <1>3, <1>4, <1>5, <1>6, <1>7, <1>8

\* A waitlist number is a positive number, and larger than any in use.
LEMMA NextNumbersAreFresh ==
  ASSUME TypeOK, NEW n \in NextNumbers
  PROVE  /\ n \in Nat /\ n >= 1
         /\ \A t \in Waiting : number[t] < n
<1>1. \A t \in Waiting : number[t] \in Nat
  BY DEF TypeOK, Waiting
<1>2. QED
  BY <1>1 DEF NextNumbers

\* Only a waiting row is ever promoted.
LEMMA HeadsWait ==
  ASSUME NEW h \in Heads
  PROVE  /\ h # None => h \in Waiting
         /\ h \in Waiting => \A r \in Waiting : number[h] <= number[r]
         /\ h = None \/ h \in Waiting
         /\ h = None => Waiting = {}
<1>1. None \notin Waiting
  BY NoneAssumption DEF Waiting
<1>2. QED
  BY <1>1 DEF Heads

----------------------------------------------------------------------------
\* Every step keeps the columns and the locals in their domains.
LEMMA TypeStep ==
  ASSUME TypeOK, [Next]_vars
  PROVE  TypeOK'
<1>1. CASE UNCHANGED vars
  BY <1>1 DEF vars, TypeOK
<1>2. CASE DeleteEventRegistrations
  BY <1>2 DEF DeleteEventRegistrations, TypeOK
<1>3. ASSUME NEW w \in Worker, NEW u \in User, NEW t \in Tx, BeginRegister(w, u, t)
      PROVE  TypeOK'
  BY <1>3, RequestForms DEF BeginRegister, table, TypeOK
<1>4. ASSUME NEW w \in Worker, DecidePlace(w)
      PROVE  TypeOK'
  <2>1. PICK n \in (IF Full THEN NextNumbers ELSE {0}) :
          req' = [req EXCEPT ![w] = [@ EXCEPT !.at = "counted", !.slot = n]]
    BY <1>4 DEF DecidePlace
  <2>2. n \in Nat
    BY NextNumbersAreFresh
  <2>3. req' \in [Worker -> Request]
    BY <2>1, <2>2, RequestForms DEF TypeOK
  <2>4. QED
    BY <1>4, <2>3 DEF DecidePlace, TakeLock, table, TypeOK
<1>5. ASSUME NEW w \in Worker, InsertRow(w)
      PROVE  TypeOK'
  <2>1. req[w] \in Request
    BY DEF TypeOK
  <2>2. /\ req[w].slot \in Nat
        /\ req[w].tx \in Tx \cup {None}
        /\ req[w].user \in User \cup {None}
    BY <2>1 DEF Request
  <2>3. req' \in [Worker -> Request]
    BY <1>5, <2>2, RequestForms DEF InsertRow, TypeOK
  <2>4. QED
    BY <1>5, <2>2, <2>3 DEF InsertRow, ReleaseLock, TypeOK
<1>6. ASSUME NEW w \in Worker, InsertConflict(w)
      PROVE  TypeOK'
  BY <1>6, RequestForms DEF InsertConflict, ReleaseLock, table, TypeOK
<1>7. ASSUME NEW w \in Worker, NEW k \in Ticket, AttachTicket(w, k)
      PROVE  TypeOK'
  BY <1>7, RequestForms DEF AttachTicket, TypeOK
<1>8. ASSUME NEW w \in Worker, IssueFails(w)
      PROVE  TypeOK'
  BY <1>8, RequestForms DEF IssueFails, table, TypeOK
<1>9. ASSUME NEW w \in Worker, NEW t \in Tx, ReadForCancel(w, t)
      PROVE  TypeOK'
  <2>1. status[t] \in Active /\ ticket[t] \in Ticket \cup {None}
    BY <1>9 DEF ReadForCancel, TypeOK
  <2>2. QED
    BY <1>9, <2>1, RequestForms DEF ReadForCancel, table, TypeOK
<1>10. ASSUME NEW w \in Worker, RefuseCancel(w) \/ AdmitCancel(w) \/ LockForWithdrawal(w)
       PROVE  TypeOK'
  <2>1. req' = [req EXCEPT ![w] = Idle]
        \/ \E s \in Stage : req' = [req EXCEPT ![w] = [@ EXCEPT !.at = s]]
    BY <1>10 DEF RefuseCancel, AdmitCancel, LockForWithdrawal, Stage
  <2>2. CASE req' = [req EXCEPT ![w] = Idle]
    BY <1>10, <2>2, RequestForms DEF RefuseCancel, AdmitCancel, LockForWithdrawal, TakeLock,
                                     table, TypeOK
  <2>3. ASSUME NEW s \in Stage, req' = [req EXCEPT ![w] = [@ EXCEPT !.at = s]]
        PROVE  TypeOK'
    <3>1. [req[w] EXCEPT !.at = s] \in Request
      BY RequestForms DEF TypeOK
    <3>2. req' \in [Worker -> Request]
      BY <2>3, <3>1 DEF TypeOK
    <3>3. QED
      BY <1>10, <3>2 DEF RefuseCancel, AdmitCancel, LockForWithdrawal, TakeLock, table, TypeOK
  <2>4. QED
    BY <2>1, <2>2, <2>3
<1>11. ASSUME NEW w \in Worker, ChooseSuccessor(w)
       PROVE  TypeOK'
  <2>1. PICK h \in Heads : req' = [req EXCEPT ![w] = [@ EXCEPT !.at = "promoting", !.next = h]]
    BY <1>11 DEF ChooseSuccessor
  <2>2. h \in Tx \cup {None}
    BY HeadsWait DEF Waiting
  <2>3. req' \in [Worker -> Request]
    BY <2>1, <2>2, RequestForms DEF TypeOK
  <2>4. QED
    BY <1>11, <2>3 DEF ChooseSuccessor, TakeLock, table, TypeOK
<1>12. ASSUME NEW w \in Worker, CommitCancel(w)
       PROVE  TypeOK'
  <2>1. req[w].next \in Tx \cup {None} /\ req[w].held \in Ticket \cup {None}
    BY DEF TypeOK, Request
  <2>2. req' \in [Worker -> Request]
    BY <1>12, <2>1, RequestForms DEF CommitCancel, TypeOK
  <2>3. ticket' \in [Tx -> Ticket \cup {None}]
    BY <1>12 DEF CommitCancel, TypeOK
  <2>4. QED
    BY <1>12, <2>2, <2>3 DEF CommitCancel, ReleaseLock, TypeOK
<1>13. ASSUME NEW w \in Worker, CancelRowGone(w) \/ VoidAnswered(w) \/ Abort(w)
       PROVE  TypeOK'
  <2>1. req[w].next \in Tx \cup {None}
    BY DEF TypeOK, Request
  <2>2. req' \in [Worker -> Request]
    BY <1>13, <2>1, RequestForms DEF CancelRowGone, VoidAnswered, Abort, TypeOK
  <2>3. QED
    BY <1>13, <2>2 DEF CancelRowGone, VoidAnswered, Abort, ReleaseLock, table, TypeOK
<1>14. CASE Next
  BY <1>14, <1>2, <1>3, <1>4, <1>5, <1>6, <1>7, <1>8, <1>9, <1>10, <1>11, <1>12, <1>13, NextCases
<1>15. QED
  BY <1>1, <1>14

\* Every reachable state is well typed.
THEOREM TypeCorrect == Spec => []TypeOK
<1>1. Init => TypeOK
  <2>1. Idle \in Request
    BY RequestForms
  <2>2. QED
    BY <2>1 DEF Init, TypeOK
<1>2. TypeOK /\ [Next]_vars => TypeOK'
  BY TypeStep
<1>3. QED
  BY <1>1, <1>2, PTL DEF Spec

----------------------------------------------------------------------------
(* What each step does to the request that takes it, field by field.       *)

\* The other requests keep their stage and locals.
OthersKeep(w) == \A v \in Worker : v # w => req'[v] = req[v]

TableKept == /\ status' = status /\ owner' = owner
             /\ number' = number /\ ticket' = ticket

\* Locals of a request that has ended.
LEMMA IdleFields ==
  /\ Idle.at = "idle" /\ Idle.tx = None /\ Idle.next = None
BY DEF Idle

\* Locals of a request that has a ticket left to issue.
LEMMA IssuingFields ==
  ASSUME NEW x \in Tx \cup {None}
  PROVE  /\ Issuing(x).next = None
         /\ x = None => Issuing(x) = Idle
         /\ x # None => Issuing(x).at = "issuing" /\ Issuing(x).tx = x
BY DEF Issuing, Idle

LEMMA BeginRegisterEffect ==
  ASSUME TypeOK, NEW w \in Worker, NEW u \in User, NEW t \in Tx, BeginRegister(w, u, t)
  PROVE  /\ OthersKeep(w) /\ TableKept /\ lock' = lock
         /\ req[w].at = "idle" /\ status[t] = "absent"
         /\ \A v \in Worker : req[v].tx # t
         /\ req'[w].at = "eligible" /\ req'[w].user = u /\ req'[w].tx = t
         /\ req'[w].next = None
BY DEF BeginRegister, table, TypeOK, OthersKeep, TableKept, Idle

LEMMA DecidePlaceEffect ==
  ASSUME TypeOK, NEW w \in Worker, DecidePlace(w)
  PROVE  /\ OthersKeep(w) /\ TableKept /\ lock = None /\ lock' = w
         /\ req[w].at = "eligible"
         /\ req'[w].at = "counted" /\ req'[w].user = req[w].user
         /\ req'[w].tx = req[w].tx /\ req'[w].next = req[w].next
         /\ req'[w].slot \in (IF Full THEN NextNumbers ELSE {0})
<1>1. PICK n \in (IF Full THEN NextNumbers ELSE {0}) :
        req' = [req EXCEPT ![w] = [@ EXCEPT !.at = "counted", !.slot = n]]
  BY DEF DecidePlace
<1>2. req'[w] = [req[w] EXCEPT !.at = "counted", !.slot = n]
  BY <1>1 DEF TypeOK
<1>3. req[w] \in Request
  BY DEF TypeOK
<1>4. /\ req'[w].at = "counted" /\ req'[w].user = req[w].user
      /\ req'[w].tx = req[w].tx /\ req'[w].next = req[w].next /\ req'[w].slot = n
  BY <1>2, <1>3 DEF Request
<1>5. OthersKeep(w)
  BY <1>1 DEF OthersKeep, TypeOK
<1>6. QED
  BY <1>4, <1>5 DEF DecidePlace, TakeLock, table, TableKept

LEMMA InsertRowEffect ==
  ASSUME TypeOK, NEW w \in Worker, InsertRow(w)
  PROVE  /\ OthersKeep(w)
         /\ req[w].at = "counted" /\ ~HasActive(req[w].user)
         /\ req[w].slot \in Nat
         /\ \A t \in Tx :
              IF t = req[w].tx
              THEN /\ status'[t] = IF req[w].slot = 0 THEN "confirmed" ELSE "waitlist"
                   /\ owner'[t] = req[w].user /\ number'[t] = req[w].slot
              ELSE status'[t] = status[t] /\ owner'[t] = owner[t] /\ number'[t] = number[t]
         /\ ticket' = ticket
         /\ lock' = IF lock = w THEN None ELSE lock
         /\ req'[w] = Issuing(IF req[w].slot = 0 THEN req[w].tx ELSE None)
<1>1. req[w].slot \in Nat
  BY DEF TypeOK, Request
<1>2. \A t \in Tx :
        IF t = req[w].tx
        THEN /\ status'[t] = IF req[w].slot = 0 THEN "confirmed" ELSE "waitlist"
             /\ owner'[t] = req[w].user /\ number'[t] = req[w].slot
        ELSE status'[t] = status[t] /\ owner'[t] = owner[t] /\ number'[t] = number[t]
  BY DEF InsertRow, TypeOK
<1>3. /\ OthersKeep(w)
      /\ req'[w] = Issuing(IF req[w].slot = 0 THEN req[w].tx ELSE None)
  BY DEF InsertRow, TypeOK, OthersKeep
<1>4. QED
  BY <1>1, <1>2, <1>3 DEF InsertRow, IndexAdmits, ReleaseLock

\* Requests that end without touching the table.
LEMMA GiveUpEffect ==
  ASSUME TypeOK, NEW w \in Worker,
         \/ InsertConflict(w) \/ IssueFails(w) \/ RefuseCancel(w)
         \/ CancelRowGone(w) \/ Abort(w)
  PROVE  /\ OthersKeep(w) /\ TableKept /\ req'[w] = Idle
         /\ lock' = IF req[w].at \in {"issuing", "read"} /\ ~Abort(w) THEN lock
                    ELSE IF lock = w THEN None ELSE lock
BY DEF InsertConflict, IssueFails, RefuseCancel, CancelRowGone, Abort, ReleaseLock, table,
       TypeOK, OthersKeep, TableKept

LEMMA AttachTicketEffect ==
  ASSUME TypeOK, NEW w \in Worker, NEW k \in Ticket, AttachTicket(w, k)
  PROVE  /\ OthersKeep(w) /\ req'[w] = Idle /\ lock' = lock
         /\ req[w].at = "issuing" /\ status[req[w].tx] # "deleted"
         /\ status' = status /\ owner' = owner /\ number' = number
         /\ ticket' = [ticket EXCEPT ![req[w].tx] = k]
BY DEF AttachTicket, TypeOK, OthersKeep

LEMMA ReadForCancelEffect ==
  ASSUME TypeOK, NEW w \in Worker, NEW t \in Tx, ReadForCancel(w, t)
  PROVE  /\ OthersKeep(w) /\ TableKept /\ lock' = lock
         /\ req[w].at = "idle" /\ status[t] \in Active
         /\ req'[w].at = "read" /\ req'[w].tx = t /\ req'[w].seen = status[t]
         /\ req'[w].held = ticket[t] /\ req'[w].next = None
BY DEF ReadForCancel, table, TypeOK, OthersKeep, TableKept, Idle

LEMMA AdmitCancelEffect ==
  ASSUME TypeOK, NEW w \in Worker, AdmitCancel(w)
  PROVE  /\ OthersKeep(w) /\ TableKept /\ lock' = lock
         /\ req[w].at = "read" /\ req'[w].at = "admitted"
         /\ req'[w].tx = req[w].tx /\ req'[w].seen = req[w].seen
         /\ req'[w].held = req[w].held /\ req'[w].next = req[w].next
<1>1. req[w] \in Request /\ req'[w] = [req[w] EXCEPT !.at = "admitted"]
  BY DEF AdmitCancel, TypeOK
<1>2. QED
  BY <1>1 DEF AdmitCancel, table, TypeOK, OthersKeep, TableKept, Request

LEMMA ChooseSuccessorEffect ==
  ASSUME TypeOK, NEW w \in Worker, ChooseSuccessor(w)
  PROVE  /\ OthersKeep(w) /\ TableKept /\ lock = None /\ lock' = w
         /\ req[w].at = "admitted" /\ req[w].seen = "confirmed"
         /\ status[req[w].tx] # "deleted"
         /\ req'[w].at = "promoting" /\ req'[w].tx = req[w].tx
         /\ req'[w].seen = req[w].seen /\ req'[w].held = req[w].held
         /\ req'[w].next \in Heads
<1>1. PICK h \in Heads : req' = [req EXCEPT ![w] = [@ EXCEPT !.at = "promoting", !.next = h]]
  BY DEF ChooseSuccessor
<1>2. req[w] \in Request /\ req'[w] = [req[w] EXCEPT !.at = "promoting", !.next = h]
  BY <1>1 DEF TypeOK
<1>3. /\ req'[w].at = "promoting" /\ req'[w].tx = req[w].tx
      /\ req'[w].seen = req[w].seen /\ req'[w].held = req[w].held /\ req'[w].next = h
  BY <1>2 DEF Request
<1>4. OthersKeep(w)
  BY <1>1 DEF OthersKeep, TypeOK
<1>5. QED
  BY <1>3, <1>4 DEF ChooseSuccessor, TakeLock, table, TableKept

LEMMA LockForWithdrawalEffect ==
  ASSUME TypeOK, NEW w \in Worker, LockForWithdrawal(w)
  PROVE  /\ OthersKeep(w) /\ TableKept /\ lock = None /\ lock' = w
         /\ req[w].at = "admitted" /\ req[w].seen = "waitlist"
         /\ req'[w].at = "withdrawing" /\ req'[w].tx = req[w].tx
         /\ req'[w].seen = req[w].seen /\ req'[w].held = req[w].held
         /\ req'[w].next = req[w].next
<1>1. req[w] \in Request /\ req'[w] = [req[w] EXCEPT !.at = "withdrawing"]
  BY DEF LockForWithdrawal, TypeOK
<1>2. QED
  BY <1>1 DEF LockForWithdrawal, TakeLock, table, TypeOK, OthersKeep, TableKept, Request

LEMMA CommitCancelEffect ==
  ASSUME TypeOK, NEW w \in Worker, CommitCancel(w)
  PROVE  /\ OthersKeep(w)
         /\ req[w].at \in {"promoting", "withdrawing"}
         /\ req[w].next \in Tx \cup {None} /\ status[req[w].tx] # "deleted"
         /\ \A r \in Tx : status'[r] = IF r = req[w].tx THEN "cancelled"
                                      ELSE IF r = req[w].next THEN "confirmed" ELSE status[r]
         /\ \A r \in Tx : number'[r] = IF r = req[w].next THEN 0 ELSE number[r]
         /\ \A r \in Tx : ticket'[r] \in {ticket[r], None}
         /\ owner' = owner
         /\ lock' = IF lock = w THEN None ELSE lock
         /\ \/ req'[w] = Issuing(req[w].next)
            \/ req'[w].at = "voiding" /\ req'[w].tx = None /\ req'[w].next = req[w].next
<1>1. req[w].next \in Tx \cup {None}
  BY DEF TypeOK, Request
<1>2. \A r \in Tx : ticket'[r] \in {ticket[r], None}
  BY DEF CommitCancel, TypeOK
<1>3. \/ req'[w] = Issuing(req[w].next)
      \/ req'[w].at = "voiding" /\ req'[w].tx = None /\ req'[w].next = req[w].next
  BY DEF CommitCancel, TypeOK, Idle
<1>4. QED
  BY <1>1, <1>2, <1>3 DEF CommitCancel, ReleaseLock, TypeOK, OthersKeep

LEMMA VoidAnsweredEffect ==
  ASSUME TypeOK, NEW w \in Worker, VoidAnswered(w)
  PROVE  /\ OthersKeep(w) /\ TableKept /\ lock' = lock
         /\ req[w].at = "voiding" /\ req[w].next \in Tx \cup {None}
         /\ req'[w] = Issuing(req[w].next)
<1>1. req[w].next \in Tx \cup {None}
  BY DEF TypeOK, Request
<1>2. QED
  BY <1>1 DEF VoidAnswered, table, TypeOK, OthersKeep, TableKept

----------------------------------------------------------------------------
\* Only the request that takes or gives back the lock enters or leaves a
\* critical section.
LEMMA LockStep ==
  ASSUME TypeOK, LockInv, [Next]_vars
  PROVE  LockInv'
<1> USE NoneAssumption, IdleFields, IssuingFields DEF LockInv, Locked, OthersKeep
<1>1. CASE UNCHANGED vars
  BY <1>1 DEF vars
<1>2. CASE DeleteEventRegistrations
  BY <1>2 DEF DeleteEventRegistrations
<1>3. ASSUME NEW w \in Worker, NEW u \in User, NEW t \in Tx, BeginRegister(w, u, t)
      PROVE  LockInv'
  BY <1>3, BeginRegisterEffect
<1>4. ASSUME NEW w \in Worker, DecidePlace(w)
      PROVE  LockInv'
  BY <1>4, DecidePlaceEffect
<1>5. ASSUME NEW w \in Worker, InsertRow(w)
      PROVE  LockInv'
  <2>1. (IF req[w].slot = 0 THEN req[w].tx ELSE None) \in Tx \cup {None}
    BY DEF TypeOK, Request
  <2>2. req'[w].at \notin Locked
    BY <1>5, <2>1, InsertRowEffect
  <2>3. QED
    BY <1>5, <2>2, InsertRowEffect
<1>6. ASSUME NEW w \in Worker, \/ InsertConflict(w) \/ IssueFails(w) \/ RefuseCancel(w)
                               \/ CancelRowGone(w) \/ Abort(w)
      PROVE  LockInv'
  BY <1>6, GiveUpEffect
<1>7. ASSUME NEW w \in Worker, NEW k \in Ticket, AttachTicket(w, k)
      PROVE  LockInv'
  BY <1>7, AttachTicketEffect
<1>8. ASSUME NEW w \in Worker, NEW t \in Tx, ReadForCancel(w, t)
      PROVE  LockInv'
  BY <1>8, ReadForCancelEffect
<1>9. ASSUME NEW w \in Worker, AdmitCancel(w)
      PROVE  LockInv'
  BY <1>9, AdmitCancelEffect
<1>10. ASSUME NEW w \in Worker, ChooseSuccessor(w)
       PROVE  LockInv'
  BY <1>10, ChooseSuccessorEffect
<1>11. ASSUME NEW w \in Worker, LockForWithdrawal(w)
       PROVE  LockInv'
  BY <1>11, LockForWithdrawalEffect
<1>12. ASSUME NEW w \in Worker, CommitCancel(w)
       PROVE  LockInv'
  <2>1. req'[w].at \notin Locked
    BY <1>12, CommitCancelEffect
  <2>2. QED
    BY <1>12, <2>1, CommitCancelEffect
<1>13. ASSUME NEW w \in Worker, VoidAnswered(w)
       PROVE  LockInv'
  <2>1. req'[w].at \notin Locked
    BY <1>13, VoidAnsweredEffect
  <2>2. QED
    BY <1>13, <2>1, VoidAnsweredEffect
<1> HIDE DEF LockInv
<1>14. CASE Next
  BY <1>14, <1>2, <1>3, <1>4, <1>5, <1>6, <1>7, <1>8, <1>9, <1>10, <1>11, <1>12, <1>13, NextCases
<1>15. QED
  BY <1>1, <1>14

\* The row of a request that inserts, attaches or cancels is a row.
LEMMA RequestTypes ==
  ASSUME TypeOK, NEW w \in Worker
  PROVE  /\ req[w].tx \in Tx \cup {None} /\ req[w].next \in Tx \cup {None}
         /\ req[w].user \in User \cup {None} /\ req[w].slot \in Nat
         /\ req[w].at \in Stage
         /\ (IF req[w].slot = 0 THEN req[w].tx ELSE None) \in Tx \cup {None}
BY DEF TypeOK, Request

\* Columns that are NULL by status stay so.
LEMMA RowInvStep ==
  ASSUME TypeOK, RowInv, RequestInv, OwedInv, [Next]_vars
  PROVE  RowInv'
<1> USE DEF RowInv
<1>1. CASE UNCHANGED vars
  BY <1>1 DEF vars
<1>2. CASE DeleteEventRegistrations
  BY <1>2 DEF DeleteEventRegistrations
<1>3. ASSUME TableKept
      PROVE  RowInv'
  BY <1>3 DEF TableKept
<1>4. ASSUME NEW w \in Worker, InsertRow(w)
      PROVE  RowInv'
  <2>1. req[w].tx \in Tx /\ status[req[w].tx] = "absent"
    BY <1>4, InsertRowEffect DEF RequestInv
  <2>2. req[w].slot \in Nat
    BY RequestTypes
  <2>3. ASSUME NEW t \in Tx
        PROVE  /\ status'[t] \in {"absent", "deleted"} => ticket'[t] = None
               /\ status'[t] = "waitlist" => ticket'[t] = None /\ number'[t] >= 1
    <3>1. CASE t = req[w].tx
      BY <1>4, <2>1, <2>2, <3>1, InsertRowEffect DEF TypeOK
    <3>2. CASE t # req[w].tx
      BY <1>4, <3>2, InsertRowEffect DEF TypeOK
    <3>3. QED
      BY <3>1, <3>2
  <2>4. QED
    BY <2>3
<1>5. ASSUME NEW w \in Worker, NEW k \in Ticket, AttachTicket(w, k)
      PROVE  RowInv'
  <2>1. req[w].tx \in Tx /\ status[req[w].tx] \notin {"absent", "deleted", "waitlist"}
    BY <1>5, AttachTicketEffect DEF RequestInv, OwedInv, Owes
  <2>2. QED
    BY <1>5, <2>1, AttachTicketEffect DEF TypeOK
<1>6. ASSUME NEW w \in Worker, CommitCancel(w)
      PROVE  RowInv'
  BY <1>6, CommitCancelEffect
<1> HIDE DEF RowInv
<1>7. CASE Next
  BY <1>7, <1>2, <1>3, <1>4, <1>5, <1>6, NextCases, BeginRegisterEffect, DecidePlaceEffect,
     GiveUpEffect, ReadForCancelEffect, AdmitCancelEffect, ChooseSuccessorEffect,
     LockForWithdrawalEffect, VoidAnsweredEffect
<1>8. QED
  BY <1>1, <1>7

\* The life of a row: inserted, promoted, cancelled, deleted, by whom.
LEMMA StatusChange ==
  ASSUME TypeOK, RequestInv, PlaceInv, [Next]_vars,
         NEW t \in Tx, status'[t] # status[t]
  PROVE  \/ /\ status[t] = "absent"
            /\ \E w \in Worker : InsertRow(w) /\ req[w].tx = t
         \/ /\ status[t] \notin {"absent", "deleted"}
            /\ status'[t] = "cancelled"
            /\ \E w \in Worker : CommitCancel(w) /\ req[w].tx = t
         \/ /\ status[t] = "waitlist"
            /\ status'[t] = "confirmed"
            /\ \E w \in Worker : CommitCancel(w) /\ req[w].next = t
         \/ /\ status[t] # "absent"
            /\ status'[t] = "deleted"
            /\ DeleteEventRegistrations
<1> DEFINE Goal ==
         \/ /\ status[t] = "absent"
            /\ \E w \in Worker : InsertRow(w) /\ req[w].tx = t
         \/ /\ status[t] \notin {"absent", "deleted"}
            /\ status'[t] = "cancelled"
            /\ \E w \in Worker : CommitCancel(w) /\ req[w].tx = t
         \/ /\ status[t] = "waitlist"
            /\ status'[t] = "confirmed"
            /\ \E w \in Worker : CommitCancel(w) /\ req[w].next = t
         \/ /\ status[t] # "absent"
            /\ status'[t] = "deleted"
            /\ DeleteEventRegistrations
<1>1. CASE status' = status
  BY <1>1
<1>2. CASE DeleteEventRegistrations
  BY <1>2 DEF DeleteEventRegistrations
<1>3. ASSUME NEW w \in Worker, InsertRow(w)
      PROVE  Goal
  <2>1. req[w].tx \in Tx /\ status[req[w].tx] = "absent"
    BY <1>3, InsertRowEffect DEF RequestInv
  <2>2. req[w].tx = t
    BY <1>3, <2>1, InsertRowEffect DEF TypeOK
  <2>3. QED
    BY <1>3, <2>1, <2>2
<1>4. ASSUME NEW w \in Worker, CommitCancel(w)
      PROVE  Goal
  <2>1. /\ req[w].at \in {"promoting", "withdrawing"} /\ status[req[w].tx] # "deleted"
        /\ status'[t] = IF t = req[w].tx THEN "cancelled"
                        ELSE IF t = req[w].next THEN "confirmed" ELSE status[t]
    BY <1>4, CommitCancelEffect
  <2>2. CASE t = req[w].tx
    BY <1>4, <2>1, <2>2 DEF RequestInv, Cancelling
  <2>3. CASE t # req[w].tx /\ t = req[w].next
    <3>1. t # None
      BY NoneAssumption
    <3>2. req[w].at = "promoting"
      BY <2>1, <2>3, <3>1 DEF RequestInv
    <3>3. t \in Waiting
      BY <2>3, <3>1, <3>2, HeadsWait DEF PlaceInv
    <3>4. QED
      BY <1>4, <2>1, <2>3, <3>3 DEF Waiting
  <2>4. QED
    BY <2>1, <2>2, <2>3
<1>5. CASE Next
  BY <1>1, <1>2, <1>3, <1>4, <1>5, NextCases, BeginRegisterEffect, DecidePlaceEffect,
     GiveUpEffect, ReadForCancelEffect, AdmitCancelEffect, ChooseSuccessorEffect,
     LockForWithdrawalEffect, VoidAnsweredEffect, AttachTicketEffect DEF TableKept
<1>6. QED
  BY <1>1, <1>5 DEF vars

\* The request that inserts its row leaves the stage it was in.
LEMMA InsertRowMoves ==
  ASSUME TypeOK, NEW w \in Worker, InsertRow(w)
  PROVE  req'[w] # req[w]
<1>1. req'[w].at # "counted"
  BY InsertRowEffect, IssuingFields, IdleFields, RequestTypes
<1>2. QED
  BY <1>1, InsertRowEffect

\* A request's knowledge of its row survives the steps of the others and its own.
LEMMA RequestInvStep ==
  ASSUME TypeOK, RequestInv, FreshInv, PlaceInv, OwedInv, [Next]_vars
  PROVE  RequestInv'
<1> DEFINE K(w) ==
      /\ req[w].at = "idle" => req[w] = Idle
      /\ req[w].at \in {"eligible", "counted"} =>
           req[w].user \in User /\ req[w].tx \in Tx /\ status[req[w].tx] = "absent"
      /\ req[w].at \in Cancelling =>
           req[w].seen \in Active /\ req[w].tx \in Tx /\ status[req[w].tx] # "absent"
      /\ req[w].at = "issuing" => req[w].tx \in Tx
      /\ req[w].at \notin {"promoting", "voiding"} => req[w].next = None
      /\ req[w].at = "promoting" => req[w].seen = "confirmed"
      /\ req[w].at = "withdrawing" => req[w].seen = "waitlist"
<1>1. \A w \in Worker : K(w)
  BY DEF RequestInv
<1>2. \A t \in Tx : status[t] # "absent" => status'[t] # "absent"
  BY StatusChange
\* A request that does not move keeps what it knows: its row is inserted by nobody else.
<1>3. ASSUME NEW v \in Worker, req'[v] = req[v]
      PROVE  K(v)'
  <2>1. ASSUME req[v].at \in {"eligible", "counted"}
        PROVE  status'[req[v].tx] = "absent"
    <3>1. req[v].tx \in Tx /\ status[req[v].tx] = "absent"
      BY <1>1, <2>1
    <3>2. \A w \in Worker : InsertRow(w) => req[w].tx # req[v].tx
      BY <1>3, <2>1, InsertRowMoves DEF FreshInv
    <3>3. QED
      BY <3>1, <3>2, StatusChange
  <2>2. QED
    BY <1>1, <1>2, <1>3, <2>1
<1>4. CASE UNCHANGED vars
  BY <1>4 DEF vars, RequestInv
<1>5. CASE DeleteEventRegistrations
  <2>1. req' = req /\ \A t \in Tx : status[t] = "absent" <=> status'[t] = "absent"
    BY <1>5 DEF DeleteEventRegistrations
  <2>2. \A v \in Worker : K(v)'
    BY <1>1, <2>1
  <2>3. QED
    BY <2>2 DEF RequestInv
\* For the request w that takes the step, the others follow from <1>3.
<1>6. ASSUME NEW w \in Worker, OthersKeep(w), K(w)'
      PROVE  RequestInv'
  <2>1. \A v \in Worker : v # w => K(v)'
    BY <1>3, <1>6 DEF OthersKeep
  <2>2. \A v \in Worker : K(v)'
    BY <1>6, <2>1
  <2>3. QED
    BY <2>2 DEF RequestInv
<1> USE IdleFields DEF OthersKeep, TableKept, Cancelling
<1>7. ASSUME NEW w \in Worker, NEW u \in User, NEW t \in Tx, BeginRegister(w, u, t)
      PROVE  RequestInv'
  BY <1>6, <1>7, BeginRegisterEffect
<1>8. ASSUME NEW w \in Worker, DecidePlace(w)
      PROVE  RequestInv'
  BY <1>1, <1>6, <1>8, DecidePlaceEffect
<1>9. ASSUME NEW w \in Worker, InsertRow(w)
      PROVE  RequestInv'
  BY <1>1, <1>6, <1>9, InsertRowEffect, IssuingFields, RequestTypes
<1>10. ASSUME NEW w \in Worker, \/ InsertConflict(w) \/ IssueFails(w) \/ RefuseCancel(w)
                                \/ CancelRowGone(w) \/ Abort(w)
       PROVE  RequestInv'
  BY <1>6, <1>10, GiveUpEffect
<1>11. ASSUME NEW w \in Worker, NEW k \in Ticket, AttachTicket(w, k)
       PROVE  RequestInv'
  BY <1>6, <1>11, AttachTicketEffect
<1>12. ASSUME NEW w \in Worker, NEW t \in Tx, ReadForCancel(w, t)
       PROVE  RequestInv'
  <2>1. status'[t] # "absent" /\ status[t] \in Active
    BY <1>12, ReadForCancelEffect DEF Active
  <2>2. QED
    BY <1>6, <1>12, <2>1, ReadForCancelEffect
<1>13. ASSUME NEW w \in Worker, AdmitCancel(w)
       PROVE  RequestInv'
  BY <1>1, <1>2, <1>6, <1>13, AdmitCancelEffect
<1>14. ASSUME NEW w \in Worker, ChooseSuccessor(w)
       PROVE  RequestInv'
  BY <1>1, <1>2, <1>6, <1>14, ChooseSuccessorEffect
<1>15. ASSUME NEW w \in Worker, LockForWithdrawal(w)
       PROVE  RequestInv'
  BY <1>1, <1>2, <1>6, <1>15, LockForWithdrawalEffect
<1>16. ASSUME NEW w \in Worker, CommitCancel(w)
       PROVE  RequestInv'
  <2>1. K(w)'
    BY <1>16, CommitCancelEffect, IssuingFields
  <2>2. QED
    BY <1>6, <1>16, <2>1, CommitCancelEffect
<1>17. ASSUME NEW w \in Worker, VoidAnswered(w)
       PROVE  RequestInv'
  BY <1>6, <1>17, VoidAnsweredEffect, IssuingFields
<1>18. CASE Next
  BY <1>18, <1>5, <1>7, <1>8, <1>9, <1>10, <1>11, <1>12, <1>13, <1>14, <1>15, <1>16, <1>17,
     NextCases
<1>19. QED
  BY <1>4, <1>18

\* A drawn uuid stays with the request that drew it.
LEMMA FreshInvStep ==
  ASSUME TypeOK, RequestInv, FreshInv, PlaceInv, OwedInv, [Next]_vars
  PROVE  FreshInv'
<1> USE NoneAssumption, IdleFields DEF OthersKeep
\* The request that moves either keeps its row, lets go of it or takes one that exists.
<1>1. ASSUME NEW a \in Worker, OthersKeep(a),
             \/ req'[a].tx \in {None, req[a].tx}
             \/ req'[a].tx \in Tx /\ status[req'[a].tx] # "absent",
             req'[a].at \in {"eligible", "counted"} =>
               req[a].at \in {"eligible", "counted"} /\ req'[a].tx = req[a].tx
      PROVE  FreshInv'
  <2> SUFFICES ASSUME NEW v \in Worker, NEW w \in Worker, v # w,
                      req'[v].at \in {"eligible", "counted"}
               PROVE  req'[v].tx # req'[w].tx
    BY DEF FreshInv
  <2>1. req[v].at \in {"eligible", "counted"} /\ req'[v].tx = req[v].tx
    BY <1>1
  <2>2. req[v].tx \in Tx /\ status[req[v].tx] = "absent" /\ req[v].tx # req[w].tx
    BY <2>1 DEF RequestInv, FreshInv
  <2>3. CASE w = a
    BY <1>1, <2>1, <2>2, <2>3
  <2>4. CASE w # a
    BY <1>1, <2>1, <2>2, <2>4
  <2>5. QED
    BY <2>3, <2>4
<1>2. CASE req' = req
  BY <1>2 DEF FreshInv
<1>3. ASSUME NEW w \in Worker, NEW u \in User, NEW t \in Tx, BeginRegister(w, u, t)
      PROVE  FreshInv'
  BY <1>3, BeginRegisterEffect DEF FreshInv
<1>4. ASSUME NEW w \in Worker, DecidePlace(w)
      PROVE  FreshInv'
  BY <1>1, <1>4, DecidePlaceEffect
<1>5. ASSUME NEW w \in Worker, InsertRow(w)
      PROVE  FreshInv'
  <2>1. req'[w].tx \in {None, req[w].tx} /\ req'[w].at \notin {"eligible", "counted"}
    BY <1>5, InsertRowEffect, IssuingFields, RequestTypes
  <2>2. QED
    BY <1>1, <1>5, <2>1, InsertRowEffect
<1>6. ASSUME NEW w \in Worker, \/ InsertConflict(w) \/ IssueFails(w) \/ RefuseCancel(w)
                               \/ CancelRowGone(w) \/ Abort(w)
      PROVE  FreshInv'
  BY <1>1, <1>6, GiveUpEffect
<1>7. ASSUME NEW w \in Worker, NEW k \in Ticket, AttachTicket(w, k)
      PROVE  FreshInv'
  BY <1>1, <1>7, AttachTicketEffect
<1>8. ASSUME NEW w \in Worker, NEW t \in Tx, ReadForCancel(w, t)
      PROVE  FreshInv'
  <2>1. status[t] # "absent"
    BY <1>8, ReadForCancelEffect DEF Active
  <2>2. QED
    BY <1>1, <1>8, <2>1, ReadForCancelEffect
<1>9. ASSUME NEW w \in Worker, AdmitCancel(w)
      PROVE  FreshInv'
  BY <1>1, <1>9, AdmitCancelEffect
<1>10. ASSUME NEW w \in Worker, ChooseSuccessor(w)
       PROVE  FreshInv'
  BY <1>1, <1>10, ChooseSuccessorEffect
<1>11. ASSUME NEW w \in Worker, LockForWithdrawal(w)
       PROVE  FreshInv'
  BY <1>1, <1>11, LockForWithdrawalEffect
<1>12. ASSUME NEW w \in Worker, CommitCancel(w)
       PROVE  FreshInv'
  <2>1. req[w].next = None \/ (req[w].next \in Tx /\ status[req[w].next] # "absent")
    <3>1. CASE req[w].at = "promoting"
      BY <3>1, HeadsWait DEF PlaceInv, Waiting
    <3>2. CASE req[w].at = "withdrawing"
      BY <3>2 DEF RequestInv
    <3>3. QED
      BY <1>12, <3>1, <3>2, CommitCancelEffect
  <2>2. /\ req'[w].at \notin {"eligible", "counted"}
        /\ req'[w].tx \in {None, req[w].next}
    BY <1>12, CommitCancelEffect, IssuingFields
  <2>3. QED
    BY <1>1, <1>12, <2>1, <2>2, CommitCancelEffect
<1>13. ASSUME NEW w \in Worker, VoidAnswered(w)
       PROVE  FreshInv'
  <2>1. req[w].next = None \/ (req[w].next \in Tx /\ status[req[w].next] # "absent")
    BY <1>13, VoidAnsweredEffect DEF OwedInv, Owes
  <2>2. /\ req'[w].at \notin {"eligible", "counted"}
        /\ req'[w].tx \in {None, req[w].next}
    BY <1>13, VoidAnsweredEffect, IssuingFields
  <2>3. QED
    BY <1>1, <1>13, <2>1, <2>2, VoidAnsweredEffect
<1>14. CASE Next
  BY <1>14, <1>2, <1>3, <1>4, <1>5, <1>6, <1>7, <1>8, <1>9, <1>10, <1>11, <1>12, <1>13, NextCases
     DEF DeleteEventRegistrations
<1>15. QED
  BY <1>2, <1>14 DEF vars

\* Steps that keep the table keep all that is counted and ordered in it.
LEMMA TableKeptFacts ==
  ASSUME TableKept
  PROVE  /\ Confirmed' = Confirmed /\ Waiting' = Waiting
         /\ Full' = Full /\ Heads' = Heads
         /\ \A u \in User : HasActive(u)' = HasActive(u)
<1>1. Confirmed' = Confirmed /\ Waiting' = Waiting
  BY DEF TableKept, Confirmed, Waiting
<1>2. Full' = Full
  BY <1>1 DEF Full
<1>3. Heads' = Heads
  BY <1>1 DEF Heads, TableKept
<1>4. \A u \in User : HasActive(u)' = HasActive(u)
  BY DEF HasActive, TableKept
<1>5. QED
  BY <1>1, <1>2, <1>3, <1>4

\* Attaching a ticket changes neither the seats nor the waitlist.
LEMMA AttachKeepsPlaces ==
  ASSUME TypeOK, NEW w \in Worker, NEW k \in Ticket, AttachTicket(w, k)
  PROVE  /\ Confirmed' = Confirmed /\ Waiting' = Waiting
         /\ Full' = Full /\ Heads' = Heads
<1>1. status' = status /\ number' = number
  BY AttachTicketEffect
<1>2. Confirmed' = Confirmed /\ Waiting' = Waiting
  BY <1>1 DEF Confirmed, Waiting
<1>3. QED
  BY <1>1, <1>2 DEF Full, Heads

\* What was read under the lock is still so when it is used.
LEMMA PlaceInvStep ==
  ASSUME TypeOK, LockInv, PlaceInv, IsFiniteSet(Confirmed), [Next]_vars
  PROVE  PlaceInv'
<1> USE DEF OthersKeep, TableKept
<1> DEFINE P(w) ==
      /\ req[w].at = "counted" =>
           /\ req[w].slot = 0 => ~Full
           /\ req[w].slot > 0 => \A t \in Waiting : number[t] < req[w].slot
      /\ req[w].at = "promoting" => req[w].next \in Heads
<1>1. \A w \in Worker : P(w)
  BY DEF PlaceInv
\* Steps that change neither seats nor waitlist: only the request that moves matters.
<1>2. ASSUME NEW a \in Worker, OthersKeep(a),
             Full' = Full, Heads' = Heads, Waiting' = Waiting, number' = number,
             P(a)'
      PROVE  PlaceInv'
  <2>1. \A v \in Worker : v # a => P(v)'
    BY <1>1, <1>2
  <2>2. \A v \in Worker : P(v)'
    BY <1>2, <2>1
  <2>3. QED
    BY <2>2 DEF PlaceInv
\* Steps of the lock holder that end its critical section: nobody else is in one.
<1>3. ASSUME NEW a \in Worker, OthersKeep(a), req[a].at \in Locked, req'[a].at \notin Locked
      PROVE  PlaceInv'
  <2>1. \A v \in Worker : v # a => req[v].at \notin Locked
    BY <1>3 DEF LockInv
  <2>2. \A v \in Worker : req'[v].at \notin Locked
    BY <1>3, <2>1
  <2>3. QED
    BY <2>2 DEF PlaceInv, Locked
<1>4. CASE UNCHANGED vars
  BY <1>4 DEF vars, PlaceInv, Full, Heads, Confirmed, Waiting
<1>5. CASE DeleteEventRegistrations
  <2>1. req' = req /\ Confirmed' = {} /\ Waiting' = {}
    BY <1>5 DEF DeleteEventRegistrations, Confirmed, Waiting
  <2>2. \A w \in Worker : req[w].at # "promoting"
    BY <1>5 DEF DeleteEventRegistrations
  <2>3. ~Full => ~Full'
    <3>1. Cardinality(Confirmed) \in Nat /\ Cardinality({}) = 0
      BY FS_CardinalityType, FS_EmptySet
    <3>2. QED
      BY <2>1, <3>1, LimitAssumption DEF Full
  <2>4. \A w \in Worker : P(w)'
    BY <1>1, <2>1, <2>2, <2>3
  <2>5. QED
    BY <2>4 DEF PlaceInv
<1>6. ASSUME NEW w \in Worker, NEW u \in User, NEW t \in Tx, BeginRegister(w, u, t)
      PROVE  PlaceInv'
  BY <1>2, <1>6, BeginRegisterEffect, TableKeptFacts
<1>7. ASSUME NEW w \in Worker, DecidePlace(w)
      PROVE  PlaceInv'
  <2>1. req'[w].slot \in (IF Full THEN NextNumbers ELSE {0})
    BY <1>7, DecidePlaceEffect
  <2>2. /\ req'[w].slot = 0 => ~Full
        /\ req'[w].slot > 0 => \A t \in Waiting : number[t] < req'[w].slot
    BY <2>1, NextNumbersAreFresh
  <2>3. QED
    BY <1>2, <1>7, <2>2, DecidePlaceEffect, TableKeptFacts
<1>8. ASSUME NEW w \in Worker, InsertRow(w)
      PROVE  PlaceInv'
  BY <1>3, <1>8, InsertRowEffect, IssuingFields, IdleFields, RequestTypes DEF Locked
<1>9. ASSUME NEW w \in Worker, \/ InsertConflict(w) \/ IssueFails(w) \/ RefuseCancel(w)
                               \/ CancelRowGone(w) \/ Abort(w)
      PROVE  PlaceInv'
  BY <1>2, <1>9, GiveUpEffect, IdleFields, TableKeptFacts
<1>10. ASSUME NEW w \in Worker, NEW k \in Ticket, AttachTicket(w, k)
       PROVE  PlaceInv'
  BY <1>2, <1>10, AttachTicketEffect, IdleFields, AttachKeepsPlaces
<1>11. ASSUME NEW w \in Worker, NEW t \in Tx, ReadForCancel(w, t)
       PROVE  PlaceInv'
  BY <1>2, <1>11, ReadForCancelEffect, TableKeptFacts
<1>12. ASSUME NEW w \in Worker, AdmitCancel(w)
       PROVE  PlaceInv'
  BY <1>2, <1>12, AdmitCancelEffect, TableKeptFacts
<1>13. ASSUME NEW w \in Worker, ChooseSuccessor(w)
       PROVE  PlaceInv'
  BY <1>2, <1>13, ChooseSuccessorEffect, TableKeptFacts
<1>14. ASSUME NEW w \in Worker, LockForWithdrawal(w)
       PROVE  PlaceInv'
  BY <1>2, <1>14, LockForWithdrawalEffect, TableKeptFacts
<1>15. ASSUME NEW w \in Worker, CommitCancel(w)
       PROVE  PlaceInv'
  BY <1>3, <1>15, CommitCancelEffect, IssuingFields, IdleFields DEF Locked
<1>16. ASSUME NEW w \in Worker, VoidAnswered(w)
       PROVE  PlaceInv'
  BY <1>2, <1>16, VoidAnsweredEffect, IssuingFields, IdleFields, TableKeptFacts
<1>17. CASE Next
  BY <1>17, <1>5, <1>6, <1>7, <1>8, <1>9, <1>10, <1>11, <1>12, <1>13, <1>14, <1>15, <1>16,
     NextCases
<1>18. QED
  BY <1>4, <1>17

\* Whoever is promoted was waiting and is owed its ticket by nobody yet.
LEMMA SuccessorWaits ==
  ASSUME TypeOK, RequestInv, PlaceInv, NEW w \in Worker, CommitCancel(w),
         req[w].next # None
  PROVE  /\ req[w].at = "promoting" /\ req[w].next \in Waiting
         /\ \A r \in Waiting : number[req[w].next] <= number[r]
<1>1. req[w].at = "promoting"
  BY CommitCancelEffect DEF RequestInv
<1>2. QED
  BY <1>1, HeadsWait DEF PlaceInv

\* The duty to get a row its ticket is created once and passed on by nobody.
LEMMA OwedInvStep ==
  ASSUME TypeOK, RowInv, RequestInv, PlaceInv, OwedInv, [Next]_vars
  PROVE  OwedInv'
<1> USE NoneAssumption, IdleFields DEF OthersKeep
<1> DEFINE Unowed(t) == status[t] \notin {"absent", "waitlist"} /\ ticket[t] = None
\* The status of an owed row never goes back.
<1>1. \A t \in Tx : status[t] \notin {"absent", "waitlist"}
                    => status'[t] \notin {"absent", "waitlist"}
  BY StatusChange
\* Nobody takes on a new duty.
<1>2. ASSUME \A w \in Worker, t \in Tx : Owes(w, t)' => Owes(w, t),
             \A w \in Worker, t \in Tx : Owes(w, t)' => ticket'[t] \in {ticket[t], None}
      PROVE  OwedInv'
  <2> SUFFICES ASSUME NEW w \in Worker, NEW t \in Tx, Owes(w, t)'
               PROVE  /\ status'[t] \notin {"absent", "waitlist"}
                      /\ ticket'[t] = None
                      /\ \A v \in Worker : v # w => ~Owes(v, t)'
    BY DEF OwedInv
  <2>1. Owes(w, t)
    BY <1>2
  <2>2. /\ status[t] \notin {"absent", "waitlist"} /\ ticket[t] = None
        /\ \A v \in Worker : v # w => ~Owes(v, t)
    BY <2>1 DEF OwedInv
  <2>3. QED
    BY <1>1, <1>2, <2>2
\* Request a takes on the duty for row x, which nobody had.
<1>3. ASSUME NEW a \in Worker, OthersKeep(a), NEW x \in Tx, Unowed(x)',
             \A t \in Tx : Owes(a, t)' => t = x,
             \A v \in Worker : ~Owes(v, x),
             \A t \in Tx : ticket'[t] \in {ticket[t], None}
      PROVE  OwedInv'
  <2>1. \A v \in Worker, t \in Tx : v # a => (Owes(v, t)' <=> Owes(v, t))
    BY <1>3 DEF Owes
  <2>2. ASSUME NEW w \in Worker, NEW t \in Tx, Owes(w, t)'
        PROVE  Unowed(t)' /\ \A v \in Worker : v # w => ~Owes(v, t)'
    <3>1. CASE w = a
      <4>1. t = x
        BY <1>3, <2>2, <3>1
      <4>2. \A v \in Worker : v # w => ~Owes(v, t)'
        BY <1>3, <2>1, <3>1, <4>1
      <4>3. QED
        BY <1>3, <4>1, <4>2
    <3>2. CASE w # a
      <4>1. Owes(w, t) /\ t # x
        BY <1>3, <2>1, <2>2, <3>2
      <4>2. Unowed(t) /\ \A v \in Worker : v # w => ~Owes(v, t)
        BY <4>1 DEF OwedInv
      <4>3. QED
        BY <1>1, <1>3, <2>1, <4>1, <4>2
    <3>3. QED
      BY <3>1, <3>2
  <2>3. QED
    BY <2>2 DEF OwedInv
<1>4. CASE UNCHANGED vars
  BY <1>4 DEF vars, OwedInv, Owes
<1>5. CASE DeleteEventRegistrations
  BY <1>2, <1>5 DEF DeleteEventRegistrations, Owes
\* Requests that do not touch the table and owe nothing new.
<1>6. ASSUME NEW w \in Worker, OthersKeep(w), TableKept,
             \A t \in Tx : Owes(w, t)' => Owes(w, t)
      PROVE  OwedInv'
  BY <1>2, <1>6 DEF Owes, TableKept
<1>7. ASSUME NEW w \in Worker, NEW u \in User, NEW t \in Tx, BeginRegister(w, u, t)
      PROVE  OwedInv'
  BY <1>6, <1>7, BeginRegisterEffect DEF Owes
<1>8. ASSUME NEW w \in Worker, DecidePlace(w)
      PROVE  OwedInv'
  BY <1>6, <1>8, DecidePlaceEffect DEF Owes
<1>9. ASSUME NEW w \in Worker, InsertRow(w)
      PROVE  OwedInv'
  <2>1. req[w].tx \in Tx /\ status[req[w].tx] = "absent" /\ ticket[req[w].tx] = None
    BY <1>9, InsertRowEffect DEF RequestInv, RowInv
  <2>2. \A v \in Worker : ~Owes(v, req[w].tx)
    BY <2>1 DEF OwedInv
  <2>3. CASE req[w].slot = 0
    <3>1. req'[w].at = "issuing" /\ req'[w].tx = req[w].tx
      BY <1>9, <2>1, <2>3, InsertRowEffect, IssuingFields
    <3>2. status'[req[w].tx] \notin {"absent", "waitlist"} /\ ticket'[req[w].tx] = None
      BY <1>9, <2>1, <2>3, InsertRowEffect
    <3>3. QED
      BY <1>3, <1>9, <2>1, <2>2, <3>1, <3>2, InsertRowEffect DEF Owes
  <2>4. CASE req[w].slot # 0
    <3>1. req'[w].at = "idle"
      BY <1>9, <2>4, InsertRowEffect, IssuingFields
    <3>2. QED
      BY <1>2, <1>9, <3>1, InsertRowEffect DEF Owes
  <2>5. QED
    BY <2>3, <2>4
<1>10. ASSUME NEW w \in Worker, \/ InsertConflict(w) \/ IssueFails(w) \/ RefuseCancel(w)
                                \/ CancelRowGone(w) \/ Abort(w)
       PROVE  OwedInv'
  BY <1>6, <1>10, GiveUpEffect DEF Owes
<1>11. ASSUME NEW w \in Worker, NEW k \in Ticket, AttachTicket(w, k)
       PROVE  OwedInv'
  <2>1. Owes(w, req[w].tx) /\ req[w].tx \in Tx
    BY <1>11, AttachTicketEffect DEF Owes, RequestInv
  <2>2. \A v \in Worker, t \in Tx : Owes(v, t)' => Owes(v, t) /\ t # req[w].tx
    BY <1>11, <2>1, AttachTicketEffect DEF Owes, OwedInv
  <2>3. \A t \in Tx : t # req[w].tx => ticket'[t] = ticket[t]
    BY <1>11, AttachTicketEffect DEF TypeOK
  <2>4. QED
    BY <1>2, <2>2, <2>3
<1>12. ASSUME NEW w \in Worker, NEW t \in Tx, ReadForCancel(w, t)
       PROVE  OwedInv'
  BY <1>6, <1>12, ReadForCancelEffect DEF Owes
<1>13. ASSUME NEW w \in Worker, AdmitCancel(w)
       PROVE  OwedInv'
  BY <1>6, <1>13, AdmitCancelEffect DEF Owes
<1>14. ASSUME NEW w \in Worker, ChooseSuccessor(w)
       PROVE  OwedInv'
  BY <1>6, <1>14, ChooseSuccessorEffect DEF Owes
<1>15. ASSUME NEW w \in Worker, LockForWithdrawal(w)
       PROVE  OwedInv'
  BY <1>6, <1>15, LockForWithdrawalEffect DEF Owes
<1>16. ASSUME NEW w \in Worker, CommitCancel(w)
       PROVE  OwedInv'
  <2>1. \A t \in Tx : Owes(w, t)' => t = req[w].next
    BY <1>16, CommitCancelEffect, IssuingFields DEF Owes
  <2>2. CASE req[w].next = None
    BY <1>2, <1>16, <2>1, <2>2, CommitCancelEffect DEF Owes
  <2>3. CASE req[w].next # None
    <3>1. req[w].next \in Tx /\ status[req[w].next] = "waitlist"
      BY <1>16, <2>3, SuccessorWaits DEF Waiting
    <3>2. \A v \in Worker : ~Owes(v, req[w].next)
      <4>1. status[req[w].next] \in {"absent", "waitlist"}
        BY <3>1
      <4>2. QED
        BY <3>1, <4>1 DEF OwedInv
    <3>3. status'[req[w].next] \notin {"absent", "waitlist"} /\ ticket'[req[w].next] = None
      <4>1. ticket[req[w].next] = None
        BY <3>1 DEF RowInv
      <4>2. ticket'[req[w].next] = None
        BY <1>16, <3>1, <4>1, CommitCancelEffect
      <4>3. status'[req[w].next] \in {"cancelled", "confirmed"}
        BY <1>16, <3>1, CommitCancelEffect
      <4>4. QED
        BY <4>2, <4>3
    <3>4. QED
      BY <1>3, <1>16, <2>1, <3>1, <3>2, <3>3, CommitCancelEffect
  <2>4. QED
    BY <2>2, <2>3
<1>17. ASSUME NEW w \in Worker, VoidAnswered(w)
       PROVE  OwedInv'
  BY <1>6, <1>17, VoidAnsweredEffect, IssuingFields DEF Owes
<1>18. CASE Next
  BY <1>18, <1>5, <1>7, <1>8, <1>9, <1>10, <1>11, <1>12, <1>13, <1>14, <1>15, <1>16, <1>17,
     NextCases
<1>19. QED
  BY <1>4, <1>18

\* Who gets a row, and whose it is: an INSERT that the unique index admits.
LEMMA OneActivePerUserStep ==
  ASSUME TypeOK, RequestInv, PlaceInv, OneActivePerUser, [Next]_vars
  PROVE  OneActivePerUser'
<1>1. CASE owner' = owner /\ \A t \in Tx : status'[t] \in Active => status[t] \in Active
  BY <1>1 DEF OneActivePerUser
<1>2. CASE UNCHANGED vars
  BY <1>1, <1>2 DEF vars
<1>3. CASE DeleteEventRegistrations
  BY <1>3 DEF DeleteEventRegistrations, OneActivePerUser, Active
<1>4. ASSUME TableKept
      PROVE  OneActivePerUser'
  BY <1>1, <1>4 DEF TableKept
<1>5. ASSUME NEW w \in Worker, InsertRow(w)
      PROVE  OneActivePerUser'
  <2>1. \A t \in Tx : status[t] \in Active => owner[t] # req[w].user
    BY <1>5, InsertRowEffect DEF HasActive
  <2>2. \A t \in Tx : IF t = req[w].tx THEN owner'[t] = req[w].user
                      ELSE owner'[t] = owner[t] /\ status'[t] = status[t]
    BY <1>5, InsertRowEffect
  <2>3. QED
    BY <2>1, <2>2 DEF OneActivePerUser
<1>6. ASSUME NEW w \in Worker, NEW k \in Ticket, AttachTicket(w, k)
      PROVE  OneActivePerUser'
  BY <1>1, <1>6, AttachTicketEffect
<1>7. ASSUME NEW w \in Worker, CommitCancel(w)
      PROVE  OneActivePerUser'
  <2>1. \A t \in Tx : status'[t] \in Active => status[t] \in Active
    <3>1. \A t \in Tx : t = req[w].next => status[t] = "waitlist"
      BY <1>7, NoneAssumption, SuccessorWaits DEF Waiting
    <3>2. QED
      BY <1>7, <3>1, CommitCancelEffect DEF Active
  <2>2. QED
    BY <1>1, <1>7, <2>1, CommitCancelEffect
<1>8. CASE Next
  BY <1>8, <1>3, <1>4, <1>5, <1>6, <1>7, NextCases, BeginRegisterEffect, DecidePlaceEffect,
     GiveUpEffect, ReadForCancelEffect, AdmitCancelEffect, ChooseSuccessorEffect,
     LockForWithdrawalEffect, VoidAnsweredEffect
<1>9. QED
  BY <1>2, <1>8

\* A step leaves a waiting row its number; a row that starts to wait goes last,
\* and a row that is promoted was first.
LEMMA QueueStep ==
  ASSUME TypeOK, RequestInv, PlaceInv, WaitlistNumbersUnique, [Next]_vars,
         NEW t \in Tx, NEW r \in Tx, status[r] = "waitlist", status'[r] = "waitlist"
  PROVE  /\ number'[r] = number[r]
         /\ status[t] # "waitlist" /\ status'[t] = "waitlist" => number[r] < number'[t]
         /\ status[t] = "waitlist" /\ status'[t] = "confirmed" => number[t] < number[r]
<1> DEFINE Goal ==
         /\ number'[r] = number[r]
         /\ status[t] # "waitlist" /\ status'[t] = "waitlist" => number[r] < number'[t]
         /\ status[t] = "waitlist" /\ status'[t] = "confirmed" => number[t] < number[r]
<1>1. CASE status' = status /\ number' = number
  BY <1>1
<1>2. CASE UNCHANGED vars
  BY <1>1, <1>2 DEF vars
<1>3. CASE DeleteEventRegistrations
  BY <1>3 DEF DeleteEventRegistrations
<1>4. ASSUME NEW w \in Worker, InsertRow(w)
      PROVE  Goal
  <2>1. req[w].tx \in Tx /\ status[req[w].tx] = "absent"
    BY <1>4, InsertRowEffect DEF RequestInv
  <2>2. req[w].slot > 0 => number[r] < req[w].slot
    BY <1>4, InsertRowEffect DEF PlaceInv, Waiting
  <2>3. QED
    BY <1>4, <2>1, <2>2, InsertRowEffect
<1>5. ASSUME NEW w \in Worker, NEW k \in Ticket, AttachTicket(w, k)
      PROVE  Goal
  BY <1>1, <1>5, AttachTicketEffect
<1>6. ASSUME NEW w \in Worker, CommitCancel(w)
      PROVE  Goal
  <2>1. r # req[w].next /\ r # req[w].tx
    BY <1>6, CommitCancelEffect
  <2>2. number'[r] = number[r]
    BY <1>6, <2>1, CommitCancelEffect
  <2>3. status'[t] = "waitlist" => status[t] = "waitlist"
    BY <1>6, CommitCancelEffect
  <2>4. ASSUME status[t] = "waitlist", status'[t] = "confirmed"
        PROVE  number[t] < number[r]
    <3>1. t = req[w].next
      BY <1>6, <2>4, CommitCancelEffect
    <3>2. number[t] <= number[r]
      BY <1>6, <3>1, NoneAssumption, SuccessorWaits DEF Waiting
    <3>3. number[t] # number[r]
      BY <2>4 DEF WaitlistNumbersUnique, Waiting
    <3>4. number[t] \in Nat /\ number[r] \in Nat
      BY DEF TypeOK
    <3>5. QED
      BY <3>2, <3>3, <3>4
  <2>5. QED
    BY <2>2, <2>3, <2>4
<1>7. CASE Next
  BY <1>7, <1>1, <1>3, <1>4, <1>5, <1>6, NextCases, BeginRegisterEffect, DecidePlaceEffect,
     GiveUpEffect, ReadForCancelEffect, AdmitCancelEffect, ChooseSuccessorEffect,
     LockForWithdrawalEffect, VoidAnsweredEffect DEF TableKept
<1>8. QED
  BY <1>2, <1>7

\* No number is given to two rows that wait at the same time.
LEMMA WaitlistNumbersUniqueStep ==
  ASSUME TypeOK, RequestInv, PlaceInv, WaitlistNumbersUnique, [Next]_vars
  PROVE  WaitlistNumbersUnique'
<1> SUFFICES ASSUME NEW t \in Tx, NEW r \in Tx, t # r,
                    status'[t] = "waitlist", status'[r] = "waitlist"
             PROVE  number'[t] # number'[r]
  BY DEF WaitlistNumbersUnique, Waiting
<1>1. number[t] \in Nat /\ number[r] \in Nat /\ number'[t] \in Nat /\ number'[r] \in Nat
  BY TypeStep DEF TypeOK
<1>2. CASE status[t] = "waitlist" /\ status[r] = "waitlist"
  BY <1>2, QueueStep DEF WaitlistNumbersUnique, Waiting
<1>3. CASE status[t] # "waitlist" /\ status[r] = "waitlist"
  BY <1>1, <1>3, QueueStep
<1>4. CASE status[t] = "waitlist" /\ status[r] # "waitlist"
  BY <1>1, <1>4, QueueStep
\* Two rows never start to wait in one step: one INSERT is one row.
<1>5. CASE status[t] # "waitlist" /\ status[r] # "waitlist"
  <2>1. PICK w \in Worker : InsertRow(w) /\ req[w].tx = t
    BY <1>5, StatusChange
  <2>2. status'[r] = status[r]
    BY <2>1, InsertRowEffect
  <2>3. QED
    BY <1>5, <2>2
<1>6. QED
  BY <1>2, <1>3, <1>4, <1>5

\* How a request that is cancelling came to be where it is.
LEMMA CancellingStep ==
  ASSUME TypeOK, [Next]_vars, NEW w \in Worker, req'[w].at \in Cancelling
  PROVE  \/ req'[w] = req[w]
         \/ /\ req[w].at \in Cancelling /\ status' = status /\ ticket' = ticket
            /\ req'[w].tx = req[w].tx /\ req'[w].seen = req[w].seen /\ req'[w].held = req[w].held
         \/ /\ req'[w].tx \in Tx /\ status' = status /\ ticket' = ticket
            /\ req'[w].seen = status[req'[w].tx] /\ req'[w].held = ticket[req'[w].tx]
<1> USE IdleFields DEF Cancelling, OthersKeep
<1> DEFINE Goal ==
         \/ req'[w] = req[w]
         \/ /\ req[w].at \in Cancelling /\ status' = status /\ ticket' = ticket
            /\ req'[w].tx = req[w].tx /\ req'[w].seen = req[w].seen /\ req'[w].held = req[w].held
         \/ /\ req'[w].tx \in Tx /\ status' = status /\ ticket' = ticket
            /\ req'[w].seen = status[req'[w].tx] /\ req'[w].held = ticket[req'[w].tx]
<1>1. CASE req' = req
  BY <1>1
<1>2. ASSUME NEW a \in Worker, OthersKeep(a), req'[a].at \notin Cancelling
      PROVE  Goal
  BY <1>2
<1>3. ASSUME NEW a \in Worker, NEW u \in User, NEW t \in Tx, BeginRegister(a, u, t)
      PROVE  Goal
  BY <1>2, <1>3, BeginRegisterEffect
<1>4. ASSUME NEW a \in Worker, DecidePlace(a)
      PROVE  Goal
  BY <1>2, <1>4, DecidePlaceEffect
<1>5. ASSUME NEW a \in Worker, InsertRow(a)
      PROVE  Goal
  BY <1>2, <1>5, InsertRowEffect, IssuingFields, RequestTypes
<1>6. ASSUME NEW a \in Worker, \/ InsertConflict(a) \/ IssueFails(a) \/ RefuseCancel(a)
                               \/ CancelRowGone(a) \/ Abort(a)
      PROVE  Goal
  BY <1>2, <1>6, GiveUpEffect
<1>7. ASSUME NEW a \in Worker, NEW k \in Ticket, AttachTicket(a, k)
      PROVE  Goal
  BY <1>2, <1>7, AttachTicketEffect
<1>8. ASSUME NEW a \in Worker, NEW t \in Tx, ReadForCancel(a, t)
      PROVE  Goal
  BY <1>8, ReadForCancelEffect DEF TableKept
<1>9. ASSUME NEW a \in Worker, AdmitCancel(a)
      PROVE  Goal
  BY <1>9, AdmitCancelEffect DEF TableKept
<1>10. ASSUME NEW a \in Worker, ChooseSuccessor(a)
       PROVE  Goal
  BY <1>10, ChooseSuccessorEffect DEF TableKept
<1>11. ASSUME NEW a \in Worker, LockForWithdrawal(a)
       PROVE  Goal
  BY <1>11, LockForWithdrawalEffect DEF TableKept
<1>12. ASSUME NEW a \in Worker, CommitCancel(a)
       PROVE  Goal
  BY <1>2, <1>12, CommitCancelEffect, IssuingFields
<1>13. ASSUME NEW a \in Worker, VoidAnswered(a)
       PROVE  Goal
  BY <1>2, <1>13, VoidAnsweredEffect, IssuingFields
<1>14. CASE Next
  BY <1>14, <1>1, <1>3, <1>4, <1>5, <1>6, <1>7, <1>8, <1>9, <1>10, <1>11, <1>12, <1>13,
     NextCases DEF DeleteEventRegistrations
<1>15. QED
  BY <1>1, <1>14 DEF vars

\* A registration that has left the waitlist does not come back to it.
LEMMA SeenInvStep ==
  ASSUME TypeOK, RequestInv, PlaceInv, SeenInv, [Next]_vars
  PROVE  SeenInv'
<1>1. ASSUME NEW w \in Worker, req'[w].at \in Cancelling, req'[w].seen = "confirmed"
      PROVE  status'[req'[w].tx] \in {"confirmed", "cancelled", "deleted"}
  <2>1. CASE req'[w] = req[w]
    <3>1. req[w].tx \in Tx /\ status[req[w].tx] \in {"confirmed", "cancelled", "deleted"}
      BY <1>1, <2>1 DEF SeenInv, RequestInv
    <3>2. status'[req[w].tx] \in {"confirmed", "cancelled", "deleted"}
      BY <3>1, StatusChange
    <3>3. QED
      BY <2>1, <3>2
  <2>2. CASE req'[w] # req[w]
    BY <1>1, <2>2, CancellingStep DEF SeenInv
  <2>3. QED
    BY <2>1, <2>2
<1>2. QED
  BY <1>1 DEF SeenInv

\* One step confirms one row at most, so the confirmed rows stay finite.
LEMMA ConfirmedStep ==
  ASSUME TypeOK, RequestInv, PlaceInv, IsFiniteSet(Confirmed), [Next]_vars
  PROVE  /\ IsFiniteSet(Confirmed')
         /\ \E x \in Tx \cup {None} : Confirmed' \subseteq Confirmed \cup {x}
<1>1. \E x \in Tx \cup {None} : Confirmed' \subseteq Confirmed \cup {x}
  <2>1. CASE status' = status \/ DeleteEventRegistrations
    BY <2>1 DEF Confirmed, DeleteEventRegistrations
  <2>2. ASSUME NEW w \in Worker, InsertRow(w)
        PROVE  Confirmed' \subseteq Confirmed \cup {req[w].tx}
    BY <2>2, InsertRowEffect DEF Confirmed
  <2>3. ASSUME NEW w \in Worker, CommitCancel(w)
        PROVE  Confirmed' \subseteq Confirmed \cup {req[w].next}
    BY <2>3, CommitCancelEffect DEF Confirmed
  <2>4. CASE Next
    BY <2>4, <2>1, <2>2, <2>3, NextCases, RequestTypes, BeginRegisterEffect,
       DecidePlaceEffect, GiveUpEffect, ReadForCancelEffect, AdmitCancelEffect,
       ChooseSuccessorEffect, LockForWithdrawalEffect, VoidAnsweredEffect,
       AttachTicketEffect DEF TableKept
  <2>5. QED
    BY <2>1, <2>4 DEF vars
<1>2. PICK x \in Tx \cup {None} : Confirmed' \subseteq Confirmed \cup {x}
  BY <1>1
<1>3. IsFiniteSet(Confirmed \cup {x})
  BY FS_AddElement
<1>4. QED
  BY <1>1, <1>2, <1>3, FS_Subset

----------------------------------------------------------------------------
LEMMA InvStep ==
  ASSUME IInv, [Next]_vars
  PROVE  IInv'
BY TypeStep, LockStep, RowInvStep, RequestInvStep, FreshInvStep, PlaceInvStep, OwedInvStep, SeenInvStep,
   OneActivePerUserStep, WaitlistNumbersUniqueStep, ConfirmedStep DEF IInv

LEMMA InvInit ==
  ASSUME Init
  PROVE  IInv
<1> USE NoneAssumption, IdleFields DEF Init
<1>1. TypeOK
  <2>1. Idle \in Request
    BY RequestForms
  <2>2. QED
    BY <2>1 DEF TypeOK
<1>2. Confirmed = {} /\ Waiting = {}
  BY DEF Confirmed, Waiting
<1>3. IsFiniteSet(Confirmed)
  BY <1>2, FS_EmptySet
<1>4. LockInv /\ FreshInv /\ PlaceInv
  BY DEF LockInv, Locked, FreshInv, PlaceInv
<1>5. RowInv /\ RequestInv /\ OwedInv /\ SeenInv
  BY DEF RowInv, RequestInv, Cancelling, OwedInv, Owes, SeenInv
<1>6. OneActivePerUser /\ WaitlistNumbersUnique
  BY <1>2 DEF OneActivePerUser, Active, WaitlistNumbersUnique
<1>7. QED
  BY <1>1, <1>3, <1>4, <1>5, <1>6 DEF IInv

\* The inductive invariant holds in every reachable state, whatever requests
\* overlap, die or meet the deletion of the event.
THEOREM Invariance == Spec => []IInv
<1>1. Init => IInv
  BY InvInit
<1>2. IInv /\ [Next]_vars => IInv'
  BY InvStep
<1>3. QED
  BY <1>1, <1>2, PTL DEF Spec

\* Nobody ever holds two active registrations.
THEOREM OneActive == Spec => []OneActivePerUser
<1>1. IInv => OneActivePerUser
  BY DEF IInv
<1>2. QED
  BY <1>1, Invariance, PTL

\* No two waiting rows share a number.
THEOREM UniqueNumbers == Spec => []WaitlistNumbersUnique
<1>1. IInv => WaitlistNumbersUnique
  BY DEF IInv
<1>2. QED
  BY <1>1, Invariance, PTL

\* A row that enters Confirmed by an INSERT finds a seat free.
LEMMA InsertFindsSeat ==
  ASSUME IInv, NEW w \in Worker, InsertRow(w), req[w].slot = 0
  PROVE  NoOversell'
<1> SUFFICES ASSUME HasLimit
             PROVE  Cardinality(Confirmed') <= Limit
  BY DEF NoOversell
<1> USE DEF IInv
<1>1. ~Full
  BY InsertRowEffect DEF PlaceInv
<1>2. Cardinality(Confirmed) \in Nat /\ Cardinality(Confirmed) < Limit
  BY <1>1, FS_CardinalityType, LimitAssumption DEF Full
<1>3. req[w].tx \in Tx /\ status[req[w].tx] = "absent"
  BY InsertRowEffect DEF RequestInv
<1>4. Confirmed' = Confirmed \cup {req[w].tx} /\ req[w].tx \notin Confirmed
  BY <1>3, InsertRowEffect DEF Confirmed
<1>5. Cardinality(Confirmed') = Cardinality(Confirmed) + 1
  BY <1>4, FS_AddElement
<1>6. QED
  BY <1>2, <1>5, LimitAssumption

\* A new registration takes a seat only if there is one, whatever cancellations,
\* promotions and deletions overlap it.
THEOREM RegistrationsRespectLimit == Spec => RegistrationRespectsLimit
<1> DEFINE A == \A t \in Tx : status[t] = "absent" /\ status'[t] = "confirmed"
                              => NoOversell'
<1>1. ASSUME IInv, [Next]_vars
      PROVE  [A]_vars
  <2> SUFFICES ASSUME NEW t \in Tx, status[t] = "absent", status'[t] = "confirmed"
               PROVE  NoOversell'
    OBVIOUS
  <2>1. PICK w \in Worker : InsertRow(w) /\ req[w].tx = t
    BY <1>1, StatusChange DEF IInv
  <2>2. req[w].slot = 0
    BY <1>1, <2>1, InsertRowEffect DEF IInv
  <2>3. QED
    BY <1>1, <2>1, <2>2, InsertFindsSeat
<1>2. QED
  BY <1>1, Invariance, PTL DEF Spec, RegistrationRespectsLimit

\* The waitlist is first come, first served.
THEOREM FirstComeFirstServed == Spec => QueueDiscipline
<1> DEFINE A == \A t, r \in Tx :
       status[r] = "waitlist" /\ status'[r] = "waitlist" =>
         /\ number'[r] = number[r]
         /\ status[t] # "waitlist" /\ status'[t] = "waitlist" => number[r] < number'[t]
         /\ status[t] = "waitlist" /\ status'[t] = "confirmed" => number[t] < number[r]
<1>1. ASSUME IInv, [Next]_vars
      PROVE  [A]_vars
  BY <1>1, QueueStep DEF IInv
<1>2. QED
  BY <1>1, Invariance, PTL DEF Spec, QueueDiscipline

\* A cancelled registration never comes back.
THEOREM CancelledStays == Spec => CancelledIsFinal
<1> DEFINE A == \A t \in Tx : status[t] = "cancelled" => status'[t] \in {"cancelled", "deleted"}
<1>1. ASSUME IInv, [Next]_vars
      PROVE  [A]_vars
  BY <1>1, StatusChange DEF IInv
<1>2. QED
  BY <1>1, Invariance, PTL DEF Spec, CancelledIsFinal

\* A registration gets at most one ticket: no ticket id is ever overwritten.
THEOREM OneTicket == Spec => OneTicketPerRegistration
<1> DEFINE A == \A t \in Tx : ticket'[t] # ticket[t] => None \in {ticket[t], ticket'[t]}
<1>1. ASSUME IInv, [Next]_vars
      PROVE  [A]_vars
  <2>1. CASE ticket' = ticket
    BY <2>1
  <2>2. CASE DeleteEventRegistrations
    BY <2>2 DEF DeleteEventRegistrations
  <2>3. ASSUME NEW w \in Worker, NEW k \in Ticket, AttachTicket(w, k)
        PROVE  A
    <3>1. req[w].tx \in Tx /\ ticket[req[w].tx] = None
      BY <1>1, <2>3, AttachTicketEffect DEF IInv, RequestInv, OwedInv, Owes
    <3>2. \A t \in Tx : t # req[w].tx => ticket'[t] = ticket[t]
      BY <1>1, <2>3, AttachTicketEffect DEF IInv, TypeOK
    <3>3. QED
      BY <3>1, <3>2
  <2>4. ASSUME NEW w \in Worker, CommitCancel(w)
        PROVE  A
    BY <1>1, <2>4, CommitCancelEffect DEF IInv
  <2>5. CASE Next
    BY <1>1, <2>1, <2>2, <2>3, <2>4, <2>5, NextCases, BeginRegisterEffect,
       DecidePlaceEffect, InsertRowEffect, GiveUpEffect, ReadForCancelEffect,
       AdmitCancelEffect, ChooseSuccessorEffect, LockForWithdrawalEffect,
       VoidAnsweredEffect DEF TableKept, IInv
  <2>6. QED
    BY <1>1, <2>5
<1>2. QED
  BY <1>1, Invariance, PTL DEF Spec, OneTicketPerRegistration
=============================================================================
