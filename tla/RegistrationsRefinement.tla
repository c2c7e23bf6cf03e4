---------------------- MODULE RegistrationsRefinement ----------------------
(* What the registrations guarantee once requests that cancel do not        *)
(* overlap: no overselling, no idle seat, and SeatAllocation implemented.   *)
EXTENDS RegistrationsProofs

\* The environments only leave out steps.
LEMMA CalmIsSolo ==
  ASSUME [CalmNext]_vars
  PROVE  [Next /\ OneCancelPerRow']_vars
<1>1. CASE CalmNext
  <2>1. Next
    BY <1>1 DEF CalmNext, Next
  <2>2. OneCancelPerRow'
    BY <1>1 DEF CalmNext, OneCancelAtATime, OneCancelPerRow
  <2>3. QED
    BY <2>1, <2>2
<1>2. QED
  BY <1>1

LEMMA InitSolo ==
  ASSUME Init
  PROVE  SoloInv /\ CalmInv /\ NoOversell /\ NoIdleSeat
<1>1. \A w \in Worker : req[w].at = "idle"
  BY IdleFields DEF Init
<1>2. Confirmed = {} /\ Waiting = {}
  BY DEF Init, Confirmed, Waiting
<1>3. Cardinality({}) = 0
  BY FS_EmptySet
<1>4. SoloInv /\ CalmInv
  BY <1>1 DEF SoloInv, CalmInv, Cancelling, OneCancelPerRow, OneCancelAtATime
<1>5. NoOversell /\ NoIdleSeat
  BY <1>2, <1>3, LimitAssumption DEF NoOversell, NoIdleSeat
<1>6. QED
  BY <1>4, <1>5

----------------------------------------------------------------------------
(* No two requests cancel the same registration.                            *)

\* A request that commits its cancellation is then no longer cancelling.
LEMMA CommitMoves ==
  ASSUME TypeOK, NEW w \in Worker, CommitCancel(w)
  PROVE  req[w].at \in Cancelling /\ req'[w].at \notin Cancelling
BY CommitCancelEffect, IssuingFields, IdleFields DEF Cancelling

LEMMA SoloInvStep ==
  ASSUME IInv, SoloInv, [Next /\ OneCancelPerRow']_vars
  PROVE  SoloInv'
<1>1. [Next]_vars
  OBVIOUS
<1>2. OneCancelPerRow'
  BY DEF SoloInv, vars, OneCancelPerRow
<1>3. ASSUME NEW w \in Worker, req'[w].at \in Cancelling, req'[w].seen = "confirmed"
      PROVE  status'[req'[w].tx] \in {"confirmed", "deleted"}
  <2> DEFINE t == req[w].tx
  <2>1. CASE req'[w] = req[w]
    <3>1. t \in Tx /\ status[t] \in {"confirmed", "deleted"}
      BY <1>3, <2>1 DEF SoloInv, IInv, RequestInv
    <3>2. \A v \in Worker : CommitCancel(v) => v # w
      BY <1>3, CommitMoves DEF IInv
    <3>3. \A v \in Worker : CommitCancel(v) => req[v].tx # t
      BY <1>3, <2>1, <3>2, CommitMoves DEF SoloInv, OneCancelPerRow, IInv
    <3>4. status'[t] \in {"confirmed", "deleted"}
      BY <1>1, <3>1, <3>3, StatusChange DEF IInv
    <3>5. QED
      BY <2>1, <3>4
  <2>2. CASE req'[w] # req[w]
    BY <1>1, <1>3, <2>2, CancellingStep DEF SoloInv, IInv
  <2>3. QED
    BY <2>1, <2>2
<1>4. QED
  BY <1>2, <1>3 DEF SoloInv

\* A cancellation of a seat leaves as many seats taken, or one less if nobody
\* waits; a cancellation of a waitlist place leaves the seats alone.
LEMMA SeatsAfterCancel ==
  ASSUME IInv, NEW w \in Worker, CommitCancel(w)
  PROVE  /\ status[req[w].tx] = "confirmed" /\ req[w].next # None =>
              Cardinality(Confirmed') = Cardinality(Confirmed)
         /\ req[w].next = None => Confirmed' = Confirmed \ {req[w].tx}
<1> USE DEF IInv
<1> DEFINE t == req[w].tx
           s == req[w].next
<1>1. \A r \in Tx : status'[r] = IF r = t THEN "cancelled"
                                 ELSE IF r = s THEN "confirmed" ELSE status[r]
  BY CommitCancelEffect
<1>2. t \in Tx
  BY CommitCancelEffect DEF RequestInv, Cancelling
<1>3. ASSUME status[t] = "confirmed", s # None
      PROVE  Cardinality(Confirmed') = Cardinality(Confirmed)
  <2>1. s \in Tx /\ status[s] = "waitlist"
    BY <1>3, SuccessorWaits DEF Waiting
  <2>2. Confirmed' = (Confirmed \ {t}) \cup {s} /\ s \notin Confirmed \ {t} /\ t \in Confirmed
    BY <1>1, <1>2, <1>3, <2>1 DEF Confirmed
  <2>3. /\ IsFiniteSet(Confirmed \ {t})
        /\ Cardinality(Confirmed \ {t}) = Cardinality(Confirmed) - 1
    BY <2>2, FS_RemoveElement
  <2>4. Cardinality(Confirmed') = Cardinality(Confirmed \ {t}) + 1
    BY <2>2, <2>3, FS_AddElement
  <2>5. QED
    BY <2>3, <2>4, FS_CardinalityType
<1>4. ASSUME s = None
      PROVE  Confirmed' = Confirmed \ {t}
  BY <1>1, <1>4, NoneAssumption DEF Confirmed
<1>5. QED
  BY <1>3, <1>4

\* What an INSERT does to the seats and to the waitlist.
LEMMA InsertEffect ==
  ASSUME IInv, NEW w \in Worker, InsertRow(w)
  PROVE  /\ req[w].tx \in Tx /\ status[req[w].tx] = "absent"
         /\ req[w].slot = 0 => /\ Confirmed' = Confirmed \cup {req[w].tx}
                               /\ Waiting' = Waiting
         /\ req[w].slot > 0 => /\ Confirmed' = Confirmed
                               /\ Waiting' = Waiting \cup {req[w].tx}
<1>1. req[w].tx \in Tx /\ status[req[w].tx] = "absent" /\ req[w].slot \in Nat
  BY InsertRowEffect DEF IInv, RequestInv
<1>2. \A t \in Tx :
        status'[t] = IF t = req[w].tx
                     THEN IF req[w].slot = 0 THEN "confirmed" ELSE "waitlist"
                     ELSE status[t]
  BY InsertRowEffect DEF IInv
<1>3. CASE req[w].slot = 0
  BY <1>1, <1>2, <1>3 DEF Confirmed, Waiting
<1>4. CASE req[w].slot > 0
  BY <1>1, <1>2, <1>4 DEF Confirmed, Waiting
<1>5. QED
  BY <1>1, <1>3, <1>4

LEMMA NoOversellStep ==
  ASSUME IInv, SoloInv, NoOversell, [Next]_vars
  PROVE  NoOversell'
<1> USE DEF IInv
<1>1. CASE status' = status
  BY <1>1 DEF NoOversell, Confirmed
<1>2. CASE DeleteEventRegistrations
  <2>1. Confirmed' = {}
    BY <1>2 DEF DeleteEventRegistrations, Confirmed
  <2>2. QED
    BY <2>1, FS_EmptySet, LimitAssumption DEF NoOversell
<1>3. ASSUME NEW w \in Worker, InsertRow(w)
      PROVE  NoOversell'
  <2>1. CASE req[w].slot = 0
    BY <1>3, <2>1, InsertFindsSeat
  <2>2. CASE req[w].slot # 0
    BY <1>3, <2>2, InsertEffect, InsertRowEffect DEF NoOversell
  <2>3. QED
    BY <2>1, <2>2
<1>4. ASSUME NEW w \in Worker, CommitCancel(w)
      PROVE  NoOversell'
  <2>1. CASE req[w].next # None
    <3>1. status[req[w].tx] = "confirmed"
      BY <1>4, <2>1, SuccessorWaits, CommitCancelEffect DEF SoloInv, RequestInv, Cancelling
    <3>2. QED
      BY <1>4, <2>1, <3>1, SeatsAfterCancel DEF NoOversell
  <2>2. CASE req[w].next = None
    <3>1. Confirmed' \subseteq Confirmed
      BY <1>4, <2>2, SeatsAfterCancel
    <3>2. /\ Cardinality(Confirmed') <= Cardinality(Confirmed)
          /\ Cardinality(Confirmed) \in Nat /\ Cardinality(Confirmed') \in Nat
      BY <3>1, FS_Subset, FS_CardinalityType
    <3>3. QED
      BY <3>2, LimitAssumption DEF NoOversell
  <2>3. QED
    BY <2>1, <2>2
<1>5. CASE Next
  BY <1>5, <1>1, <1>2, <1>3, <1>4, NextCases, BeginRegisterEffect, DecidePlaceEffect,
     GiveUpEffect, ReadForCancelEffect, AdmitCancelEffect, ChooseSuccessorEffect,
     LockForWithdrawalEffect, VoidAnsweredEffect, AttachTicketEffect DEF TableKept
<1>6. QED
  BY <1>1, <1>5 DEF vars

LEMMA SoloInvariance == SoloSpec => [](IInv /\ SoloInv /\ NoOversell)
<1>1. Init => IInv /\ SoloInv /\ NoOversell
  BY InvInit, InitSolo
<1>2. IInv /\ SoloInv /\ NoOversell /\ [Next /\ OneCancelPerRow']_vars
      => (IInv /\ SoloInv /\ NoOversell)'
  BY InvStep, SoloInvStep, NoOversellStep
<1>3. QED
  BY <1>1, <1>2, PTL DEF SoloSpec

\* If no two requests cancel the same registration at once, the event is never
\* oversold, whatever else overlaps.
THEOREM SoloNeverOversells == SoloSpec => []NoOversell
BY SoloInvariance, PTL

----------------------------------------------------------------------------
(* Cancellations one at a time, and the DELETE outside critical sections.   *)

\* In a calm step the table changes by an INSERT, a cancellation or the DELETE,
\* and by the DELETE only while nobody holds the lock.
LEMMA CalmStatus ==
  ASSUME TypeOK, [CalmNext]_vars, lock # None,
         \A v \in Worker : ~InsertRow(v) /\ ~CommitCancel(v)
  PROVE  status' = status /\ number' = number
<1>1. CASE UNCHANGED vars
  BY <1>1 DEF vars
<1>2. ASSUME NEW a \in Worker, RequestStep(a)
      PROVE  status' = status /\ number' = number
  BY <1>2, BeginRegisterEffect, DecidePlaceEffect, GiveUpEffect, ReadForCancelEffect,
     AdmitCancelEffect, ChooseSuccessorEffect, LockForWithdrawalEffect, VoidAnsweredEffect,
     AttachTicketEffect DEF TableKept, RequestStep, Begin, WaitForLock, Continue
<1>3. QED
  BY <1>1, <1>2 DEF CalmNext

\* A request starts to hold a place by deciding it.
LEMMA CountedStep ==
  ASSUME TypeOK, [Next]_vars, NEW w \in Worker,
         req'[w].at = "counted", req'[w] # req[w]
  PROVE  DecidePlace(w)
<1> USE IdleFields DEF OthersKeep
<1>1. req' # req
  OBVIOUS
<1>2. ~DeleteEventRegistrations
  BY <1>1 DEF DeleteEventRegistrations
<1>3. ASSUME NEW a \in Worker, InsertRow(a)
      PROVE  FALSE
  BY <1>3, InsertRowEffect, IssuingFields, RequestTypes
<1>4. ASSUME NEW a \in Worker, CommitCancel(a)
      PROVE  FALSE
  BY <1>4, CommitCancelEffect, IssuingFields
<1>5. ASSUME NEW a \in Worker, VoidAnswered(a)
      PROVE  FALSE
  BY <1>5, VoidAnsweredEffect, IssuingFields
<1>6. ASSUME NEW a \in Worker,
             \/ InsertConflict(a) \/ IssueFails(a) \/ RefuseCancel(a)
             \/ CancelRowGone(a) \/ Abort(a) \/ \E k \in Ticket : AttachTicket(a, k)
      PROVE  FALSE
  BY <1>6, GiveUpEffect, AttachTicketEffect
<1>7. ASSUME NEW a \in Worker,
             \/ \E u \in User, t \in Tx : BeginRegister(a, u, t)
             \/ \E t \in Tx : ReadForCancel(a, t)
             \/ AdmitCancel(a) \/ ChooseSuccessor(a) \/ LockForWithdrawal(a)
      PROVE  FALSE
  BY <1>7, BeginRegisterEffect, ReadForCancelEffect, AdmitCancelEffect,
     ChooseSuccessorEffect, LockForWithdrawalEffect
<1>8. ASSUME NEW a \in Worker, DecidePlace(a)
      PROVE  a = w
  BY <1>8, DecidePlaceEffect
<1>9. Next
  BY <1>1 DEF vars
<1>10. QED
  BY <1>9, <1>2, <1>3, <1>4, <1>5, <1>6, <1>7, <1>8, NextCases

LEMMA CalmInvStep ==
  ASSUME IInv, CalmInv, [CalmNext]_vars
  PROVE  CalmInv'
<1> USE DEF IInv
<1>1. [Next]_vars
  BY CalmIsSolo
<1>2. OneCancelAtATime'
  BY DEF CalmInv, vars, CalmNext, OneCancelAtATime
<1>3. ASSUME NEW w \in Worker, req'[w].at \in Cancelling
      PROVE  status'[req'[w].tx] \in {req'[w].seen, "deleted"}
  <2> DEFINE t == req[w].tx
  <2>1. CASE req'[w] = req[w]
    <3>1. t \in Tx /\ status[t] \in {req[w].seen, "deleted"} /\ status[t] # "absent"
      BY <1>3, <2>1 DEF CalmInv, RequestInv
    <3>2. \A v \in Worker : ~CommitCancel(v)
      BY <1>3, <2>1, CommitMoves DEF CalmInv, OneCancelAtATime
    <3>3. status'[t] \in {status[t], "deleted"}
      BY <1>1, <3>1, <3>2, StatusChange
    <3>4. QED
      BY <2>1, <3>1, <3>3
  <2>2. CASE req'[w] # req[w]
    <3>1. CASE /\ req[w].at \in Cancelling /\ status' = status
               /\ req'[w].tx = req[w].tx /\ req'[w].seen = req[w].seen
      BY <3>1 DEF CalmInv
    <3>2. CASE req'[w].tx \in Tx /\ req'[w].seen = status[req'[w].tx] /\ status' = status
      BY <3>2
    <3>3. QED
      BY <1>1, <1>3, <2>2, <3>1, <3>2, CancellingStep
  <2>3. QED
    BY <2>1, <2>2
<1>4. ASSUME NEW w \in Worker, req'[w].at = "counted", req'[w].slot > 0
      PROVE  Full'
  <2>1. CASE req'[w] = req[w]
    <3>1. Full /\ lock = w
      BY <1>4, <2>1 DEF CalmInv, LockInv, Locked
    <3>2. \A v \in Worker : v # w => ~CommitCancel(v) /\ ~InsertRow(v)
      BY <3>1, CommitCancelEffect, InsertRowEffect DEF LockInv, Locked
    <3>3. ~CommitCancel(w) /\ ~InsertRow(w)
      BY <1>4, <2>1, CommitCancelEffect, InsertRowMoves
    <3>4. lock # None
      BY <3>1, NoneAssumption
    <3>5. status' = status
      BY <3>2, <3>3, <3>4, CalmStatus
    <3>6. Confirmed' = Confirmed
      BY <3>5 DEF Confirmed
    <3>7. QED
      BY <3>1, <3>6 DEF Full
  <2>2. CASE req'[w] # req[w]
    <3>1. DecidePlace(w)
      BY <1>1, <1>4, <2>2, CountedStep
    <3>2. Full /\ Full' = Full
      BY <1>4, <3>1, DecidePlaceEffect, TableKeptFacts
    <3>3. QED
      BY <3>2
  <2>3. QED
    BY <2>1, <2>2
<1>5. QED
  BY <1>2, <1>3, <1>4 DEF CalmInv

LEMMA NoIdleSeatStep ==
  ASSUME IInv, CalmInv, NoIdleSeat, [CalmNext]_vars
  PROVE  NoIdleSeat'
<1> USE DEF IInv
<1>1. CASE status' = status
  BY <1>1 DEF NoIdleSeat, Confirmed, Waiting
<1>2. CASE DeleteEventRegistrations
  BY <1>2 DEF DeleteEventRegistrations, NoIdleSeat, Waiting
<1>3. ASSUME NEW w \in Worker, InsertRow(w)
      PROVE  NoIdleSeat'
  <2>1. req[w].at = "counted" /\ req[w].slot \in Nat
    BY <1>3, InsertRowEffect
  <2>2. CASE req[w].slot = 0
    <3>1. ~Full
      BY <2>1, <2>2 DEF PlaceInv
    <3>2. Waiting = {}
      BY <3>1 DEF NoIdleSeat, Full
    <3>3. QED
      BY <1>3, <2>2, <3>2, InsertEffect DEF NoIdleSeat
  <2>3. CASE req[w].slot > 0
    <3>1. Full /\ Confirmed' = Confirmed
      BY <1>3, <2>1, <2>3, InsertEffect DEF CalmInv
    <3>2. QED
      BY <3>1 DEF NoIdleSeat, Full
  <2>4. QED
    BY <2>1, <2>2, <2>3
<1>4. ASSUME NEW w \in Worker, CommitCancel(w)
      PROVE  NoIdleSeat'
  <2>1. /\ req[w].at \in {"promoting", "withdrawing"}
        /\ status[req[w].tx] = req[w].seen
    BY <1>4, CommitCancelEffect DEF CalmInv, Cancelling
  <2>2. Waiting' \subseteq Waiting
    BY <1>4, CommitCancelEffect DEF Waiting
  <2>3. CASE req[w].next # None
    <3>1. Cardinality(Confirmed') = Cardinality(Confirmed)
      BY <1>4, <2>1, <2>3, SuccessorWaits, SeatsAfterCancel DEF RequestInv
    <3>2. QED
      BY <2>2, <3>1 DEF NoIdleSeat
  <2>4. CASE req[w].next = None /\ req[w].at = "promoting"
    <3>1. Waiting = {}
      BY <2>4, HeadsWait DEF PlaceInv
    <3>2. QED
      BY <2>2, <3>1 DEF NoIdleSeat
  <2>5. CASE req[w].next = None /\ req[w].at = "withdrawing"
    <3>1. req[w].tx \notin Confirmed
      BY <2>1, <2>5 DEF RequestInv, Confirmed
    <3>2. Confirmed' = Confirmed
      BY <1>4, <2>5, <3>1, SeatsAfterCancel
    <3>3. QED
      BY <2>2, <3>2 DEF NoIdleSeat
  <2>6. QED
    BY <2>1, <2>3, <2>4, <2>5
<1>5. [Next]_vars
  BY CalmIsSolo
<1>6. CASE Next
  BY <1>6, <1>1, <1>2, <1>3, <1>4, NextCases, BeginRegisterEffect, DecidePlaceEffect,
     GiveUpEffect, ReadForCancelEffect, AdmitCancelEffect, ChooseSuccessorEffect,
     LockForWithdrawalEffect, VoidAnsweredEffect, AttachTicketEffect DEF TableKept
<1>7. QED
  BY <1>1, <1>5, <1>6 DEF vars

LEMMA CalmInvariance == CalmSpec => [](IInv /\ CalmInv /\ NoOversell /\ NoIdleSeat)
<1>1. Init => IInv /\ SoloInv /\ CalmInv /\ NoOversell /\ NoIdleSeat
  BY InvInit, InitSolo
<1>2. IInv /\ SoloInv /\ CalmInv /\ NoOversell /\ NoIdleSeat /\ [CalmNext]_vars
      => (IInv /\ SoloInv /\ CalmInv /\ NoOversell /\ NoIdleSeat)'
  <2> SUFFICES ASSUME IInv, SoloInv, CalmInv, NoOversell, NoIdleSeat, [CalmNext]_vars
               PROVE  (IInv /\ SoloInv /\ CalmInv /\ NoOversell /\ NoIdleSeat)'
    OBVIOUS
  <2>1. [Next /\ OneCancelPerRow']_vars
    BY CalmIsSolo
  <2>2. [Next]_vars
    BY <2>1
  <2>3. QED
    BY <2>1, <2>2, InvStep, SoloInvStep, CalmInvStep, NoOversellStep, NoIdleSeatStep
<1>3. QED
  BY <1>1, <1>2, PTL DEF CalmSpec

\* If cancellations follow one another, nobody waits while a seat is free.
THEOREM CalmNeverIdle == CalmSpec => []NoIdleSeat
BY CalmInvariance, PTL

----------------------------------------------------------------------------
(* No registration is cancelled while its ticket is on its way.             *)

\* A ticket is attached by the request that owes it.
LEMMA TicketChange ==
  ASSUME TypeOK, RequestInv, [Next]_vars, NEW t \in Tx, ticket'[t] \notin {ticket[t], None}
  PROVE  \E w \in Worker : Owes(w, t)
<1>1. ASSUME ticket' = ticket \/ DeleteEventRegistrations
      PROVE  FALSE
  BY <1>1 DEF DeleteEventRegistrations
<1>2. ASSUME NEW w \in Worker, CommitCancel(w)
      PROVE  FALSE
  BY <1>2, CommitCancelEffect
<1>3. ASSUME NEW w \in Worker, NEW k \in Ticket, AttachTicket(w, k)
      PROVE  Owes(w, t)
  <2>1. req[w].at = "issuing" /\ ticket' = [ticket EXCEPT ![req[w].tx] = k]
    BY <1>3, AttachTicketEffect
  <2>2. req[w].tx = t
    BY <2>1 DEF TypeOK
  <2>3. QED
    BY <2>1, <2>2 DEF Owes
<1>4. CASE Next
  BY <1>1, <1>2, <1>3, <1>4, NextCases, BeginRegisterEffect, DecidePlaceEffect, InsertRowEffect,
     GiveUpEffect, ReadForCancelEffect, AdmitCancelEffect, ChooseSuccessorEffect,
     LockForWithdrawalEffect, VoidAnsweredEffect DEF TableKept
<1>5. QED
  BY <1>1, <1>4 DEF vars

\* A request owes a ticket from the INSERT or the promotion on that gave the seat.
LEMMA OwesStep ==
  ASSUME TypeOK, RequestInv, [Next]_vars, NEW w \in Worker, NEW t \in Tx, Owes(w, t)'
  PROVE  \/ Owes(w, t)
         \/ InsertRow(w) /\ req[w].tx = t /\ req[w].slot = 0
         \/ CommitCancel(w) /\ req[w].next = t
<1> USE NoneAssumption, IdleFields DEF OthersKeep
<1>1. CASE req' = req
  BY <1>1 DEF Owes
<1>2. ASSUME NEW a \in Worker, OthersKeep(a), a # w
      PROVE  Owes(w, t)
  BY <1>2 DEF Owes
<1>3. ASSUME NEW u \in User, NEW r \in Tx, BeginRegister(w, u, r)
      PROVE  FALSE
  BY <1>3, BeginRegisterEffect DEF Owes
<1>4. ASSUME DecidePlace(w)
      PROVE  FALSE
  BY <1>4, DecidePlaceEffect DEF Owes
<1>5. ASSUME InsertRow(w)
      PROVE  req[w].tx = t /\ req[w].slot = 0
  <2>1. req[w].tx \in Tx /\ req[w].slot \in Nat
    BY <1>5, InsertRowEffect DEF RequestInv
  <2>2. req'[w] = Issuing(IF req[w].slot = 0 THEN req[w].tx ELSE None)
    BY <1>5, InsertRowEffect
  <2>3. req'[w].at \in {"issuing", "voiding"}
    BY DEF Owes
  <2>4. req[w].slot = 0
    BY <2>2, <2>3, IssuingFields
  <2>5. req'[w].at = "issuing" /\ req'[w].tx = req[w].tx
    BY <2>1, <2>2, <2>4, IssuingFields
  <2>6. QED
    BY <2>4, <2>5 DEF Owes
<1>6. ASSUME \/ InsertConflict(w) \/ IssueFails(w) \/ RefuseCancel(w)
             \/ CancelRowGone(w) \/ Abort(w) \/ \E k \in Ticket : AttachTicket(w, k)
      PROVE  FALSE
  BY <1>6, GiveUpEffect, AttachTicketEffect DEF Owes
<1>7. ASSUME \/ \E r \in Tx : ReadForCancel(w, r)
             \/ AdmitCancel(w) \/ ChooseSuccessor(w) \/ LockForWithdrawal(w)
      PROVE  FALSE
  BY <1>7, ReadForCancelEffect, AdmitCancelEffect, ChooseSuccessorEffect,
     LockForWithdrawalEffect DEF Owes
<1>8. ASSUME CommitCancel(w)
      PROVE  req[w].next = t
  BY <1>8, CommitCancelEffect, IssuingFields DEF Owes
<1>9. ASSUME VoidAnswered(w)
      PROVE  Owes(w, t)
  BY <1>9, VoidAnsweredEffect, IssuingFields DEF Owes
<1>10. CASE DeleteEventRegistrations
  BY <1>1, <1>10 DEF DeleteEventRegistrations
<1>11. ASSUME NEW a \in Worker, a # w, RequestStep(a)
       PROVE  Owes(w, t)
  <2>1. OthersKeep(a)
    BY <1>11, BeginRegisterEffect, DecidePlaceEffect, InsertRowEffect, GiveUpEffect,
       ReadForCancelEffect, AdmitCancelEffect, ChooseSuccessorEffect, LockForWithdrawalEffect,
       CommitCancelEffect, VoidAnsweredEffect, AttachTicketEffect
    DEF RequestStep, Begin, WaitForLock, Continue
  <2>2. QED
    BY <1>2, <1>11, <2>1
<1>12. CASE RequestStep(w)
  BY <1>3, <1>4, <1>5, <1>6, <1>7, <1>8, <1>9, <1>12
  DEF RequestStep, Begin, WaitForLock, Continue
<1>13. QED
  BY <1>1, <1>10, <1>11, <1>12 DEF Next, vars

\* Who is promoted is not the one whose seat it is.
LEMMA SuccessorIsAnother ==
  ASSUME IInv, NEW w \in Worker, CommitCancel(w), req[w].tx \in Tx
  PROVE  req[w].next # req[w].tx
<1>1. CASE req[w].next = None
  BY <1>1, NoneAssumption
<1>2. CASE req[w].next # None
  <2>1. req[w].at = "promoting" /\ status[req[w].next] = "waitlist"
    BY <1>2, SuccessorWaits DEF IInv, Waiting
  <2>2. status[req[w].tx] # "waitlist"
    BY <2>1 DEF IInv, RequestInv, SeenInv, Cancelling
  <2>3. QED
    BY <2>1, <2>2
<1>3. QED
  BY <1>1, <1>2

LEMMA SettledInvStep ==
  ASSUME IInv, SettledInv, [Next /\ TicketsSettled']_vars
  PROVE  SettledInv'
<1> USE DEF IInv
<1>1. [Next]_vars
  OBVIOUS
<1>2. TicketsSettled'
  BY DEF SettledInv, vars, TicketsSettled, Owes
<1>3. ASSUME NEW w \in Worker, req'[w].at \in Cancelling, req'[w].held = None
      PROVE  ticket'[req'[w].tx] = None
  <2>1. CASE req'[w] = req[w]
    <3>1. req[w].tx \in Tx /\ ticket[req[w].tx] = None /\ \A v \in Worker : ~Owes(v, req[w].tx)
      BY <1>3, <2>1 DEF SettledInv, TicketsSettled, RequestInv
    <3>2. QED
      BY <1>1, <2>1, <3>1, TicketChange
  <2>2. CASE req'[w] # req[w]
    BY <1>1, <1>3, <2>2, CancellingStep DEF SettledInv
  <2>3. QED
    BY <2>1, <2>2
\* What a cancellation's commit finds and leaves.
<1>4. ASSUME NEW v \in Worker, NEW t \in Tx, CommitCancel(v), req[v].tx = t
      PROVE  ticket'[t] = None /\ \A w \in Worker : ~Owes(w, t)'
  <2>1. req[v].at \in Cancelling /\ \A w \in Worker : ~Owes(w, t)
    BY <1>4, CommitCancelEffect DEF SettledInv, TicketsSettled, Cancelling
  <2>2. ticket'[t] = None
    BY <1>4, <2>1 DEF SettledInv, CommitCancel, TypeOK
  <2>3. ASSUME NEW w \in Worker, Owes(w, t)'
        PROVE  FALSE
    <3>1. w = v
      <4>1. w # v => req'[w] = req[w]
        BY <1>4, CommitCancelEffect DEF OthersKeep
      <4>2. QED
        BY <2>1, <2>3, <4>1 DEF Owes
    <3>2. InsertRow(v) \/ req[v].next = t
      BY <1>1, <2>1, <2>3, <3>1, OwesStep
    <3>3. QED
      BY <1>4, <3>2, SuccessorIsAnother, CommitCancelEffect, InsertRowEffect
  <2>4. QED
    BY <2>2, <2>3
<1>5. ASSUME NEW t \in Tx, status'[t] = "cancelled"
      PROVE  ticket'[t] = None /\ \A w \in Worker : ~Owes(w, t)'
  <2>1. CASE status[t] = "cancelled"
    <3>1. ticket[t] = None /\ \A w \in Worker : ~Owes(w, t)
      BY <2>1 DEF SettledInv, CancelledHoldsNoTicket
    <3>2. ticket'[t] = None
      BY <1>1, <3>1, TicketChange
    <3>3. ASSUME NEW w \in Worker, Owes(w, t)'
          PROVE  FALSE
      <4>1. \/ InsertRow(w) /\ req[w].tx = t
            \/ CommitCancel(w) /\ req[w].next = t
        BY <1>1, <3>1, <3>3, OwesStep
      <4>2. status[t] \in {"absent", "waitlist"}
        BY <4>1, InsertRowEffect, SuccessorWaits, NoneAssumption DEF RequestInv, Waiting
      <4>3. QED
        BY <2>1, <4>2
    <3>4. QED
      BY <3>2, <3>3
  <2>2. CASE status[t] # "cancelled"
    <3>1. PICK v \in Worker : CommitCancel(v) /\ req[v].tx = t
      <4>1. ASSUME NEW v \in Worker, InsertRow(v), req[v].tx = t
            PROVE  FALSE
        BY <1>5, <4>1, InsertRowEffect
      <4>2. QED
        BY <1>1, <1>5, <2>2, <4>1, StatusChange
    <3>2. QED
      BY <1>4, <3>1
  <2>3. QED
    BY <2>1, <2>2
<1>6. QED
  BY <1>2, <1>3, <1>5 DEF SettledInv, CancelledHoldsNoTicket

\* The stale ticket of a cancelled registration has one cause: the cancellation ran while
\* the ticket was still being issued.  Otherwise none is left, whatever else overlaps.
THEOREM SettledLeavesNoTicket == SettledSpec => []CancelledHoldsNoTicket
<1>1. Init => IInv /\ SettledInv
  <2>1. ASSUME Init
        PROVE  SettledInv
    <3>1. \A w \in Worker : req[w].at = "idle"
      BY <2>1, IdleFields DEF Init
    <3>2. \A t \in Tx : status[t] = "absent"
      BY <2>1 DEF Init
    <3>3. QED
      BY <3>1, <3>2 DEF SettledInv, TicketsSettled, CancelledHoldsNoTicket, Cancelling, Owes
  <2>2. QED
    BY <2>1, InvInit
<1>2. IInv /\ SettledInv /\ [Next /\ TicketsSettled']_vars => (IInv /\ SettledInv)'
  <2> SUFFICES ASSUME IInv, SettledInv, [Next /\ TicketsSettled']_vars
               PROVE  (IInv /\ SettledInv)'
    OBVIOUS
  <2>1. [Next]_vars
    OBVIOUS
  <2>2. QED
    BY <2>1, InvStep, SettledInvStep
<1>3. IInv /\ SettledInv => CancelledHoldsNoTicket
  BY DEF SettledInv
<1>4. QED
  BY <1>1, <1>2, <1>3, PTL DEF SettledSpec

----------------------------------------------------------------------------
(* The refinement.  An INSERT is TakeSeat or JoinWaitlist, a committed      *)
(* cancellation is GiveUpWaiting, FreeSeat or PassSeat, the DELETE is       *)
(* RemoveEvent; everything else, reading, waiting for the lock, issuing and *)
(* voiding tickets, leaves the seats and the waitlist as they are.          *)

LEMMA SameCardinality == \A S : Seats!Cardinality(S) = Cardinality(S)
BY DEF Seats!Cardinality, Cardinality

LEMMA InsertRefines ==
  ASSUME IInv, CalmInv, NEW w \in Worker, InsertRow(w)
  PROVE  Seats!ANext
<1> USE DEF IInv
<1> DEFINE t == req[w].tx
           n == req[w].slot
<1>1. /\ t \in Tx /\ n \in Nat /\ req[w].at = "counted"
      /\ status[t] = "absent"
  BY InsertRowEffect, InsertEffect
<1>2. /\ \A r \in Tx : r # t => status'[r] = status[r] /\ number'[r] = number[r]
      /\ number'[t] = n
      /\ status'[t] = IF n = 0 THEN "confirmed" ELSE "waitlist"
  BY <1>1, InsertRowEffect
<1>3. Seats!Fresh(t)
  BY <1>1 DEF Seats!Fresh, Confirmed, Waiting, Gone
<1>4. Gone' = Gone
  BY <1>1, <1>2 DEF Gone
<1>5. CASE n = 0
  <2>1. ~Seats!SoldOut
    BY <1>1, <1>5, SameCardinality DEF PlaceInv, Full, Seats!SoldOut
  <2>2. Waiting' = Waiting /\ Confirmed' = Confirmed \cup {t}
    BY <1>5, InsertEffect
  <2>3. Ahead' = Ahead
    BY <1>1, <1>2, <2>2 DEF Ahead, Waiting
  <2>4. Seats!TakeSeat(t)
    BY <1>3, <1>4, <2>1, <2>2, <2>3 DEF Seats!TakeSeat
  <2>5. QED
    BY <1>1, <2>4 DEF Seats!ANext
<1>6. CASE n > 0
  <2>1. Seats!SoldOut
    BY <1>1, <1>6, SameCardinality DEF CalmInv, Full, Seats!SoldOut
  <2>2. Waiting' = Waiting \cup {t} /\ Confirmed' = Confirmed
    BY <1>6, InsertEffect
  <2>3. \A r \in Waiting : r \in Tx /\ r # t /\ number[r] < n /\ number'[r] = number[r]
    BY <1>1, <1>2, <1>6 DEF PlaceInv, Waiting
  <2>4. ASSUME NEW a \in Waiting', NEW b \in Waiting'
        PROVE  number'[a] < number'[b] <=> <<a, b>> \in Ahead \/ (a \in Waiting /\ b = t)
    <3>1. CASE a \in Waiting /\ b \in Waiting
      BY <3>1, <2>3 DEF Ahead
    <3>2. CASE a \in Waiting /\ b = t
      BY <3>2, <1>2, <2>3
    <3>3. CASE a = t /\ b \in Waiting
      <4>1. number[b] \in Nat /\ number'[a] = n /\ number'[b] = number[b] /\ number[b] < n
        BY <3>3, <1>2, <2>3 DEF TypeOK
      <4>2. a \notin Waiting
        BY <3>3, <2>3
      <4>3. QED
        BY <1>1, <4>1, <4>2 DEF Ahead
    <3>4. CASE a = t /\ b = t
      BY <3>4, <1>1, <1>2, <2>3 DEF Ahead
    <3>5. QED
      BY <2>2, <3>1, <3>2, <3>3, <3>4
  <2>5. Ahead' = Ahead \cup (Waiting \X {t})
    BY <2>2, <2>4 DEF Ahead
  <2>6. Seats!JoinWaitlist(t)
    BY <1>3, <1>4, <2>1, <2>2, <2>5 DEF Seats!JoinWaitlist
  <2>7. QED
    BY <1>1, <2>6 DEF Seats!ANext
<1>7. QED
  BY <1>1, <1>5, <1>6

LEMMA CommitRefines ==
  ASSUME IInv, CalmInv, NEW w \in Worker, CommitCancel(w)
  PROVE  Seats!ANext
<1> USE DEF IInv
<1> DEFINE t == req[w].tx
           s == req[w].next
<1>1. /\ req[w].at \in {"promoting", "withdrawing"}
      /\ t \in Tx /\ status[t] = req[w].seen
  BY CommitCancelEffect DEF CalmInv, RequestInv, Cancelling
<1>2. /\ \A r \in Tx : status'[r] = IF r = t THEN "cancelled"
                                    ELSE IF r = s THEN "confirmed" ELSE status[r]
      /\ \A r \in Tx : number'[r] = IF r = s THEN 0 ELSE number[r]
  BY CommitCancelEffect
<1>3. CASE req[w].at = "withdrawing"
  <2>1. s = None /\ s \notin Tx /\ t \in Waiting
    BY <1>1, <1>3, NoneAssumption DEF RequestInv, Waiting
  <2>2. /\ Confirmed' = Confirmed /\ Waiting' = Waiting \ {t}
        /\ Gone' = Gone \cup {t}
    BY <1>1, <1>2, <2>1 DEF Confirmed, Waiting, Gone
  <2>3. \A r \in Waiting : number'[r] = number[r]
    BY <1>2, <2>1 DEF Waiting
  <2>4. Ahead' = {p \in Ahead : t \notin {p[1], p[2]}}
    BY <2>2, <2>3 DEF Ahead
  <2>5. Seats!GiveUpWaiting(t)
    BY <2>1, <2>2, <2>4 DEF Seats!GiveUpWaiting, Seats!Leave
  <2>6. QED
    BY <1>1, <2>5 DEF Seats!ANext
<1>4. CASE req[w].at = "promoting" /\ s = None
  <2>1. s \notin Tx /\ t \in Confirmed /\ Waiting = {}
    BY <1>1, <1>4, NoneAssumption, HeadsWait DEF RequestInv, PlaceInv, Confirmed
  <2>2. /\ Confirmed' = Confirmed \ {t} /\ Waiting' = Waiting
        /\ Gone' = Gone \cup {t}
    BY <1>1, <1>2, <2>1 DEF Confirmed, Waiting, Gone
  <2>3. Ahead' = Ahead
    BY <2>1, <2>2 DEF Ahead
  <2>4. Seats!FreeSeat(t)
    BY <2>1, <2>2, <2>3 DEF Seats!FreeSeat
  <2>5. QED
    BY <1>1, <2>4 DEF Seats!ANext
<1>5. CASE req[w].at = "promoting" /\ s # None
  <2>1. /\ t \in Confirmed /\ s \in Waiting /\ s \in Tx /\ s # t
        /\ s \in Heads
    BY <1>1, <1>5, SuccessorWaits DEF RequestInv, PlaceInv, Confirmed, Waiting
  <2>2. /\ Confirmed' = (Confirmed \ {t}) \cup {s} /\ Waiting' = Waiting \ {s}
        /\ Gone' = Gone \cup {t}
    BY <1>1, <1>2, <2>1 DEF Confirmed, Waiting, Gone
  <2>3. \A r \in Waiting : r # s => number'[r] = number[r]
    BY <1>2 DEF Waiting
  <2>4. Ahead' = {p \in Ahead : s \notin {p[1], p[2]}}
    BY <2>2, <2>3 DEF Ahead
  <2>5. \A r \in Waiting : /\ number[s] <= number[r]
                           /\ number[s] \in Nat /\ number[r] \in Nat
    BY <2>1 DEF Heads, Waiting, TypeOK
  <2>6. \A r \in Waiting : <<r, s>> \notin Ahead
    BY <2>5 DEF Ahead
  <2>7. Seats!PassSeat(t, s)
    BY <2>1, <2>2, <2>4, <2>6 DEF Seats!PassSeat, Seats!Leave
  <2>8. QED
    BY <1>1, <2>1, <2>7 DEF Seats!ANext
<1>6. QED
  BY <1>1, <1>3, <1>4, <1>5

LEMMA DeleteRefines ==
  ASSUME DeleteEventRegistrations, TypeOK
  PROVE  Seats!ANext
<1>1. \A t \in Tx : status'[t] = IF status[t] = "absent" THEN "absent" ELSE "deleted"
  BY DEF DeleteEventRegistrations
<1>2. Confirmed' = {} /\ Waiting' = {}
  BY <1>1 DEF Confirmed, Waiting
<1>3. Gone' = Gone \cup Confirmed \cup Waiting
  BY <1>1 DEF Confirmed, Waiting, Gone, TypeOK
<1>4. Ahead' = {}
  BY <1>2 DEF Ahead
<1>5. QED
  BY <1>2, <1>3, <1>4 DEF Seats!ANext, Seats!RemoveEvent

LEMMA StepRefines ==
  ASSUME IInv, CalmInv, [CalmNext]_vars
  PROVE  [Seats!ANext]_(Seats!avars)
<1> USE DEF IInv
<1>1. CASE status' = status /\ number' = number
  <2>1. Confirmed' = Confirmed /\ Waiting' = Waiting /\ Gone' = Gone
    BY <1>1 DEF Confirmed, Waiting, Gone
  <2>2. Ahead' = Ahead
    BY <1>1, <2>1 DEF Ahead
  <2>3. QED
    BY <2>1, <2>2 DEF Seats!avars
<1>2. [Next]_vars
  BY CalmIsSolo
<1>3. CASE Next
  BY <1>3, <1>1, NextCases, InsertRefines, CommitRefines, DeleteRefines, BeginRegisterEffect,
     DecidePlaceEffect, GiveUpEffect, ReadForCancelEffect, AdmitCancelEffect,
     ChooseSuccessorEffect, LockForWithdrawalEffect, VoidAnsweredEffect,
     AttachTicketEffect DEF TableKept
<1>4. QED
  BY <1>1, <1>2, <1>3 DEF vars

\* If cancellations follow one another, requests, advisory lock and table do what
\* SeatAllocation says: every step gives out, frees or passes on one seat, moves
\* one registration in or out of the line, removes the event, or changes nothing.
THEOREM CalmImplementsSeats == CalmSpec => SeatsImplemented
<1>1. Init => Seats!AInit
  <2>1. SUFFICES ASSUME Init
                 PROVE  Confirmed = {} /\ Waiting = {} /\ Ahead = {} /\ Gone = {}
    BY DEF Seats!AInit
  <2>2. Confirmed = {} /\ Waiting = {} /\ Gone = {}
    BY <2>1 DEF Init, Confirmed, Waiting, Gone
  <2>3. QED
    BY <2>2 DEF Ahead
<1>2. IInv /\ CalmInv /\ [CalmNext]_vars => [Seats!ANext]_(Seats!avars)
  BY StepRefines
<1>3. CalmSpec => [](IInv /\ CalmInv)
  BY CalmInvariance, PTL
<1>4. QED
  BY <1>1, <1>2, <1>3, PTL DEF CalmSpec, SeatsImplemented, Seats!ASpec
=============================================================================
