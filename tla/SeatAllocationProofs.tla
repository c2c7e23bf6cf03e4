------------------------ MODULE SeatAllocationProofs ------------------------
(* What the abstract specifications of the seats and of the passes promise. *)
EXTENDS SeatAllocation, Passes, FiniteSetTheorems, TLAPS

\* Nobody is in two places.
Apart == seated \cap waiting = {}

SInv == IsFiniteSet(seated) /\ Apart /\ SeatsFair

----------------------------------------------------------------------------
\* The steps that take and pass on seats (the bodies of create_registration and
\* cancel_registration) keep the number of seats within the limit.
LEMMA SeatStep ==
  ASSUME Limit \in Nat, SInv, [ANext]_avars
  PROVE  SInv'
<1> USE DEF SInv, Apart, SeatsFair
<1>c. Cardinality(seated) \in Nat
  BY FS_CardinalityType
<1>1. CASE UNCHANGED avars
  BY <1>1 DEF avars
<1>2. ASSUME NEW t \in Tx, TakeSeat(t)
      PROVE  SInv'
  <2>1. t \notin seated /\ t \notin waiting
    BY <1>2 DEF TakeSeat, Fresh
  <2>2. IsFiniteSet(seated') /\ Cardinality(seated') = Cardinality(seated) + 1
    BY <1>2, <2>1, FS_AddElement DEF TakeSeat
  <2>3. HasLimit => Cardinality(seated) < Limit
    BY <1>2, <1>c DEF TakeSeat, SoldOut
  <2>4. waiting' = waiting
    BY <1>2 DEF TakeSeat
  <2>5. waiting = {}
    BY <2>3, <1>c
  <2>6. HasLimit => Cardinality(seated') <= Limit
    BY <2>2, <2>3, <1>c
  <2>7. QED
    BY <2>2, <2>4, <2>5, <2>6
<1>3. ASSUME NEW t \in Tx, JoinWaitlist(t)
      PROVE  SInv'
  <2>1. HasLimit /\ Cardinality(seated) = Limit
    BY <1>3, <1>c DEF JoinWaitlist, SoldOut
  <2>2. QED
    BY <1>3, <2>1 DEF JoinWaitlist, Fresh
<1>4. ASSUME NEW t \in Tx, GiveUpWaiting(t)
      PROVE  SInv'
  BY <1>4 DEF GiveUpWaiting, Leave
<1>5. ASSUME NEW t \in Tx, FreeSeat(t)
      PROVE  SInv'
  <2>1. IsFiniteSet(seated') /\ Cardinality(seated') = Cardinality(seated) - 1
    BY <1>5, FS_RemoveElement DEF FreeSeat
  <2>2. QED
    BY <1>5, <2>1, <1>c DEF FreeSeat
<1>6. ASSUME NEW t \in Tx, NEW h \in Tx, PassSeat(t, h)
      PROVE  SInv'
  <2> DEFINE rest == seated \ {t}
  <2>1. IsFiniteSet(rest) /\ Cardinality(rest) = Cardinality(seated) - 1
    BY <1>6, FS_RemoveElement DEF PassSeat
  <2>2. h \notin rest
    BY <1>6 DEF PassSeat
  <2>3. IsFiniteSet(rest \cup {h}) /\ Cardinality(rest \cup {h}) = Cardinality(rest) + 1
    BY <2>1, <2>2, FS_AddElement
  <2>4. seated' = rest \cup {h} /\ waiting' = waiting \ {h} /\ waiting # {}
    BY <1>6 DEF PassSeat, Leave
  <2>5. IsFiniteSet(seated') /\ Cardinality(seated') = Cardinality(seated)
    BY <2>1, <2>3, <2>4, <1>c
  <2>6. QED
    BY <2>4, <2>5
<1>7. CASE RemoveEvent
  <2>1. seated' = {} /\ waiting' = {}
    BY <1>7 DEF RemoveEvent
  <2>2. IsFiniteSet({}) /\ Cardinality({}) = 0
    BY FS_EmptySet
  <2>3. QED
    BY <2>1, <2>2
<1>8. QED
  BY <1>1, <1>2, <1>3, <1>4, <1>5, <1>6, <1>7 DEF ANext

\* Seats are never oversold and never idle while somebody waits, for any limit.
THEOREM NeverOversoldNorIdle ==
  ASSUME Limit \in Nat
  PROVE  ASpec => []SeatsFair
<1>1. AInit => SInv
  <2>1. IsFiniteSet({}) /\ Cardinality({}) = 0
    BY FS_EmptySet
  <2>2. QED
    BY <2>1 DEF AInit, SInv, Apart, SeatsFair
<1>2. SInv /\ [ANext]_avars => SInv'
  BY SeatStep
<1>3. SInv => SeatsFair
  BY DEF SInv
<1>4. QED
  BY <1>1, <1>2, <1>3, PTL DEF ASpec

----------------------------------------------------------------------------
\* Joining at the end and leaving from anywhere keep the waitlist one line.
LEMMA LineStep ==
  ASSUME OneLine, [ANext]_avars
  PROVE  OneLine'
<1>1. CASE UNCHANGED <<waiting, ahead>>
  BY <1>1 DEF OneLine
<1>2. ASSUME NEW t \in Tx, JoinWaitlist(t)
      PROVE  OneLine'
  BY <1>2 DEF OneLine, JoinWaitlist, Fresh
<1>3. ASSUME NEW t, Leave(t)
      PROVE  OneLine'
  BY <1>3 DEF OneLine, Leave
<1>4. CASE RemoveEvent
  BY <1>4 DEF OneLine, RemoveEvent
<1>5. QED
  BY <1>1, <1>2, <1>3, <1>4
     DEF ANext, avars, TakeSeat, GiveUpWaiting, FreeSeat, PassSeat

\* Any two who wait are one ahead of the other, in one order for all.
THEOREM WaitlistIsOneLine == ASpec => []OneLine
<1>1. AInit => OneLine
  BY DEF AInit, OneLine
<1>2. OneLine /\ [ANext]_avars => OneLine'
  BY LineStep
<1>3. QED
  BY <1>1, <1>2, PTL DEF ASpec

----------------------------------------------------------------------------
(* Passes *)

PassInv == /\ seat \in [Reg -> {"none", "held", "over"}]
           /\ pass \in [Reg -> {"none", "valid", "used", "void"}]
           /\ SeatHasPass

LEMMA PassStep ==
  ASSUME PassInv, [PNext]_pvars
  PROVE  PassInv'
<1> USE DEF PassInv, SeatHasPass
<1>1. CASE UNCHANGED pvars
  BY <1>1 DEF pvars
<1>2. CASE MoveSeats
  BY <1>2 DEF MoveSeats
<1>3. CASE RemovePasses
  <2>1. pass' \in [Reg -> {"none", "valid", "used", "void"}]
    BY <1>3 DEF RemovePasses
  <2>2. QED
    BY <1>3, <2>1 DEF RemovePasses
<1>4. ASSUME NEW r \in Reg, MakePass(r) \/ UsePass(r) \/ VoidPass(r)
      PROVE  PassInv'
  <2>1. pass' \in [Reg -> {"none", "valid", "used", "void"}] /\ UNCHANGED <<seat, removed>>
    BY <1>4 DEF MakePass, UsePass, VoidPass, Turn
  <2>2. QED
    BY <1>4, <2>1 DEF MakePass, UsePass, VoidPass, Turn
<1>5. QED
  BY <1>1, <1>2, <1>3, <1>4 DEF PNext

LEMMA PassInvariance == PSpec => []PassInv
<1>1. PInit => PassInv
  BY DEF PInit, PassInv, SeatHasPass
<1>2. PassInv /\ [PNext]_pvars => PassInv'
  BY PassStep
<1>3. QED
  BY <1>1, <1>2, PTL DEF PSpec

\* Who holds a seat does not lose the pass, and nobody has a pass without ever a seat.
THEOREM SeatsHavePasses == PSpec => []SeatHasPass
<1>1. PassInv => SeatHasPass
  BY DEF PassInv
<1>2. QED
  BY <1>1, PassInvariance, PTL

\* Nothing void is valid again, nothing used is unused again, no seat is given twice.
THEOREM PassesNeverReturn == PSpec => NothingReturns
<1>1. ASSUME PassInv, [PNext]_pvars, NEW r \in Reg
      PROVE  /\ seat[r] = "over" => seat'[r] = "over"
             /\ pass[r] = "used" => pass'[r] \in {"used", "void"}
             /\ pass[r] = "void" => pass'[r] = "void"
  <2> USE <1>1 DEF PassInv
  <2>1. CASE UNCHANGED pvars
    BY <2>1 DEF pvars
  <2>2. CASE MoveSeats \/ RemovePasses
    BY <2>2 DEF MoveSeats, RemovePasses
  <2>3. CASE \E q \in Reg : MakePass(q) \/ UsePass(q) \/ VoidPass(q)
    BY <2>3 DEF MakePass, UsePass, VoidPass, Turn
  <2>4. QED
    BY <2>1, <2>2, <2>3 DEF PNext
<1>2. PassInv /\ [PNext]_pvars =>
        [\A r \in Reg : /\ seat[r] = "over" => seat'[r] = "over"
                        /\ pass[r] = "used" => pass'[r] \in {"used", "void"}
                        /\ pass[r] = "void" => pass'[r] = "void"]_pvars
  BY <1>1
<1>3. QED
  BY <1>2, PassInvariance, PTL DEF PSpec, NothingReturns
=============================================================================
