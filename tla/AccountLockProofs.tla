------------------------- MODULE AccountLockProofs -------------------------
(* Proofs about AccountLock. *)
EXTENDS AccountLock, TLAPS

LEMMA NextCases ==
  ASSUME Step
  PROVE  \/ \E u \in User : CreateAccount(u) \/ DeleteAccount(u)
         \/ \E w \in Worker : \/ \E u \in User : ReadForPunish(w, u) \/ ReadForUnlock(w, u)
                              \/ SavePunish(w) \/ SaveUnlock(w) \/ Abort(w)
         \/ NextDay \/ RunMissed \/ LoadExpired \/ SaveExpired \/ SaveExpiredFails \/ JobDies
BY DEF Step, Handle, Scheduler

\* A request that works on an account knows which, and loaded an existing row.
ReqInv ==
  \A w \in Worker : req[w].at # "idle" => req[w].user \in User /\ req[w].seen \in {"active", "locked"}

LInv == TypeOK /\ ReqInv /\ LockedHasEnd /\ \A w \in Worker : req[w].at = "unlock" => req[w].seen = "locked"

LEMMA RequestForms ==
  ASSUME TypeOK
  PROVE  /\ Idle \in Request
         /\ \A u \in User, kind \in {"punish", "unlock"} :
              status[u] # "absent" =>
                /\ Loaded(kind, u) \in Request
                /\ Loaded(kind, u).at = kind /\ Loaded(kind, u).user = u
                /\ Loaded(kind, u).seen = status[u]
                /\ Loaded(kind, u).ended = (left[u] = None)
BY DEF TypeOK, Request, Idle, Loaded

\* Types, what requests know, and the end of every lock are kept together: a step
\* that locks an account writes the end of its lock in the same commit, and a
\* step that clears the end also writes the status, since it saw a locked account.
LEMMA LInvStep ==
  ASSUME LInv, [Next]_vars
  PROVE  LInv'
<1> USE NoneAssumption, LockDaysAssumption DEF LInv
<1>0. clashed' \in BOOLEAN
  BY DEF Next, vars, TypeOK
<1> USE <1>0
<1>1. CASE UNCHANGED vars
  BY <1>1 DEF vars, TypeOK, ReqInv, LockedHasEnd, LInv
<1>2. ASSUME NEW u \in User, CreateAccount(u)
      PROVE  LInv'
  BY <1>2 DEF CreateAccount, TypeOK, ReqInv, LockedHasEnd
<1>3. ASSUME NEW u \in User, DeleteAccount(u)
      PROVE  LInv'
  BY <1>3 DEF DeleteAccount, TypeOK, ReqInv, LockedHasEnd
<1>4. ASSUME NEW w \in Worker, NEW u \in User, NEW kind \in {"punish", "unlock"},
             status[u] # "absent", kind = "unlock" => status[u] = "locked",
             req' = [req EXCEPT ![w] = Loaded(kind, u)], UNCHANGED <<rows, due, job>>
      PROVE  LInv'
  <2>1. /\ \A v \in Worker : req'[v] = IF v = w THEN Loaded(kind, u) ELSE req[v]
        /\ req' \in [Worker -> Request]
    BY <1>4, RequestForms DEF TypeOK
  <2>2. Loaded(kind, u).user = u /\ Loaded(kind, u).seen \in {"active", "locked"}
    BY <1>4, RequestForms DEF TypeOK
  <2>3. TypeOK' /\ LockedHasEnd'
    BY <1>4, <2>1 DEF TypeOK, LockedHasEnd, rows
  <2>4. ReqInv'
    BY <2>1, <2>2 DEF ReqInv
  <2>5. \A v \in Worker : req'[v].at = "unlock" => req'[v].seen = "locked"
    BY <1>4, <2>1, RequestForms
  <2>6. QED
    BY <2>3, <2>4, <2>5
<1>5. ASSUME NEW w \in Worker, SavePunish(w)
      PROVE  LInv'
  <2>1. req' = [req EXCEPT ![w] = Idle] /\ req' \in [Worker -> Request]
    BY <1>5, RequestForms DEF SavePunish, TypeOK
  <2>2. status' \in [User -> {"absent", "active", "locked"}]
    BY <1>5 DEF SavePunish, TypeOK
  <2>3. left' \in [User -> (0..LockDays) \cup {None}]
    <3>1. LockDays \in (0..LockDays) \cup {None}
      OBVIOUS
    <3>2. left' = [left EXCEPT ![req[w].user] = LockDays]
      BY <1>5 DEF SavePunish
    <3>3. QED
      BY <3>1, <3>2 DEF TypeOK
  <2>4. LockedHasEnd'
    BY <1>5 DEF SavePunish, TypeOK, LockedHasEnd, ReqInv
  <2>5. QED
    BY <1>5, <2>1, <2>2, <2>3, <2>4 DEF SavePunish, TypeOK, ReqInv, Idle
<1>6. ASSUME NEW w \in Worker, SaveUnlock(w)
      PROVE  LInv'
  <2>1. req' = [req EXCEPT ![w] = Idle] /\ req' \in [Worker -> Request]
    BY <1>6, RequestForms DEF SaveUnlock, TypeOK
  <2>2. status' \in [User -> {"absent", "active", "locked"}]
    BY <1>6 DEF SaveUnlock, TypeOK
  <2>3. left' \in [User -> (0..LockDays) \cup {None}]
    BY <1>6 DEF SaveUnlock, TypeOK
  <2>4. LockedHasEnd'
    BY <1>6 DEF SaveUnlock, TypeOK, LockedHasEnd, ReqInv
  <2>5. QED
    BY <1>6, <2>1, <2>2, <2>3, <2>4 DEF SaveUnlock, TypeOK, ReqInv, Idle
<1>7. ASSUME NEW w \in Worker, Abort(w)
      PROVE  LInv'
  BY <1>7, RequestForms DEF Abort, rows, TypeOK, ReqInv, LockedHasEnd, Idle
<1>8. CASE NextDay
  <2>1. left' \in [User -> (0..LockDays) \cup {None}]
    BY <1>8 DEF NextDay, TypeOK
  <2>2. \A u \in User : left'[u] = None => left[u] = None
    BY <1>8 DEF NextDay, TypeOK
  <2>3. QED
    BY <1>8, <2>1, <2>2 DEF NextDay, TypeOK, ReqInv, LockedHasEnd
<1>9. CASE RunMissed \/ LoadExpired
  BY <1>9 DEF RunMissed, LoadExpired, Expired, rows, TypeOK, ReqInv, LockedHasEnd
<1>10. CASE SaveExpired
  BY <1>10 DEF SaveExpired, TypeOK, ReqInv, LockedHasEnd
<1>11. CASE SaveExpiredFails \/ JobDies
  BY <1>11 DEF SaveExpiredFails, JobDies, rows, TypeOK, ReqInv, LockedHasEnd
<1>12. ASSUME NEW w \in Worker, NEW u \in User, ReadForPunish(w, u) \/ ReadForUnlock(w, u)
       PROVE  LInv'
  BY <1>12, <1>4 DEF ReadForPunish, ReadForUnlock
<1>13. QED
  BY <1>1, <1>2, <1>3, <1>5, <1>6, <1>7, <1>8, <1>9, <1>10, <1>11, <1>12, NextCases DEF Next

LEMMA LInvInit == Init => LInv
<1> SUFFICES ASSUME Init PROVE LInv
  OBVIOUS
<1>1. Idle \in Request /\ Idle.at = "idle"
  BY DEF Idle, Request
<1>2. TypeOK
  BY <1>1 DEF Init, TypeOK
<1>3. ReqInv /\ LockedHasEnd /\ \A w \in Worker : req[w].at # "unlock"
  BY <1>1 DEF Init, ReqInv, LockedHasEnd
<1>4. QED
  BY <1>2, <1>3 DEF LInv

LEMMA LInvariance == Spec => []LInv
BY LInvInit, LInvStep, PTL DEF Spec

\* Columns, locals and the job stay in their domains.
THEOREM TypeCorrect == Spec => []TypeOK
<1>1. LInv => TypeOK
  BY DEF LInv
<1>2. QED
  BY <1>1, LInvariance, PTL

----------------------------------------------------------------------------
(* While everybody works on an account of their own, what a handler or the  *)
(* job has loaded is still so when it writes.                               *)

SeenStill ==
  \A w \in Worker : req[w].at # "idle" =>
    /\ status[req[w].user] = req[w].seen
    /\ req[w].ended <=> left[req[w].user] = None

JobStill == \A u \in job : status[u] = "locked" /\ left[u] = 0

OnlyLockedEnds == \A u \in User : status[u] # "locked" => left[u] = None

AloneInv == OneHolder /\ SeenStill /\ JobStill /\ OnlyLockedEnds

CInv == LInv /\ (~clashed => AloneInv)

\* Of states in which nobody has clashed yet.
RInv == LInv /\ AloneInv

LEMMA RInvStep ==
  ASSUME RInv, [Step /\ Undisturbed /\ OneHolder']_vars, LInv'
  PROVE  RInv'
<1> USE NoneAssumption, LockDaysAssumption DEF RInv, AloneInv, SeenStill, JobStill, OnlyLockedEnds
<1> DEFINE Still == SeenStill' /\ JobStill' /\ OnlyLockedEnds'
<1>1. LInv'
  OBVIOUS
<1>2. OneHolder'
  BY DEF vars, OneHolder, Holds
<1>3. ASSUME UNCHANGED rows, UNCHANGED req, job' \subseteq job \cup Expired
      PROVE  Still
  <2>1. SeenStill' /\ OnlyLockedEnds'
    BY <1>3 DEF rows
  <2>2. JobStill'
    BY <1>3 DEF rows, Expired
  <2>3. QED
    BY <2>1, <2>2
<1>4. \A w \in Worker : req[w].at # "idle" => Holds(w, req[w].user)
  BY DEF Holds
<1>5. ASSUME NEW u \in User, CreateAccount(u)
      PROVE  Still
  <2>1. \A w \in Worker : req[w].at # "idle" => req[w].user # u /\ req[w].user \in User
    BY <1>5 DEF CreateAccount, LInv, ReqInv
  <2>2. u \notin job
    BY <1>5 DEF CreateAccount
  <2>3. QED
    BY <1>5, <2>1, <2>2 DEF CreateAccount, LInv, TypeOK
<1>6. ASSUME NEW u \in User, DeleteAccount(u), Undisturbed
      PROVE  Still
  <2>1. u \notin job /\ \A w \in Worker : ~Holds(w, u)
    BY <1>6 DEF Undisturbed, DeleteAccount, LInv, TypeOK
  <2>2. \A w \in Worker : req[w].at # "idle" => req[w].user # u /\ req[w].user \in User
    BY <2>1 DEF Holds, LInv, ReqInv
  <2>3. QED
    BY <1>6, <2>1, <2>2 DEF DeleteAccount, LInv, TypeOK
<1>7. ASSUME NEW w \in Worker, NEW u \in User, ReadForPunish(w, u) \/ ReadForUnlock(w, u)
      PROVE  Still
  <2>1. PICK kind \in {"punish", "unlock"} : /\ status[u] # "absent"
                                             /\ req' = [req EXCEPT ![w] = Loaded(kind, u)]
    BY <1>7 DEF ReadForPunish, ReadForUnlock
  <2>2. \A v \in Worker : req'[v] = IF v = w THEN Loaded(kind, u) ELSE req[v]
    BY <2>1 DEF LInv, TypeOK
  <2>3. UNCHANGED <<rows, due, job>>
    BY <1>7 DEF ReadForPunish, ReadForUnlock
  <2>4. /\ Loaded(kind, u).user = u /\ Loaded(kind, u).seen = status[u]
        /\ Loaded(kind, u).ended = (left[u] = None)
    BY <2>1, RequestForms DEF LInv
  <2>5. QED
    BY <2>2, <2>3, <2>4 DEF rows
<1>8. ASSUME NEW w \in Worker, SavePunish(w) \/ SaveUnlock(w)
      PROVE  Still
  <2> DEFINE u == req[w].user
  <2>1. /\ req[w].at # "idle" /\ u \in User /\ Holds(w, u) /\ u \notin job
        /\ req[w].at = "unlock" => req[w].seen = "locked"
    BY <1>8, <1>4 DEF SavePunish, SaveUnlock, LInv, ReqInv, OneHolder
  <2>2. \A v \in Worker : v # w /\ req[v].at # "idle" => req[v].user # u
    BY <2>1 DEF OneHolder, Holds
  <2>3. \A v \in Worker : req'[v] = IF v = w THEN Idle ELSE req[v]
    BY <1>8 DEF SavePunish, SaveUnlock, LInv, TypeOK
  <2>4. /\ \A x \in User : x # u => status'[x] = status[x] /\ left'[x] = left[x]
        /\ job' = job
    BY <1>8 DEF SavePunish, SaveUnlock, LInv, TypeOK
  <2>5. SeenStill'
    BY <2>2, <2>3, <2>4 DEF Idle, LInv, ReqInv
  <2>6. JobStill'
    BY <2>1, <2>4 DEF LInv, TypeOK
  <2>7. status'[u] # "locked" => left'[u] = None
    <3>1. CASE SavePunish(w)
      BY <3>1, <2>1 DEF SavePunish, LInv, TypeOK
    <3>2. CASE SaveUnlock(w)
      BY <3>2, <2>1 DEF SaveUnlock, LInv, TypeOK
    <3>3. QED
      BY <1>8, <3>1, <3>2
  <2>8. QED
    BY <2>4, <2>5, <2>6, <2>7
<1>9. ASSUME NEW w \in Worker, Abort(w)
      PROVE  Still
  BY <1>9 DEF Abort, rows, LInv, TypeOK, Idle
<1>10. ASSUME NextDay
       PROVE  Still
  <2>1. \A u \in User : (left'[u] = None <=> left[u] = None) /\ (left[u] = 0 => left'[u] = 0)
    BY <1>10 DEF NextDay, LInv, TypeOK
  <2>2. status' = status /\ req' = req /\ job' = job
    BY <1>10 DEF NextDay
  <2>3. job \subseteq User /\ \A w \in Worker : req[w].at # "idle" => req[w].user \in User
    BY DEF LInv, TypeOK, ReqInv
  <2>4. SeenStill'
    BY <2>1, <2>2, <2>3
  <2>5. JobStill' /\ OnlyLockedEnds'
    BY <2>1, <2>2, <2>3
  <2>6. QED
    BY <2>4, <2>5
<1>11. ASSUME UNCHANGED vars \/ RunMissed \/ LoadExpired \/ SaveExpiredFails \/ JobDies
       PROVE  Still
  BY <1>11, <1>3 DEF vars, rows, RunMissed, LoadExpired, SaveExpiredFails, JobDies
<1>12. ASSUME SaveExpired
       PROVE  Still
  <2>1. \A w \in Worker : req[w].at # "idle" => req[w].user \in User \ job
    BY <1>4 DEF OneHolder, LInv, ReqInv
  <2>2. \A u \in User : u \notin job => status'[u] = status[u] /\ left'[u] = left[u]
    BY <1>12 DEF SaveExpired
  <2>3. \A u \in User : u \in job => left'[u] = None
    BY <1>12 DEF SaveExpired
  <2>4. req' = req /\ job' = {}
    BY <1>12 DEF SaveExpired
  <2>5. SeenStill'
    BY <2>1, <2>2, <2>4
  <2>6. JobStill' /\ OnlyLockedEnds'
    BY <2>2, <2>3, <2>4
  <2>7. QED
    BY <2>5, <2>6
<1>13. QED
  BY <1>1, <1>2, <1>5, <1>6, <1>7, <1>8, <1>9, <1>10, <1>11, <1>12, NextCases

LEMMA CInvInit == Init => CInv
<1> SUFFICES ASSUME Init PROVE CInv
  OBVIOUS
<1>1. \A w \in Worker : req[w].at = "idle"
  BY DEF Init, Idle
<1>2. AloneInv
  BY <1>1 DEF Init, AloneInv, OneHolder, Holds, SeenStill, JobStill, OnlyLockedEnds
<1>3. QED
  BY <1>2, LInvInit DEF CInv

LEMMA CInvStep ==
  ASSUME CInv, [Next]_vars
  PROVE  CInv'
<1>1. LInv'
  BY LInvStep DEF CInv
<1>2. ASSUME ~clashed'
      PROVE  AloneInv'
  <2>1. /\ ~clashed
        /\ Next => Step /\ Undisturbed /\ OneHolder'
    <3>1. CASE UNCHANGED vars /\ ~Next
      BY <1>2, <3>1 DEF vars
    <3>2. CASE Next
      <4>1. Step /\ clashed' = (clashed \/ ~(Undisturbed /\ OneHolder'))
        BY <3>2 DEF Next
      <4>2. QED
        BY <1>2, <4>1, Zenon
    <3>3. QED
      BY <3>1, <3>2
  <2>2. [Step /\ Undisturbed /\ OneHolder']_vars
    BY <2>1
  <2>3. RInv
    BY <2>1 DEF CInv, RInv
  <2>4. RInv'
    BY <1>1, <2>2, <2>3, RInvStep
  <2>5. QED
    BY <2>4 DEF RInv
<1>3. QED
  BY <1>1, <1>2 DEF CInv

LEMMA CInvariance == Spec => []CInv
BY CInvInit, CInvStep, PTL DEF Spec

\* A locked account always has an end of its lock, whatever the handlers overwrite of
\* each other's columns; and unless two had the same account at hand, an active one
\* never has one left over.
THEOREM LocksMatchEnds == Spec => []LockMatchesEnd
<1>1. CInv => LockMatchesEnd
  BY DEF CInv, LInv, AloneInv, OnlyLockedEnds, LockMatchesEnd
<1>2. QED
  BY <1>1, CInvariance, PTL

\* Unless two had the same account at hand, whoever is punished is locked, for the
\* whole time.
THEOREM AlonePunishes == Spec => AlonePunishmentLocks
<1>1. ASSUME CInv, NEW w \in Worker, SavePunish(w), ~clashed
      PROVE  Punished(w)
  BY <1>1 DEF CInv, AloneInv, SeenStill, LInv, TypeOK, ReqInv, SavePunish, Punished
<1>2. CInv => [\A w \in Worker : SavePunish(w) /\ ~clashed => Punished(w)]_vars
  BY <1>1
<1>3. QED
  BY <1>2, CInvariance, PTL DEF AlonePunishmentLocks

\* Unless two had the same account at hand, the daily job unlocks only accounts whose
\* lock has ended.
THEOREM AloneJob == Spec => JobUnlocksExpired
<1>1. CInv => [SaveExpired /\ ~clashed => \A u \in job : status[u] = "locked" => left[u] = 0]_vars
  BY DEF CInv, AloneInv, JobStill
<1>2. QED
  BY <1>1, CInvariance, PTL DEF JobUnlocksExpired

\* Unless two had the same account at hand, a lock ends when its time has passed or by
\* the hand of a welfare member who saw this lock.
THEOREM AloneKeeps == Spec => LockKept
<1> DEFINE Kept(u) == status[u] = "locked" /\ status'[u] = "active" =>
                        left[u] = 0 \/ \E w \in Worker : Holds(w, u) /\ req[w].at = "unlock"
<1>1. ASSUME RInv, Step, NEW u \in User
      PROVE  Kept(u)
  <2> USE <1>1
  <2>1. CASE UNCHANGED rows
    BY <2>1 DEF rows
  <2>2. ASSUME NEW x \in User, CreateAccount(x) \/ DeleteAccount(x)
        PROVE  Kept(u)
    BY <2>2 DEF CreateAccount, DeleteAccount, RInv, LInv, TypeOK
  <2>3. ASSUME NEW w \in Worker, SavePunish(w)
        PROVE  Kept(u)
    BY <2>3 DEF SavePunish, RInv, LInv, TypeOK
  <2>4. ASSUME NEW w \in Worker, SaveUnlock(w)
        PROVE  Kept(u)
    BY <2>4 DEF SaveUnlock, RInv, LInv, TypeOK, Holds
  <2>5. CASE SaveExpired
    BY <2>5 DEF SaveExpired, RInv, AloneInv, JobStill
  <2>6. CASE NextDay
    BY <2>6 DEF NextDay
  <2>7. ASSUME NEW w \in Worker,
               \/ \E x \in User : ReadForPunish(w, x) \/ ReadForUnlock(w, x)
               \/ Abort(w)
        PROVE  UNCHANGED rows
    BY <2>7 DEF ReadForPunish, ReadForUnlock, Abort
  <2>8. CASE RunMissed \/ LoadExpired \/ SaveExpiredFails \/ JobDies
    BY <2>1, <2>8 DEF RunMissed, LoadExpired, SaveExpiredFails, JobDies
  <2>9. QED
    BY <2>1, <2>2, <2>3, <2>4, <2>5, <2>6, <2>7, <2>8, NextCases
<1>2. CInv /\ [Next]_vars
      => [\A u \in User :
            status[u] = "locked" /\ status'[u] = "active" /\ ~clashed =>
              \/ left[u] = 0
              \/ \E w \in Worker : Holds(w, u) /\ req[w].at = "unlock"]_vars
  BY <1>1 DEF CInv, RInv, Next
<1>3. QED
  BY <1>2, CInvariance, PTL DEF Spec, LockKept
=============================================================================
