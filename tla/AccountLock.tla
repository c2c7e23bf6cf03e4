---------------------------- MODULE AccountLock ----------------------------
(***************************************************************************)
(* The account service's lock on registrations: a no-show is punished by   *)
(* locking the account for LockDays days (punish_user), a welfare member   *)
(* may unlock it early (unlock_user), and a daily job unlocks the accounts *)
(* whose time has passed (auto_unlock_users).                              *)
(*                                                                         *)
(* Each handler loads the row, changes the loaded object and commits.  The *)
(* UPDATE writes the columns whose value differs from the loaded one, and  *)
(* nothing locks the row in between.                                       *)
(***************************************************************************)
EXTENDS Integers, FiniteSets

CONSTANTS
  User,      \* employees; the user id is the employee id
  Worker,    \* slots for requests in progress
  LockDays,  \* length of a punishment: 30
  None       \* SQL NULL, Python None

ASSUME LockDaysAssumption == LockDays \in Nat \ {0}
ASSUME NoneAssumption == None \notin User \cup Nat

VARIABLES
  status,  \* per user: "absent", or the column registration_status
  left,    \* column unlock_at, as the days until then; 0: it has passed
  req,     \* per worker: the request, its user and the status it loaded
  due,     \* tonight's run of the scheduler is still to come
  job,     \* the accounts the running job has loaded
  clashed  \* history: two requests, or a request and the job, had the same account at hand

vars == <<status, left, req, due, job, clashed>>
rows == <<status, left>>

Request == [at    : {"idle", "punish", "unlock"},
            user  : User \cup {None},
            seen  : {"active", "locked", None},  \* registration_status when loaded
            ended : BOOLEAN]                     \* unlock_at was NULL when loaded

Idle == [at |-> "idle", user |-> None, seen |-> None, ended |-> FALSE]

Loaded(kind, u) == [at |-> kind, user |-> u, seen |-> status[u], ended |-> left[u] = None]

Init ==
  /\ status = [u \in User |-> "absent"]
  /\ left = [u \in User |-> None]
  /\ req = [w \in Worker |-> Idle]
  /\ due = FALSE
  /\ job = {}
  /\ clashed = FALSE

----------------------------------------------------------------------------
(* Accounts come and go.                                                    *)

\* The first login of an employee, or create_user.
CreateAccount(u) ==
  /\ status[u] = "absent"
  /\ status' = [status EXCEPT ![u] = "active"]
  /\ UNCHANGED <<left, req, due, job>>

\* delete_user
DeleteAccount(u) ==
  /\ status[u] # "absent"
  /\ status' = [status EXCEPT ![u] = "absent"]
  /\ left' = [left EXCEPT ![u] = None]
  /\ UNCHANGED <<req, due, job>>

----------------------------------------------------------------------------
(* punish_user and unlock_user                                              *)

ReadForPunish(w, u) ==
  /\ req[w].at = "idle"
  /\ status[u] # "absent"
  /\ req' = [req EXCEPT ![w] = Loaded("punish", u)]
  /\ UNCHANGED <<rows, due, job>>

SavePunish_StatusOnly(w) ==
  LET u == req[w].user
  IN  /\ req[w].at = "punish"
      /\ status[u] # "absent"
      /\ status' = [status EXCEPT ![u] = "locked"]
      /\ req' = [req EXCEPT ![w] = Idle]
      /\ UNCHANGED <<left, due, job>>

\* The new unlock_at differs from any other; the status is written only if the
\* account was not locked when it was loaded.
SavePunish(w) ==
  LET u == req[w].user
  IN  /\ req[w].at = "punish"
      /\ status[u] # "absent"
      /\ status' = [status EXCEPT ![u] = IF req[w].seen = "locked" THEN @ ELSE "locked"]
      /\ left' = [left EXCEPT ![u] = LockDays]
      /\ req' = [req EXCEPT ![w] = Idle]
      /\ UNCHANGED <<due, job>>

\* 409 USER_NOT_LOCKED unless the account is locked.
ReadForUnlock(w, u) ==
  /\ req[w].at = "idle"
  /\ status[u] = "locked"
  /\ req' = [req EXCEPT ![w] = Loaded("unlock", u)]
  /\ UNCHANGED <<rows, due, job>>

SaveUnlock(w) ==
  LET u == req[w].user
  IN  /\ req[w].at = "unlock"
      /\ status[u] # "absent"
      /\ status' = [status EXCEPT ![u] = "active"]
      /\ left' = [left EXCEPT ![u] = IF req[w].ended THEN @ ELSE None]
      /\ req' = [req EXCEPT ![w] = Idle]
      /\ UNCHANGED <<due, job>>

\* The row is gone (StaleDataError), or the request dies.
Abort(w) ==
  /\ req[w].at # "idle"
  /\ req' = [req EXCEPT ![w] = Idle]
  /\ UNCHANGED <<rows, due, job>>

----------------------------------------------------------------------------
(* Days, and the scheduler: cron at 1:00, one run at a time, in memory.     *)

NextDay_PastZero ==
  /\ ~due
  /\ left' = [u \in User |-> IF left[u] = None THEN None ELSE left[u] - 1]
  /\ due' = TRUE
  /\ UNCHANGED <<status, req, job>>

NextDay ==
  /\ ~due
  /\ left' = [u \in User |-> IF left[u] \in {None, 0} THEN left[u] ELSE left[u] - 1]
  /\ due' = TRUE
  /\ UNCHANGED <<status, req, job>>

\* The service is down at 1:00: nothing runs, and nothing catches up.
RunMissed ==
  /\ due
  /\ due' = FALSE
  /\ UNCHANGED <<rows, req, job>>

Expired_AnyLocked == {u \in User : status[u] = "locked"}

Expired == {u \in User : status[u] = "locked" /\ left[u] = 0}

\* auto_unlock_users: the SELECT ...
LoadExpired ==
  /\ due
  /\ job = {}
  /\ job' = Expired
  /\ due' = FALSE
  /\ UNCHANGED <<rows, req>>

SaveExpired_KeepEnd ==
  /\ job # {}
  /\ \A u \in job : status[u] # "absent"
  /\ status' = [u \in User |-> IF u \in job THEN "active" ELSE status[u]]
  /\ job' = {}
  /\ UNCHANGED <<left, req, due>>

SaveExpired_NoCommit == job # {} /\ job' = {} /\ UNCHANGED <<rows, req, due>>

\* ... and the UPDATEs of all the rows it found, in one commit.
SaveExpired ==
  /\ job # {}
  /\ \A u \in job : status[u] # "absent"
  /\ status' = [u \in User |-> IF u \in job THEN "active" ELSE status[u]]
  /\ left'   = [u \in User |-> IF u \in job THEN None ELSE left[u]]
  /\ job' = {}
  /\ UNCHANGED <<req, due>>

\* One of the rows is gone: StaleDataError, and no account is unlocked tonight.
SaveExpiredFails ==
  /\ \E u \in job : status[u] = "absent"
  /\ job' = {}
  /\ UNCHANGED <<rows, req, due>>

\* The process dies while the job runs.
JobDies ==
  /\ job # {}
  /\ job' = {}
  /\ UNCHANGED <<rows, req, due>>

----------------------------------------------------------------------------
Handle(w) == \/ \E u \in User : ReadForPunish(w, u) \/ ReadForUnlock(w, u)
             \/ SavePunish(w) \/ SaveUnlock(w) \/ Abort(w)

Scheduler == RunMissed \/ LoadExpired \/ SaveExpired \/ SaveExpiredFails \/ JobDies

Step == \/ \E u \in User : CreateAccount(u) \/ DeleteAccount(u)
        \/ \E w \in Worker : Handle(w)
        \/ NextDay \/ Scheduler

Holds(w, u) == req[w].at # "idle" /\ req[w].user = u

\* Everybody works on an account of their own, and none is deleted under their hands:
\* so it would be if each row were locked from its SELECT to the COMMIT.
OneHolder ==
  /\ \A v, w \in Worker, u \in User : Holds(v, u) /\ Holds(w, u) => v = w
  /\ \A w \in Worker, u \in job : ~Holds(w, u)

Undisturbed ==
  \A u \in User : status[u] # "absent" /\ status'[u] = "absent"
                    => u \notin job /\ \A w \in Worker : ~Holds(w, u)

Next == Step /\ clashed' = (clashed \/ ~(Undisturbed /\ OneHolder'))

Spec == Init /\ [][Next]_vars

(* Days go by, the service is not down every night, and a started job ends, *)
(* not always in a crash.                                                   *)
Fairness == /\ WF_vars(NextDay /\ Next)
            /\ SF_vars(LoadExpired /\ Next) /\ SF_vars(SaveExpired /\ Next)
            /\ WF_vars(SaveExpiredFails /\ Next)

FairSpec == Spec /\ Fairness

\* Nobody deletes an account.
KeptSpec == Init /\ [][Next /\ ~\E u \in User : DeleteAccount(u)]_vars

----------------------------------------------------------------------------
(* Properties *)

\* Columns, locals and the job stay in their domains.
TypeOK ==
  /\ status \in [User -> {"absent", "active", "locked"}]
  /\ left \in [User -> (0..LockDays) \cup {None}]
  /\ req \in [Worker -> Request]
  /\ due \in BOOLEAN
  /\ clashed \in BOOLEAN
  /\ job \subseteq User

LockedHasEnd == \A u \in User : status[u] = "locked" => left[u] # None

\* A locked account has an end of its lock, for the daily job to find, whatever
\* punishments, unlocks and jobs overwrite of each other's columns; and unless two had
\* the same account at hand, an active account has none left over.
LockMatchesEnd ==
  /\ LockedHasEnd
  /\ ~clashed => \A u \in User : status[u] = "active" => left[u] = None

Punished(w) == status'[req[w].user] = "locked" /\ left'[req[w].user] = LockDays

\* Whoever is punished is locked, for the whole time, from that moment on.
PunishmentLocks == [][\A w \in Worker : SavePunish(w) => Punished(w)]_vars

\* The same, unless two had the same account at hand.
AlonePunishmentLocks == [][\A w \in Worker : SavePunish(w) /\ ~clashed => Punished(w)]_vars

\* Unless two had the same account at hand, the daily job unlocks only accounts
\* whose lock has ended.
JobUnlocksExpired ==
  [][SaveExpired /\ ~clashed => \A u \in job : status[u] = "locked" => left[u] = 0]_vars

\* Unless two had the same account at hand, a lock ends when its time has passed, or
\* by the hand of a welfare member who saw this very lock.
LockKept ==
  [][\A u \in User :
       status[u] = "locked" /\ status'[u] = "active" /\ ~clashed =>
         \/ left[u] = 0
         \/ \E w \in Worker : Holds(w, u) /\ req[w].at = "unlock"]_vars

\* Once nobody is punished any more, every lock ends.
LockEnds ==
  (<>[][\A w \in Worker : ~SavePunish(w)]_vars) => \A u \in User : []<>(status[u] # "locked")
=============================================================================
