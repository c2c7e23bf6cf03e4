------------------------------ MODULE Accounts ------------------------------
(***************************************************************************)
(* Accounts, roles and tokens.  The account service makes an account at    *)
(* the first login of an employee or on behalf of a welfare member, who    *)
(* may also change the roles of others and delete accounts.  It goes by    *)
(* the role in its table; the other services go by the role in the token,  *)
(* which the account service signed at login and nobody can take back.     *)
(*                                                                         *)
(* Each request of a welfare member is checked against the table first and *)
(* writes in a later statement; nothing locks the rows in between.         *)
(***************************************************************************)
EXTENDS Integers, FiniteSets

CONSTANTS
  Employee,   \* usernames: the ids in the employee database
  MadeId,     \* uuids of accounts made by create_user
  Role,       \* of an account
  Staff,      \* the role welfare_member
  Plain,      \* the role employee
  TokenLife,  \* jwt_expire_minutes
  Client,     \* slots for tokens handed out
  Office,     \* slots for requests of welfare members
  Nobody      \* no account, no token, SQL NULL

ASSUME RoleAssumption == {Staff, Plain} \subseteq Role /\ Staff # Plain
ASSUME TokenAssumption == TokenLife \in Nat
ASSUME IdAssumption == Employee \cap MadeId = {}

VARIABLES
  account,  \* per username: the row, [id, role], or Nobody
  minted,   \* uuids in use or used before
  token,    \* per client: [id, role, left, since] or Nobody; left = -1: expired
  office,   \* per slot: a request of a welfare member and what it has loaded
  raced     \* history: two such requests overlapped, or a member deleted himself

accountVars == <<account, minted, token, office, raced>>

Id      == Employee \cup MadeId
Account == [id : Id, role : Role]

\* since: the time since its holder had that role; the last value stands for any longer.
Token   == [id : Id, role : Role, left : -1..TokenLife, since : 0..(TokenLife + 1)]
Errand  == [by : Id, op : Role \cup {"delete"}, id : Id, seen : Role]

ASSUME NobodyAssumption == Nobody \notin Id \cup Role \cup Account \cup Token \cup Errand

With(i)      == {e \in Employee : account[e] # Nobody /\ account[e].id = i}
Has(i, role) == \E e \in With(i) : account[e].role = role
Members      == {e \in Employee : account[e] # Nobody /\ account[e].role = Staff}

\* The seeds hold a welfare member.
AccountsInit ==
  /\ \E e \in Employee : account = [f \in Employee |->
       IF f = e THEN [id |-> e, role |-> Staff] ELSE Nobody]
  /\ minted = {}
  /\ token = [c \in Client |-> Nobody]
  /\ office = [o \in Office |-> Nobody]
  /\ raced = FALSE

----------------------------------------------------------------------------
(* login                                                                    *)

\* The first login: the row gets the employee id.
FirstLogin(e) ==
  /\ account[e] = Nobody
  /\ account' = [account EXCEPT ![e] = [id |-> e, role |-> Plain]]
  /\ UNCHANGED <<minted, token, office>>

Signed(i, role) == [id |-> i, role |-> role, left |-> TokenLife,
                    since |-> IF Has(i, role) THEN 0 ELSE TokenLife + 1]

SignToken_AsAsked(c, e) ==
  /\ account[e] # Nobody
  /\ \E role \in Role : token' = [token EXCEPT ![c] = Signed(account[e].id, role)]
  /\ UNCHANGED <<account, minted, office>>

\* The role of the row, and only if no other role was asked for.
SignToken(c, e) ==
  /\ account[e] # Nobody
  /\ token' = [token EXCEPT ![c] = Signed(account[e].id, account[e].role)]
  /\ UNCHANGED <<account, minted, office>>

----------------------------------------------------------------------------
(* Requests of welfare members                                              *)

\* create_user: under a fresh uuid, unless the username is taken.
CreateUser(i, e, role) ==
  /\ Members # {}
  /\ account[e] = Nobody
  /\ i \notin minted
  /\ account' = [account EXCEPT ![e] = [id |-> i, role |-> role]]
  /\ minted' = minted \cup {i}
  /\ UNCHANGED <<token, office>>

ReadForRole_Own(o, by, i, role) ==
  /\ office[o] = Nobody
  /\ Has(by, Staff)
  /\ \E e \in With(i) : office' = [office EXCEPT ![o] =
       [by |-> by, op |-> role, id |-> i, seen |-> account[e].role]]
  /\ UNCHANGED <<account, minted, token>>

\* update_user_role: the member's row, then the other row; one's own role is refused.
ReadForRole(o, by, i, role) ==
  /\ office[o] = Nobody
  /\ Has(by, Staff)
  /\ i # by
  /\ \E e \in With(i) : office' = [office EXCEPT ![o] =
       [by |-> by, op |-> role, id |-> i, seen |-> account[e].role]]
  /\ UNCHANGED <<account, minted, token>>

\* The UPDATE leaves a role alone that is the one loaded.
SaveRole(o) ==
  /\ office[o] # Nobody
  /\ office[o].op \in Role
  /\ \E e \in With(office[o].id) :
       account' = [account EXCEPT ![e].role =
                     IF office[o].op = office[o].seen THEN @ ELSE office[o].op]
  /\ office' = [office EXCEPT ![o] = Nobody]
  /\ UNCHANGED <<minted, token>>

\* delete_user: anybody's account, one's own included.
ReadForDelete(o, by, i) ==
  /\ office[o] = Nobody
  /\ Has(by, Staff)
  /\ \E e \in With(i) : office' = [office EXCEPT ![o] =
       [by |-> by, op |-> "delete", id |-> i, seen |-> account[e].role]]
  /\ UNCHANGED <<account, minted, token>>

DeleteRow(o) ==
  /\ office[o] # Nobody
  /\ office[o].op = "delete"
  /\ account' = [e \in Employee |-> IF e \in With(office[o].id) THEN Nobody ELSE account[e]]
  /\ office' = [office EXCEPT ![o] = Nobody]
  /\ UNCHANGED <<minted, token>>

\* The row is gone (StaleDataError), or the request dies.
ErrandFails(o) ==
  /\ office[o] # Nobody
  /\ office' = [office EXCEPT ![o] = Nobody]
  /\ UNCHANGED <<account, minted, token>>

----------------------------------------------------------------------------
(* Tokens in the other services                                             *)

Accepted_Undated(t) == t # Nobody

\* decode_access_token: until it expires, whatever has become of the account.
Accepted(t) == t # Nobody /\ t.left >= 0

\* role_required of the event, transaction and ticket services.
Admits(t, roles) == Accepted(t) /\ t.role \in roles

Counted(t) ==
  IF t = Nobody THEN t
  ELSE [t EXCEPT !.left = IF @ < 0 THEN @ ELSE @ - 1,
                 !.since = IF Has(t.id, t.role) THEN 0 ELSE IF @ > TokenLife THEN @ ELSE @ + 1]

TickTokens ==
  /\ token' = [c \in Client |-> Counted(token[c])]
  /\ UNCHANGED <<account, minted, office>>

----------------------------------------------------------------------------
AccountsStep ==
  \/ \E e \in Employee : \/ FirstLogin(e)
                         \/ \E c \in Client : SignToken(c, e)
                         \/ \E i \in MadeId, role \in Role : CreateUser(i, e, role)
  \/ \E o \in Office : \/ \E by, i \in Id : \/ \E role \in Role : ReadForRole(o, by, i, role)
                                            \/ ReadForDelete(o, by, i)
                       \/ SaveRole(o) \/ DeleteRow(o) \/ ErrandFails(o)
  \/ TickTokens

Busy == {o \in Office : office[o] # Nobody}

OneErrand  == \A o, q \in Busy : o = q
SelfDelete == \E o \in Busy : office[o].op = "delete" /\ office[o].id = office[o].by

AccountsNext == AccountsStep /\ raced' = (raced \/ ~OneErrand' \/ SelfDelete')

AccountsSpec == AccountsInit /\ [][AccountsNext]_accountVars

----------------------------------------------------------------------------
(* Properties *)

\* Whoever the other services admit in a role had it within the life of a token:
\* a demotion or a deletion is not seen there sooner, but never later.
TokenStandsForRole ==
  \A c \in Client, role \in Role : Admits(token[c], {role}) => token[c].since <= TokenLife

\* There is always a welfare member left to make others, unless two of their requests
\* overlapped or one of them deleted his own account.
StaffRemains == raced \/ Members # {}
=============================================================================
