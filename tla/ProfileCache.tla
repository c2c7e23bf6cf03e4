---------------------------- MODULE ProfileCache ----------------------------
(***************************************************************************)
(* The profiles of the account service as the transaction service keeps    *)
(* them: AccountClient with its TTLCache.  A request takes the profile     *)
(* from the cache or calls the account service and stores the answer; a    *)
(* punishment or an autofill update writes the row first and empties the   *)
(* cache when the call has succeeded.  Welfare members and users change    *)
(* rows without the transaction service, which is not told.                *)
(*                                                                         *)
(* Time is relative: an entry counts down, a replaced profile grows old.   *)
(***************************************************************************)
EXTENDS Integers, FiniteSets

CONSTANTS
  Person,    \* employees
  Category,  \* categories of events; one of them stands for none
  Profile,   \* versions of a person's row and preferences
  Ttl,       \* life of an entry: 15 s
  CallTime,  \* longest time from the answer of the account service to its use
  MaxSize,   \* entries of the cache: 1000
  Reader,    \* requests that need a profile
  Writer     \* requests that change one

ASSUME CacheAssumption ==
  Ttl \in Nat /\ CallTime \in Nat /\ MaxSize \in Nat \ {0}
ASSUME PersonAssumption == Person # {} /\ Category # {} /\ Profile # {}

VARIABLES
  truth,   \* per person: the row in the account service
  age,     \* history: per person and version, the time since the row was that; capped
  cache,   \* from some keys to [profile, left]; left = -1: expired, not yet removed
  ask,     \* per reader: the request and the answer it has
  change,  \* per writer: the person whose row its call changes
  excused  \* history: persons with a change the cache had no chance to see

profileVars == <<truth, age, cache, ask, change, excused>>

Key     == Person \X Category
Ages    == 0..(Ttl + CallTime + 1)  \* the last stands for any longer time
Entry   == [profile : Profile, left : -1..Ttl]
Ask     == [at : {"idle", "asked", "answered", "done"}, key : Key, profile : Profile,
            spent : 0..CallTime]
Change  == [at : {"idle", "called", "written"}, person : Person]

NoAsk    == CHOOSE a \in Ask : a.at = "idle" /\ a.spent = 0
NoChange == CHOOSE c \in Change : c.at = "idle"

Stored == DOMAIN cache
Alive(k) == k \in Stored /\ cache[k].left >= 0

ProfileInit ==
  /\ truth \in [Person -> Profile]
  /\ age = [p \in Person |-> [v \in Profile |-> IF v = truth[p] THEN 0 ELSE Ttl + CallTime + 1]]
  /\ cache = [k \in {} |-> 0]
  /\ ask = [r \in Reader |-> NoAsk]
  /\ change = [w \in Writer |-> NoChange]
  /\ excused = {}

----------------------------------------------------------------------------
(* TTLCache                                                                 *)

Without(keys) == [k \in Stored \ keys |-> cache[k]]

\* The entries a set drops when the cache is full: the expired ones or else one
\* that expires first, be the key itself stored or not.
Pruned ==
  LET expired == {k \in Stored : cache[k].left < 0}
  IN  IF Cardinality(Stored) < MaxSize THEN {{}}
      ELSE IF expired # {} THEN {expired}
      ELSE {{k} : k \in {o \in Stored : \A l \in Stored : cache[o].left <= cache[l].left}}

Set(k, v) == \E gone \in Pruned :
  LET kept == (Stored \ gone) \cup {k}
  IN  cache' = [l \in kept |-> IF l = k THEN [profile |-> v, left |-> Ttl] ELSE cache[l]]

Clear == cache' = [k \in {} |-> 0]

----------------------------------------------------------------------------
(* get_registration_profile                                                 *)

Hit_Expired(r, k) ==
  /\ ask[r].at = "idle"
  /\ k \in Stored
  /\ ask' = [ask EXCEPT ![r].at = "done", ![r].key = k, ![r].profile = cache[k].profile]
  /\ UNCHANGED <<truth, age, cache, change, excused>>

Hit(r, k) ==
  /\ ask[r].at = "idle"
  /\ Alive(k)
  /\ ask' = [ask EXCEPT ![r].at = "done", ![r].key = k, ![r].profile = cache[k].profile]
  /\ UNCHANGED <<truth, age, cache, change, excused>>

\* An expired entry is removed.
Miss(r, k) ==
  /\ ask[r].at = "idle"
  /\ ~Alive(k)
  /\ cache' = Without({k})
  /\ ask' = [ask EXCEPT ![r].at = "asked", ![r].key = k]
  /\ UNCHANGED <<truth, age, change, excused>>

\* The account service reads the row.
AnswerProfile(r) ==
  /\ ask[r].at = "asked"
  /\ ask' = [ask EXCEPT ![r].at = "answered", ![r].profile = truth[ask[r].key[1]]]
  /\ UNCHANGED <<truth, age, cache, change, excused>>

StoreProfile(r) ==
  /\ ask[r].at = "answered"
  /\ Set(ask[r].key, ask[r].profile)
  /\ ask' = [ask EXCEPT ![r].at = "done", ![r].spent = 0]
  /\ UNCHANGED <<truth, age, change, excused>>

\* The request goes on with the profile, or its call has failed.
EndAsk(r) ==
  /\ ask[r].at # "idle"
  /\ ask' = [ask EXCEPT ![r] = NoAsk]
  /\ UNCHANGED <<truth, age, cache, change, excused>>

----------------------------------------------------------------------------
(* Changes of the rows                                                      *)

WriteRow(p, v) ==
  /\ v # truth[p]
  /\ truth' = [truth EXCEPT ![p] = v]
  /\ age' = [age EXCEPT ![p][v] = 0]

\* Some request holds an older profile of p that it will store.
Underway(p) == \E r \in Reader : ask[r].at = "answered" /\ ask[r].key[1] = p

\* unlock_user, update_user, update_user_role, auto_unlock_users, another process.
ChangeElsewhere(p, v) ==
  /\ WriteRow(p, v)
  /\ excused' = excused \cup {p}
  /\ UNCHANGED <<cache, ask, change>>

\* punish_user and update_autofill: the call, ...
BeginChange(w, p) ==
  /\ change[w].at = "idle"
  /\ change' = [change EXCEPT ![w] = [at |-> "called", person |-> p]]
  /\ UNCHANGED <<truth, age, cache, ask, excused>>

\* ... its commit in the account service, ...
CommitChange(w, v) ==
  LET p == change[w].person
  IN  /\ change[w].at = "called"
      /\ WriteRow(p, v)
      /\ change' = [change EXCEPT ![w].at = "written"]
      /\ excused' = IF Underway(p) THEN excused \cup {p} ELSE excused
      /\ UNCHANGED <<cache, ask>>

ChangeSeen_OneKey(w) ==
  /\ change[w].at = "written"
  /\ \E c \in Category : cache' = Without({<<change[w].person, c>>})
  /\ change' = [change EXCEPT ![w] = NoChange]
  /\ UNCHANGED <<truth, age, ask, excused>>

\* ... its answer: the whole cache is emptied, ...
ChangeSeen(w) ==
  /\ change[w].at = "written"
  /\ Clear
  /\ change' = [change EXCEPT ![w] = NoChange]
  /\ UNCHANGED <<truth, age, ask, excused>>

\* ... or an error: nothing is, whether or not the row was changed.
ChangeFails(w) ==
  /\ change[w].at # "idle"
  /\ change' = [change EXCEPT ![w] = NoChange]
  /\ excused' = IF change[w].at = "written" THEN excused \cup {change[w].person} ELSE excused
  /\ UNCHANGED <<truth, age, cache, ask>>

----------------------------------------------------------------------------
Older(n) == IF n <= Ttl + CallTime THEN n + 1 ELSE n

\* Time passes; no call lasts longer than CallTime.
TickProfiles ==
  /\ \A r \in Reader : ask[r].at = "answered" => ask[r].spent < CallTime
  /\ age' = [p \in Person |-> [v \in Profile |->
               IF v = truth[p] THEN 0 ELSE Older(age[p][v])]]
  /\ cache' = [k \in Stored |-> [cache[k] EXCEPT !.left = IF @ < 0 THEN @ ELSE @ - 1]]
  /\ ask' = [r \in Reader |-> IF ask[r].at = "answered" THEN [ask[r] EXCEPT !.spent = @ + 1]
                              ELSE ask[r]]
  /\ UNCHANGED <<truth, change, excused>>

\* The cache is in memory; the requests die with the process.
RestartTransactionService ==
  /\ Clear
  /\ ask' = [r \in Reader |-> NoAsk]
  /\ change' = [w \in Writer |-> NoChange]
  /\ UNCHANGED <<truth, age, excused>>

ProfileNext ==
  \/ \E r \in Reader : \/ \E k \in Key : Hit(r, k) \/ Miss(r, k)
                       \/ AnswerProfile(r) \/ StoreProfile(r) \/ EndAsk(r)
  \/ \E p \in Person, v \in Profile : ChangeElsewhere(p, v)
  \/ \E w \in Writer : \/ \E p \in Person : BeginChange(w, p)
                       \/ \E v \in Profile : CommitChange(w, v)
                       \/ ChangeSeen(w) \/ ChangeFails(w)
  \/ TickProfiles
  \/ RestartTransactionService

ProfileSpec == ProfileInit /\ [][ProfileNext]_profileVars

----------------------------------------------------------------------------
(* Properties *)

\* A request goes by a profile that was in the account service at most a life of
\* an entry and a call ago, whatever changes the cache never heard of.
ProfileIsRecent ==
  [][\A r \in Reader :
       ask'[r].at = "done" /\ ask[r].at # "done"
         => age[ask'[r].key[1]][ask'[r].profile] <= Ttl + CallTime]_profileVars

ChangePending(p) == \E w \in Writer : change[w].at = "written" /\ change[w].person = p

\* Once punish_user or update_autofill has returned, no key of that person gives the
\* profile from before: only a change made elsewhere, a call that failed after its
\* commit, or an answer that was on its way at the commit leaves one in the cache.
StaleHasReason ==
  \A k \in Key : Alive(k) /\ k[1] \notin excused /\ ~ChangePending(k[1])
                 => cache[k].profile = truth[k[1]]
=============================================================================
