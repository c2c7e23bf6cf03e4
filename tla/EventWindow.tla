---------------------------- MODULE EventWindow ----------------------------
(***************************************************************************)
(* When an event takes registrations: its row in the event service, which  *)
(* welfare members change (update_event, batch_update) and a nightly job   *)
(* keeps up with the clock (update_statuses), and the copy of the row by   *)
(* which the transaction service admits registrations, from a cache.       *)
(*                                                                         *)
(* A handler loads the row, decides, and writes the columns whose value    *)
(* differs from the loaded one; nothing locks the row in between.          *)
(***************************************************************************)
EXTENDS Integers, FiniteSets

CONSTANTS
  Worker,    \* slots for requests of welfare members
  Job,       \* slots for runs of the nightly job
  Client,    \* slots for registrations
  Dates,     \* registration_start, registration_end, event_end_time: [start, end, over]
  Limits,    \* values of ticket_limit
  Patches,   \* bodies of PATCH requests: columns and their new values
  TTL,       \* how long the cache keeps an event: 30 s
  HttpTime,  \* from the reading of a row to the answer, at most: 5 s
  MaxNow,    \* bound on the clock
  MaxBooked, \* bound on the registrations that are counted
  None       \* SQL NULL

ASSUME TimeAssumption == TTL \in Nat /\ HttpTime \in Nat
ASSUME BoundAssumption == MaxNow \in Nat /\ MaxBooked \in Nat
ASSUME LimitAssumption == Limits \subseteq Int \cup {None}

VARIABLES
  now,      \* the clock
  row,      \* the event's columns status, is_draft, dates, ticket_limit, remaining_tickets
  req,      \* per worker and job: stage, and the columns it is about to write
  cache,    \* EventClient's entry for the event: [info, until], or None
  ask,      \* per client: stage, when it began, the answer, and when the row was read
  booked,   \* confirmed registrations
  said      \* history: per offer, the last time at which the row made it

vars == <<now, row, req, cache, ask, booked, said>>

NotOpen     == 0
Registering == 1
Waitlist    == 2
Closed      == 3
Ended       == 4

Row == [status : NotOpen..Ended, draft : BOOLEAN, dates : Dates, limit : Limits, left : Int]

\* Values for some columns, each of its column's type.
Columns  == {"status", "draft", "dates", "limit", "left"}
Typed(w) == /\ DOMAIN w \subseteq Columns
            /\ "status" \in DOMAIN w => w.status \in NotOpen..Ended
            /\ "draft" \in DOMAIN w => w.draft \in BOOLEAN
            /\ "dates" \in DOMAIN w => w.dates \in Dates
            /\ "limit" \in DOMAIN w => w.limit \in Limits
            /\ "left" \in DOMAIN w => w.left \in Int

ASSUME PatchAssumption == \A p \in Patches : Typed(p)

EventInfo == [open : BOOLEAN, dates : Dates, limit : Limits]
Offer     == {i \in EventInfo : i.open}

NoWrite == [c \in {} |-> None]
Idle    == [at |-> "idle", write |-> NoWrite]
NoAsk   == [at |-> "idle", since |-> 0, info |-> None, asof |-> 0]

\* The row takes registrations, as far as status and draft go.
Open(r) == ~r.draft /\ r.status \in {Registering, Waitlist}

\* What the transaction service's decisions need of an answer.
Info(r) == [open |-> Open(r), dates |-> r.dates, limit |-> r.limit]

Init ==
  /\ now = 0
  /\ \E s \in NotOpen..Ended, d \in BOOLEAN, t \in Dates, l \in Limits :
       row = [status |-> s, draft |-> d, dates |-> t, limit |-> l, left |-> IF l = None THEN 0 ELSE l]
  /\ req = [w \in Worker \cup Job |-> Idle]
  /\ cache = None
  /\ ask = [c \in Client |-> NoAsk]
  /\ booked = 0
  /\ said = [i \in Offer |-> IF i = Info(row) THEN 0 ELSE -1 - TTL - HttpTime]

----------------------------------------------------------------------------
(* update_event, batch_update and update_statuses                           *)

\* The columns of a new value that differ from the loaded ones are written.
Changed(new) == LET diff == {c \in DOMAIN new : new[c] # row[c]} IN [c \in diff |-> new[c]]

Applied(write) == [c \in DOMAIN row |-> IF c \in DOMAIN write THEN write[c] ELSE row[c]]

\* A new limit keeps what limit and remaining tickets say has been sold.
NewLeft(limit) == IF row.limit = None THEN limit ELSE limit - (row.limit - row.left)

WithLeft(patch) ==
  [c \in DOMAIN patch \cup {"left"} |-> IF c = "left" THEN NewLeft(patch.limit) ELSE patch[c]]

Load(w, stage, new) == req' = [req EXCEPT ![w] = [at |-> stage, write |-> Changed(new)]]

\* A limit below what has been sold is refused (TicketLimitExceededError), except 0,
\* which like NULL says nothing about the remaining tickets.
LoadPatch(w, patch) ==
  /\ req[w] = Idle
  /\ IF "limit" \in DOMAIN patch /\ patch.limit \notin {None, 0}
     THEN NewLeft(patch.limit) >= 0 /\ Load(w, "patch", WithLeft(patch))
     ELSE Load(w, "patch", patch)
  /\ UNCHANGED <<now, row, cache, ask, booked>>

\* One item of a batch: no look at the limit, and no update of statuses.
LoadItem(w, patch) ==
  /\ req[w] = Idle
  /\ Load(w, "item", patch)
  /\ UNCHANGED <<now, row, cache, ask, booked>>

SavePatch(w) ==
  /\ req[w].at \in {"patch", "item"}
  /\ row' = Applied(req[w].write)
  /\ req' = [req EXCEPT ![w] = IF @.at = "patch" THEN [Idle EXCEPT !.at = "patched"] ELSE Idle]
  /\ UNCHANGED <<now, cache, ask, booked>>

NextStatus_EndsOnlyClosed(r) ==
  IF r.dates.over <= now /\ r.status = Closed THEN Ended
  ELSE IF r.status = NotOpen /\ r.dates.start <= now /\ now < r.dates.end THEN Registering
  ELSE IF r.status \in {Registering, Waitlist} /\ r.dates.end <= now THEN Closed
  ELSE r.status

\* The last of the three transitions that apply; drafts are not left out.
NextStatus(r) ==
  IF r.dates.over <= now THEN Ended
  ELSE IF r.status = NotOpen /\ r.dates.start <= now /\ now < r.dates.end THEN Registering
  ELSE IF r.status \in {Registering, Waitlist} /\ r.dates.end <= now THEN Closed
  ELSE r.status

\* The nightly job, or the end of the creation of another event, or of this patch.
LoadStatus(w) ==
  /\ req[w].at \in {"idle", "patched"}
  /\ NextStatus(row) # row.status
  /\ Load(w, "status", [status |-> NextStatus(row)])
  /\ UNCHANGED <<now, row, cache, ask, booked>>

SaveStatus(w) ==
  /\ req[w].at = "status"
  /\ row' = Applied(req[w].write)
  /\ req' = [req EXCEPT ![w] = Idle]
  /\ UNCHANGED <<now, cache, ask, booked>>

\* Nothing to write, or the process dies.
Stop(w) ==
  /\ req[w] # Idle
  /\ req' = [req EXCEPT ![w] = Idle]
  /\ UNCHANGED <<now, row, cache, ask, booked>>

----------------------------------------------------------------------------
(* get_event of the transaction service's EventClient, and check_eligibility *)

Fresh_Always == cache # None

\* The entry has not expired.
Fresh == cache # None /\ now <= cache.until

\* The clock is read first, before the profile of the user is fetched.
Begin(c) ==
  /\ ask[c] = NoAsk
  /\ ask' = [ask EXCEPT ![c] = [NoAsk EXCEPT !.at = "begun", !.since = now]]
  /\ UNCHANGED <<now, row, req, cache, booked>>

\* Admitted: with a limit, confirmed while that many seats are not taken.
Admit(c, r) ==
  /\ r.open /\ r.dates.start <= ask[c].since /\ ask[c].since <= r.dates.end
  /\ booked' = IF (r.limit = None \/ booked < r.limit) /\ booked < MaxBooked THEN booked + 1 ELSE booked

AdmitFromCache(c) ==
  /\ ask[c].at = "begun"
  /\ Fresh /\ Admit(c, cache.info)
  /\ ask' = [ask EXCEPT ![c] = NoAsk]
  /\ UNCHANGED <<now, row, req, cache>>

\* The event service reads the row and answers ...
Ask(c) ==
  /\ ask[c].at = "begun"
  /\ ~Fresh
  /\ ask' = [ask EXCEPT ![c] = [at |-> "asked", since |-> ask[c].since,
                               info |-> Info(row), asof |-> now]]
  /\ UNCHANGED <<now, row, req, cache, booked>>

Arrives_TwiceTTL(c) ==
  /\ ask[c].at = "asked"
  /\ now <= ask[c].asof + HttpTime
  /\ cache' = [info |-> ask[c].info, until |-> now + 2 * TTL]
  /\ ask' = [ask EXCEPT ![c] = NoAsk]
  /\ UNCHANGED <<now, row, req>>

\* ... and the answer is cached from the moment it arrives.
Arrives(c) ==
  /\ ask[c].at = "asked"
  /\ now <= ask[c].asof + HttpTime
  /\ cache' = [info |-> ask[c].info, until |-> now + TTL]
  /\ ask' = [ask EXCEPT ![c] = NoAsk]
  /\ UNCHANGED <<now, row, req>>

AdmitFromAnswer(c) == Arrives(c) /\ Admit(c, ask[c].info)

RefuseFromAnswer(c) == Arrives(c) /\ UNCHANGED booked

\* Refused by what the cache says, no answer in time, or the request dies.
GiveUp(c) ==
  /\ ask[c] # NoAsk
  /\ ask' = [ask EXCEPT ![c] = NoAsk]
  /\ UNCHANGED <<now, row, req, cache, booked>>

\* Another pod, or a restart.
Forget ==
  /\ cache # None
  /\ cache' = None
  /\ UNCHANGED <<now, row, req, ask, booked>>

Cancel ==
  /\ booked > 0
  /\ booked' = booked - 1
  /\ UNCHANGED <<now, row, req, cache, ask>>

----------------------------------------------------------------------------
Tick ==
  /\ now < MaxNow
  /\ now' = now + 1
  /\ UNCHANGED <<row, req, cache, ask, booked>>

Change(w) == \/ \E p \in Patches : LoadPatch(w, p) \/ LoadItem(w, p)
             \/ SavePatch(w)

Update(w) == LoadStatus(w) \/ SaveStatus(w) \/ Stop(w)

Check(c) == \/ Begin(c) \/ AdmitFromCache(c) \/ Ask(c)
            \/ AdmitFromAnswer(c) \/ RefuseFromAnswer(c) \/ GiveUp(c)

Step == \/ \E w \in Worker : Change(w)
        \/ \E w \in Worker \cup Job : Update(w)
        \/ \E c \in Client : Check(c)
        \/ Forget \/ Cancel \/ Tick

Next ==
  /\ Step
  /\ said' = [i \in Offer |-> IF i \in {Info(row), Info(row')} THEN now' ELSE said[i]]

Spec == Init /\ [][Next]_vars

\* Time passes; a request ends; the job runs again and again, and not always dies.
Fairness == /\ WF_vars(Tick /\ Next)
            /\ \A w \in Worker : WF_vars((SavePatch(w) \/ SaveStatus(w) \/ Stop(w)) /\ Next)
            /\ \A j \in Job : SF_vars(LoadStatus(j) /\ Next) /\ SF_vars(SaveStatus(j) /\ Next)

FairSpec == Spec /\ Fairness

\* A limit l admits no more than m does.
Within(l, m) == m = None \/ (l # None /\ l <= m)

\* Nobody lowers the limit.
RaisedSpec == Init /\ [][Next /\ Within(row.limit, row'.limit)]_vars

----------------------------------------------------------------------------
(* Properties *)

\* Columns, requests, the cache and answers stay in their domains.
TypeOK ==
  /\ now \in 0..MaxNow
  /\ row \in Row
  /\ \A w \in Worker \cup Job : /\ req[w].at \in {"idle", "patch", "item", "patched", "status"}
                              /\ DOMAIN req[w].write \subseteq DOMAIN row
  /\ cache # None => cache.info \in EventInfo /\ cache.until \in 0..(MaxNow + TTL)
  /\ \A c \in Client : /\ ask[c].at \in {"idle", "begun", "asked"}
                       /\ ask[c].since \in 0..now /\ ask[c].asof \in 0..now
                       /\ ask[c].at = "asked" => ask[c].info \in EventInfo
  /\ booked \in 0..MaxBooked

\* Who is admitted is admitted by what the row said, in one piece, a short time ago: that
\* the event takes registrations, from when to when, and for how many.  No answer that
\* comes late, and no entry filled by one, is older than its time.
AdmittedByRecentRow ==
  [][\A c \in Client :
       /\ AdmitFromCache(c) => now - said[cache.info] <= TTL + HttpTime
       /\ AdmitFromAnswer(c) => now - said[ask[c].info] <= HttpTime]_vars

\* Once nobody changes the event any more, its status catches up with the clock,
\* whichever patches and runs of the job have overtaken one another before.
StatusCatchesUp ==
  <>[][\A w \in Worker : ~SavePatch(w)]_vars =>
    <>[]/\ row.dates.over <= now => row.status = Ended
        /\ row.dates.end <= now => row.status \notin {Registering, Waitlist}
        /\ row.dates.start <= now /\ now < row.dates.end => row.status # NotOpen

\* "Number of booked tickets cannot exceed new ticket limit!": such a limit is refused.
LimitCoversBooked ==
  [][\A w \in Worker, p \in Patches :
       LoadPatch(w, p) /\ "limit" \in DOMAIN p /\ p.limit # None => booked <= p.limit]_vars
=============================================================================
