# Event ticketing: models, checks and proofs

This directory verifies the event ticketing backend (`src/backend`) where it is
hard to test: who gets a seat, who waits, who holds a ticket, who is punished
and locked out, whose role and profile still count, when requests overlap, calls
between services are lost or late, copies are stale, and processes die.

## The system

Four FastAPI services, each with its own PostgreSQL database; there are no
foreign keys between them. Handlers are synchronous functions in a thread pool;
every request has a database session of its own at READ COMMITTED. The object
mapper writes an UPDATE of the columns that changed since the row was loaded,
reports an UPDATE that met no row as an error (`StaleDataError`), and does not
object to a DELETE that met none. Services call one another over HTTP with a
5 s timeout and no retries; the callee carries on when the caller has given up.

| component | code | state | operations | model |
|---|---|---|---|---|
| registrations | `transaction/app/services/transaction_service.py`, `models/transaction.py` | table `transactions`, a PostgreSQL advisory lock per event | register, cancel (promotes from the waitlist), issue and attach a ticket, delete an event's rows, update details | `Registrations`, `SeatAllocation`; details and deadline in `RegistrationDetails` |
| eligibility | `transaction/app/services/eligibility_service.py` | none | decide from profile, event and table; tell in advance | `Eligibility`; the guard of `BeginRegister`, `EventWindow!Admit` |
| ticket service | `ticket/app/services/ticket_service.py`, `repositories/ticket_repository.py` | table `tickets` | create, void, check in (two ways), delete by event, list, no-show list | `Ticketing`, `Passes`; the lists in `NoShow` and `TicketDisplay` |
| account locks | `account/app/services/user_service.py`, `core/scheduler.py` | `users.registration_status`, `users.unlock_at` | punish, unlock, nightly auto-unlock, create and delete accounts | `AccountLock` |
| accounts, roles, tokens | `account/app/services`, `*/app/core/dependencies.py` | `users.role`, signed tokens | first login, create, change a role, delete, admit by role | `Accounts` |
| autofill | `account/app/services/user_service.py`, `transaction_service.py` | `users.diet_type`, `user_preferences` | fill in a registration, save its details | `Autofill` |
| no-show punishment | `transaction/app/services/no_show_service.py` | none of its own | list unused tickets, match, punish one by one | `NoShow` |
| event ids and deletion | `event/app/services/event_service.py`, `repositories/event_repository.py`, `core/external.py` | tables `events`, `ids` | create, delete (tickets, registrations, row, id), both in batches | `EventLifecycle`; the calls of a deletion also in `Ticketing` |
| event updates and statuses | the same, and `core/scheduler.py` | the columns of an event | patch, batch patch, nightly status job | `EventWindow` |
| clients and caches | `*/app/core/external.py`, `transaction/app/core/cache.py` | profiles (15 s), events (30 s) in memory | calls, get, set, clear | calls in `Ticketing`, `EventLifecycle`, `NoShow`; the event cache in `EventWindow`, profiles in `ProfileCache` |
| migrations and mock data | `scripts/migrate_all.py`, `scripts/seed_all.py`, `*/migrations` | revisions and rows of four databases | migrate, check, seed, reset | `Deployment` |
| queries and routers | `*/app/routers` | none | lists, counts, exports | partly: `TicketDisplay`, `Eligibility` |
| deployment manifests | `k8s`, `docker-compose.yaml` | none | | not modelled |

How they interact: a registration reads eligibility (account and event service),
then takes the event's lock, decides and commits, then asks the ticket service
for a ticket and writes the ticket id into its row. A cancellation reads the row,
asks for the event, takes the lock, cancels and promotes, commits, has its ticket
voided and the promoted registration's issued. The event service's deletion
calls the ticket service, then the transaction service. The no-show punishment
reads the ticket service and writes the account service. Every service but the
account service goes by the role in the caller's token; the transaction service
goes by profiles and events it keeps for some seconds.

What is hard: decisions taken on rows read before a lock or without one; steps
after the commit that a crash or a timeout separates from it; calls that arrive
late; column-wise UPDATEs of stale objects; copies of rows and roles that nobody
calls back. `PROJECT.json` lists each such place with its line under `hazards`. Where a
property excepts the very overlap of a hazard, the hazard's note says so.

What makes each component correct: no more seats than the limit, none idle
while somebody waits, a waitlist first come first served, one active
registration per user; one ticket per registration, its own, there while the
seat is held, and kept once used; a punishment that locks and ends, neither
undone nor forgotten; an event id that stands for one event at a time, and nothing
left of a deleted event; nobody admitted to an event that is closed, and a status
that keeps up with the clock; a cancelled registration that stays as it is and a
deadline that holds; every no-show punished or reported and nobody who came; roles and
profiles not older than their lives allow; what is saved for the next time found
there; and answers that foretell what a request comes to.

## Modules

`Registrations` is the table of ONE event and the requests that work on it (the
lock and all queries are per event).

- A row is `status`, `owner`, `number` (waitlist number) and `ticket`. A row not
  inserted yet is `"absent"`, one deleted with its event `"deleted"`.
- A request is a record in `req[w]`: the stage it waits at and the locals it
  still needs (`old_status` is `seen`, `old_ticket_id` is `held`, `promoted_tx`
  is `next`). An action is the stretch of a handler between two points at which
  others can be observed: `BeginRegister` (eligibility), `DecidePlace` (lock,
  count, number), `InsertRow` or `InsertConflict` (INSERT, unique index, commit),
  `AttachTicket` or `IssueFails`; `ReadForCancel`, `AdmitCancel` or
  `RefuseCancel` (event and deadline), `ChooseSuccessor` or `LockForWithdrawal`
  (lock), `CommitCancel` or `CancelRowGone`, `VoidAnswered`;
  `DeleteEventRegistrations`; `Abort` at any point.
- `lock` is `pg_advisory_xact_lock`: granted when nobody holds it, given back by
  commit or rollback.
- A UUID is an element of `Tx` that nobody has drawn yet.

`SeatAllocation` says what a registration system promises: seats, a line of
people waiting, and its head taking over each seat that becomes free. There is no
request, lock or column in it. `Registrations!SeatsImplemented` is the refinement,
with `ahead` read off the waitlist numbers.

`Ticketing` extends `Registrations` with the table `tickets`; each step of the
transaction service is one of `Registrations` together with the call it makes. `issue[t]` and `void[w]` are the HTTP calls, which go on after
the caller has left: `InsertTicket` may happen long after `GiveUp`. The ticket
service's handlers are statement by statement: `LookUp`, `CheckActive`,
`InsertTicket`; `LoadForVoid`, `DeleteTicket`; `LoadForCheckin`, `SaveCheckin`.
`PurgeTickets` and `PurgeRegistrations` are the two calls of the event service's
`delete_event`, in that order.

`Passes` says what seats and tickets promise together, without tables, calls or
requests: a registration that got a seat gets one pass at most, which is used while
valid and voided only when the seat was given up, or with the whole event.
`Ticketing!PassesImplemented` is the refinement: a registration that was confirmed
once and is not any more has its seat `"over"`, and its pass is read off the rows of
`tickets` made for it.

`RegistrationDetails` is one row and the requests that change its details or cancel
it: `ReadForEdit` (load), `AdmitEdit` (the event has answered; deadline and guests),
`SaveUpdate` and `SaveCancellation` (commit). `crossed` remembers that something
happened while a request was under way; after that the deadline may be passed over.

`Eligibility` is `check_eligibility` as an operator on a situation: the refusals in
the order of the code, the answer of the eligibility endpoint made of the first that
applies, and the answer of `POST /transactions`, which goes by its own exceptions
and counts the seats again. The event's status crosses the services as a word
(`Serialized`, `Parsed`). Every situation is an initial state.

`TicketDisplay` does the same for a ticket: its status and availability in the list
and the detail, the tests of both check-ins, and the no-show list, which look at the
same clock and event in four places.

`NoShow` is one event's registrations (`place`), tickets (`card`), ticket ids
(`named`) and requests to void (`voids`), check-ins (`LoadVisit`, `SaveVisit`) and runs
of `punish_no_shows_for_event`: `ListUnused` (the first page of the ticket service),
`MatchPlaces`, `PunishHolder` or `PunishFails` one by one, `EndRun`; a run may die.
`ConfirmPlace`, `IssueCard`, `NameCard`, `CancelPlace` and `VoidCard` happen at any
time: nothing ties the dates of registrations to the event's end, and an answer of the
ticket service is written whenever it comes. `late` remembers check-ins saved after the
end, `moved` that the end was moved after it had passed (`update_event` does not ask);
a run's `due` and `excess` remember who was a no-show when it asked for its list
and how many tickets the page left out.

`AccountLock` is the two columns of the lock, with `unlock_at` as the days until
then. A request loads a row (`Loaded`) and later saves; the save writes a column
only if its new value differs from the loaded one, which is where updates get
lost. `LoadExpired` and `SaveExpired` are the nightly job, with one commit for all
accounts; it is skipped (`RunMissed`), fails as a whole (`SaveExpiredFails`) or
dies (`JobDies`).

`clashed` remembers that two requests, or a request and the job, ever had the same
account at hand; what is promised of accounts that nobody else touched meanwhile
is promised while it is false.

`Accounts` is the rows of `users` as far as id and role go, the requests of welfare
members (`ReadForRole`, `SaveRole`, `ReadForDelete`, `DeleteRow`: check, then write,
nothing locked) and the tokens (`SignToken`, `TickTokens`). A token's `since` is the
time since its holder had the role it names; the other services `Admit` by the token
alone. `raced` remembers overlapping requests of members and deletions of oneself.

`ProfileCache` is `get_registration_profile` with the `TTLCache` behind it. A reader
takes a fresh entry (`Hit`) or asks (`Miss`, `AnswerProfile`, `StoreProfile`); a
writer's call (`BeginChange`, `CommitChange`) empties the cache when its answer has
come (`ChangeSeen`) and not when it fails (`ChangeFails`); other changes of the row
are not heard of (`ChangeElsewhere`). `Pruned` is what a full cache drops. `age`
counts from when a version of the row was replaced; `excused` holds the persons
whose old profile may stay, for one of the three reasons named at `StaleHasReason`.

`Autofill` is the way of diet and guests from the preferences into a registration
(`Resolve`, `Filled`) and back (`Upserted`). `saved` remembers the last registration
of a category whose details were saved. The transaction service lets the diet
`"none"` pass, which a CHECK of the account service refuses: such an update is rolled
back and the failure logged, so nothing is saved.

`Deployment` is `migrate_all.py` and `seed_all.py` as one script that goes through
the four databases, may stop between any two, and is started again, with or without
`--reset`. `twice` stands for two events of one name, which stop the revision that
makes names unique.

`EventLifecycle` is the tables `ids` and `events`, one commit or call an action:
`BeginCreate`, then `TakeId` (a free id) or `ReadGreatest` and `AddId` (a new one),
`InsertEvent` or `Conflict`; `BeginDelete`, `CleanTickets`, `CleanRegs`, `DeleteRow`,
`Release`. `GiveUp` is a clean-up that times out and goes on (`late`, `CleanLate`).
Registrations and tickets are what they were made for; a name tells an event from a
later one under the same id. `clashed` is again a history variable: a deletion has
overlapped with another request for the same id, with a registration for the
event, or a late clean-up with a creation. Without that condition the
code gives no guarantee: two deletions with a creation in between free the id of the
new event, a late clean-up takes the new event's registrations, and a registration
that passed its checks before the deletion stays under an id that is given out again.

`EventWindow` is the row of one event and the copy by which registrations are
admitted. A request or a run of the job loads the row and later writes the columns
that changed (`LoadPatch`, `LoadItem`, `SavePatch`; `LoadStatus`, `SaveStatus`).
`NextStatus` is the three transitions of `update_statuses`. A client reads the clock
(`Begin`), is admitted by the cache (`AdmitFromCache`) or asks the event service
(`Ask`) and caches the answer when it comes (`AdmitFromAnswer`,
`RefuseFromAnswer`). Time is an integer. `said` remembers, for each offer a row can
make (open, its dates, its limit), when the row last made it: `AdmittedByRecentRow`
asks that an admission goes by an offer that was made, as a whole, a short time ago.
That a stale write of the job can reopen an event closed by hand is in the model; the
row makes its offer again then.

Environments. Some modules define, beside the specification of the code, one that
lets fewer things overlap: `SoloSpec`, `CalmSpec` and `SettledSpec` in `Registrations`,
`ApartSpec` and `SerialSpec` in `Ticketing`, `RaisedSpec` in `EventWindow`. Nothing in
the code enforces them; each names the one overlap (or the one change) that a
violated run needs, and a theorem says that without it the property holds.

`MCRegistrations`, `MCTicketing`, `MCAccountLock` and `MCEventLifecycle` add symmetry
sets for TLC, `MCEventWindow` dates and patches. `MCTransactionService`,
`MCTicketService` and `MCAccountService` put the modules of a service side by side:
they share no variable, so an initial choice (`part`) says which of them takes the
steps, and TLC explores each and not their product. For `Eligibility` and
`TicketDisplay` the part is the set of all situations.
Operators named `X_Something` beside an operator `X` are wrong variants of `X`;
nothing uses them but the demonstration that each property would notice them.

## Runs

| run | what it asks | result |
|---|---|---|
| `registrations_safety` | three overlapping requests of any kind, crashes, event deletion: what lock and index guarantee by themselves | holds |
| `registrations_oversell` | `NoOversell`, which the concurrency tests assert of overlapping cancellations | violated |
| `registrations_stale_ticket` | no ticket on a cancelled registration, as the API description says | violated |
| `registrations_calm` | with cancellations one after another: no idle seat, `SeatAllocation` implemented. Details: a registration never goes back; nothing changes after the deadline unless something crossed the request. Autofill: what was saved comes back. Eligibility: the pre-check foretells the registration | holds |
| `registrations_liveness` | every request ends | holds |
| `ticketing_safety` | a registration's ticket is its own, and is there while the seat is held; seats and tickets keep the promise of `Passes`; a ticket is refused only for a leftover one. No-shows: who came is not punished, unless the end was moved; a run punishes or reports those who had not come when it asked for its list, but for as many as the list was too short for. Display: available means that check-in would succeed | holds |
| `ticketing_used` | a used ticket is not voided | violated |
| `account_lock` | types, every locked account can be found by the job, every lock ends; unless two had the same account at hand, no update is lost. Tokens: a role is not honoured longer than a token lives after its loss; a welfare member remains. Profiles: none older than the cache allows, none from before a punishment without a reason. Mock data: never without what they refer to | holds |
| `account_lock_punishment` | whoever is punished is locked | violated |
| `event_ids` | ids without gaps and within the limit; unless a deletion clashes, one event per id and nothing left of a deleted one | holds |
| `event_window` | nobody admitted but by what the row offered a short time ago; the status catches up with the clock | holds |
| `event_limit` | a limit below the booked registrations is refused | violated |

What the violated ones show:

- `NoOversell`: `cancel_registration` reads `old_status` before it takes the
  lock. Two requests that cancel the same confirmed registration both promote a
  successor. The same stale read loses a promotion the other way round: a
  registration promoted between the read and the lock of its own cancellation is
  cancelled as if it waited. Both are gone when cancellations follow one
  another (`registrations_calm`), which is what re-reading the row under the lock
  would achieve.
- `CancelledHoldsNoTicket`: the ticket id is attached without a look at the
  status; the cancellation clears only an id it had read.
- `UsedIsKept`, `PunishmentLocks`: check and write are separate statements on
  rows nobody locks.
- `LimitCoversBooked`: the check compares with `remaining_tickets`, which only the
  event service writes; no registration changes it, so it says nothing is sold.

Each of the five has the cause named and no other, which is proved: see
`SoloNeverOversells`, `SettledLeavesNoTicket`, `UsedStays`, `AlonePunishes` and
`RaisedNeverOverbooks` under Proofs.

Further behaviour the models contain, which contradicts a document but has no run of
its own: a 409 for a ticket that exists leaves the new registration without one
(`internal-api-spec.md:271` calls it success; `RefusedForLeftover` says of whom that
ticket can be); a registration or a ticket that is
committed after its table was cleared outlives the deleted event
(`internal-api-spec.md:344` means to avoid that); any event can be deleted, since the
conditions of `event-api.md:357-360` are commented out in `delete_event`. Of the
no-shows, `no_show_service.py:4` and `internal-api-spec.md:356` have all unused tickets of the
event fetched; the ticket service returns one page of 1000 (`ticket_service.py:199`), in no
order, and the run ends as if there were no more. Whoever has been punished keeps the
unused ticket, so that the next run may get the same page (`EveryNoShowPunished` bounds how
many are passed over by what the page lacks). And a registration that is
promoted, or gets its ticket or the ticket's id, after a run has asked for its list
stays unpunished although it is confirmed, named and unused, until another run, which
nothing starts: `internal-api-spec.md:396` speaks of a daily schedule or a start by
hand, `no_show_service.py:13-18` says that there is no schedule.

And which concerns no document: a change by two welfare members at once, or the deletion of
one's own account, can leave no member at all (`raced`); a reset that stops half-way
leaves registrations whose users and events are gone; an event that has ended can be
given a later end, after which people punished as no-shows may still check in
(`moved`); a punishment carried out twice restarts the 30 days (`no_show_service.py:11`
says so); `update_registration`
lets details change at any time of an event without a deadline, while a cancellation
is refused there.

### Bounds

One event. Registrations: three users, rows and request slots, one seat; that is
the smallest instance in which two cancellations overlap with a promotion or
with a third request, and a waitlist of two has an order. Two tickets, so that a
wrong one can be attached. Numbers on the waitlist are bounded by the rows: ids
are never reused, so no constraint is needed. Liveness: two users, rows and slots
(no symmetry). Ticketing: two users, rows, tickets and slots, one desk, and an
issue and a void under way for each row and slot. AccountLock: a punishment of
two days (30 in the code), two users, two slots.

RegistrationDetails: two requests for one row (what crosses a request is one other),
guests 0 or 1. Autofill: two categories, guests 0 or 1. Eligibility and
TicketDisplay: two or three instants, so that each comparison has both outcomes and
the equal case, limit and count 0 or 1, every role, status and flag. NoShow: two
holders, a list of one (1000 in the code) so that it is full, one check-in at a time,
and one run at a time, which dies and is repeated. Two runs at once hold as well (1.5
million states by themselves) but are too many beside the tickets; they, and a list of which
one fails and another does not, are left to the theorems, which have any number. Accounts: two employees and one made id, so
that a username comes back under another id, a token life of one tick, two requests.
ProfileCache: `Ttl` = `CallTime` = 1, one person with two keys and a cache of one
entry so that it is pruned, two readers, one writer. Deployment has no bounds: four
databases, as in the code.

EventLifecycle: two names, two requests, two registrations, an id limit of one, so
that the limit is reached, passed, and ids are used again; `MaxLate` bounds the
clean-ups under way by two. Two names tell two events under one id apart.
`MCEventLifecycle!View` forgets registrations and tickets once a deletion has clashed:
`NothingOrphaned` asks nothing of them then, and no guard that moves ids or events
reads them. The theorems hold without these bounds.

EventWindow: one request, one run of the job, one client, `TTL` = `HttpTime` = 1, a
clock to 3 (`MaxNow`): one tick more than the staleness the property allows. Two sets
of dates, one over within that time, one beyond it, and patches that publish, open,
close and postpone. One more client adds answers that overtake one another; the
theorem covers that. `MaxBooked` stops the count of registrations. The run has events
without a limit; limits make the instance too large beside patches of everything else,
`event_limit` has two of them, and the theorems cover all.

`CHECK_DEADLOCK FALSE` stands where the ids run out: a finite set of fresh ids
ends every behaviour, the real one draws from UUIDs. In `EventLifecycle` the code itself
can stop: a creation refused for its name keeps its id, and when all are lost that way
nothing can be created any more.

### Fairness

`Registrations!Fairness`: a request that can go on does (handlers run to
completion, each HTTP call ends after 5 s); one that waits for the lock gets it
if it is given back again and again, since PostgreSQL queues waiters. Nothing
makes a client send a request or a request die. `AccountLock!Fairness`: days go
by, the service is not down every night, a started job ends and not always in a
crash. `LockEnds` needs that punishments cease, which it says.
`EventWindow!Fairness`: time passes, requests end, and the nightly job loads and saves
again and again although it may die. `StatusCatchesUp` asks only for after the patches
cease.

### Abstractions

- Waiting for a row lock is not a step. The DELETE of an event's rows is one
  action that waits for a cancellation's uncommitted row; deadlocks between the
  two are the victim's `Abort`.
- In `Registrations` the limit of an event is a constant. The code compares with a
  limit up to 30 s old (cached) and an administrator may change it; `EventWindow` has
  that, with a bare count for the registrations.
- In `EventWindow` the event exists. An answer carries what decides: open or not,
  dates and limit. `HttpTime` stands for the client's 5 s time-out, counted from the
  reading of the row, and the checks after an answer take no time.
- Deadlines, registration windows, roles, locks of the account and places of
  check-ins decide by a choice: the other service, or the clock, may say either.
- Guests, diets and other columns are in `RegistrationDetails` and `Autofill` only,
  `selfDriving`, which goes the way of the diet, nowhere. Autofill has one person,
  and a request is one step.
- In `NoShow` a user has one registration, and the event is not deleted; the deletion
  is in `Ticketing` and `EventLifecycle`. A registration that does not exist yet counts as
  one on the waitlist: both can be confirmed later and neither has a ticket.
- In `ProfileCache` no answer takes longer than `CallTime` from the reading of the
  row to its use; the client's time-out is 5 s.
- The seeds hold a welfare member (`AccountsInit`).

## Proofs

For all values of the constants, under the named assumptions on them (limits and
times are numbers, `None`, `Null`, `Nobody` and the like are not values of the sets
they stand beside, patches fit the columns):

- `RegistrationsProofs`: the invariant `IInv` and from it `TypeOK`,
  `OneActivePerUser`, `WaitlistNumbersUnique` and the action properties
  `RegistrationRespectsLimit`, `QueueDiscipline`, `CancelledIsFinal`,
  `OneTicketPerRegistration`. Why `IInv` is needed: uniqueness of waitlist numbers
  is not inductive; it needs that the number a request drew is still beyond
  all others when it inserts (`PlaceInv`), which needs that only the holder of
  the lock inserts or promotes (`LockInv`) and what a request knows at each stage
  (`RequestInv`). That a ticket id is written once needs that at most one request
  owes a row its ticket (`OwedInv`). One lemma per action says what it changes;
  the invariance proof has one step per conjunct and action that disturbs it.
- `RegistrationsRefinement`: with no registration cancelled twice at once,
  `NoOversell` (`SoloInv`: the seat a cancellation has read is still a seat);
  with cancellations one after another, `NoIdleSeat` and the refinement of
  `SeatAllocation` (`CalmInv`: a place on the waitlist is only given while the
  event is full); with no registration cancelled while its ticket is on its way,
  `CancelledHoldsNoTicket` (`SettledInv`: a cancellation that read no ticket id meets
  none at its commit, and nobody owes a ticket to a cancelled row). These are theorems
  of `SoloSpec`, `CalmSpec` and `SettledSpec`, which restrict the environment; the code
  alone violates them, as the runs show. `SettledInv` needs of `IInv` that
  a cancellation's successor is not the row it cancels: `SeenInv`, a seat that a
  cancellation has read does not wait again.
- `SeatAllocationProofs`: what the abstract specification promises: seats never
  oversold nor idle while somebody waits, and the waitlist one line. And what `Passes`
  promises (`PassInv`): who holds a seat keeps the pass, and nothing returns.
- `TicketingProofs`: every behaviour of the two services is one of `Registrations`
  (`TicketingImplementsRegistrations`), so `IInv` holds there too. On top of it
  `TInv`: a registration has its ticket issued by one call, whose answer names a
  ticket made for it (`CallInv`), every ticket is the answer to the call it was made by
  (`MadeInv`), and who has a seat has been asked a ticket for (`AskedInv`); the
  registration names that one
  (`NamedInv`), a cancellation has read that one (`HeldInv`), and a successor's call
  waits for the old ticket to be given up (`SuccessorInv`); so tickets on their way
  to be voided belong to registrations that are over (`VoidInv`), and the ticket of a
  seat stays, named yet or not (`LiveInv`). `TicketsMatch`, `SeatKeepsTicket` and
  `OneTicketEver` follow, and with the answers for passes (`AnswerIsPass`) so does the
  refinement of `Passes`, step by step (`PromiseStep`). `RefusedForLeftover` follows
  because only `create_ticket` answers a call under way (`AnswerChanges`) and a user has
  one active registration. Two more hold in environments: no check-in overlaps a void
  of the same ticket (`ApartSpec`), then `UsedIsKept` (`ApartInv`: what a void has
  loaded is unused or gone); no two calls for one user overlap between check and INSERT
  (`SerialSpec`), then nobody has two unused tickets (`SerialInv`: what a check found is
  still so).
- `AccountLockProofs`: `TypeOK` and `LockMatchesEnd`; that a locked account has an end
  holds however all overlap (`LInv`: a request that unlocks saw a locked account, so it
  writes both columns), that an active one has none while nobody has clashed, and so do
  `AlonePunishmentLocks`, `JobUnlocksExpired` and `LockKept` (`CInv`:
  what a request or the job has loaded is still so).
- `EventLifecycleProofs`: `TypeOK`, `IdsDense`, and, while no deletion
  has clashed, `EventKeepsId` and `NothingOrphaned`. That ids are dense needs that a
  number about to be added is at most one beyond the greatest; the bound counts the
  requests that may still add one.
- `EventWindowProofs`: `TypeOK` (what a request is about to write fits its columns), and
  `AdmittedByRecentRow` for all `TTL` and `HttpTime`, any limits and patches and any
  number of clients (`SaidInv`: when the row last made the offer that an answer or an
  entry makes). And when nobody lowers the limit (`RaisedSpec`), no more registrations
  are confirmed than it allows, as it is now (`CopiesFit`: every copy admits no more
  than the row).
- `ServicesProofs`, the modules that stand by themselves:
  - `NoShow`: `CameNotPunished` and `EveryNoShowPunished`. `AbsentInv`: whoever is
    listed or punished had an unused ticket after the end. `SweepInv`: of the no-shows of
    the moment of its list, a run's page lacks at most the excess (`PageExcess`, by
    cardinalities); the others keep their ticket's id while they keep the seat, so that
    they are matched, and from then on are to be punished, punished, or in the errors.
  - `RegistrationDetails`: `StatusMovesForward` from the steps alone; `DeadlineHolds`
    from `UncrossedInv`: until something crosses, at most one request is under way
    and has the row as it is.
  - `Accounts`: `TokenStandsForRole`, because what is left of a token and the time
    since its role was held add up to at most a token's life (`TokenInv`); and
    `StaffRemains`, because the member whose request is under way stays one and is
    not its object (`OfficeInv`).
  - `ProfileCache`: `ProfileIsRecent`, because an answer is as old as its call and an
    entry as old as a call and what it has used up (`RecentInv`); `StaleHasReason`,
    because answers under way and entries are the row's but for the excused and
    changes being answered (`FreshInv`).
  - `Autofill`: `AutofillCarriesOver` (`SavedInv`: the preferences hold what was saved
    last). `Deployment`: `SeedIsWhole` (`SeedInv`: a script that seeds found all tables
    and has seeded the services before). `TicketDisplay`: `AvailableMeansCheckin`, by
    cases of the view. `Eligibility`: `PreCheckPredictsPost`, since a
    refusal has a name of its own and without one the seats count (`ReasonFacts`).

Only model-checked: liveness (`EveryRequestEnds`, `LockEnds`, `StatusCatchesUp`), which
the provers do not reach. Every other property of a passing run is a theorem.

## Not modelled

- Lists, searches, counts, summaries and exports: they read committed rows and change
  nothing. That `list_users` and the no-show pages have no ORDER BY, so pages may
  overlap, is only reflected in the arbitrary page of `NoShow!ListUnused`.
- Names, texts, places, FAQs, interests: single-row writes no decision reads.
- The password check and the signature of tokens: computations without state. Two
  first logins, or two first updates of a preference, at once end in a unique
  violation and an error for one of them; one is modelled at a time.
- The columns added by the single revisions, the images and manifests. What they do
  to the rest is in the models: one process per service that may restart and lose
  what it has in memory, threads within it, volumes that survive.
- The limit of an event that changes while registrations are decided. `EventWindow`
  changes it and `Registrations` decides by it; their product is too large for TLC,
  and `RegistrationRespectsLimit` speaks of the limit a registration was decided by.
