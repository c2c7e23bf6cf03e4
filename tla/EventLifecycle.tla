--------------------------- MODULE EventLifecycle ---------------------------
(***************************************************************************)
(* Events come and go under numeric ids that are given out and taken back: *)
(* create_event and delete_event of the event service, its tables events   *)
(* and ids, and what a deletion has other services clean up.               *)
(*                                                                         *)
(* The name of an event, unique among the rows, tells it from a later      *)
(* event under the same id.                                                *)
(*                                                                         *)
(* Each action is one commit or one call; a request may die, or be         *)
(* overtaken by others, between any two.                                   *)
(***************************************************************************)
EXTENDS Integers, FiniteSets, FiniteSetsExt

CONSTANTS
  Name,     \* names of events
  Worker,   \* slots for requests of welfare members
  Client,   \* slots for registrations in progress
  IdLimit,  \* event_num_limit: 10000
  MaxLate,  \* bound: calls that outlive their caller at the same time
  None

ASSUME WorkerAssumption == IsFiniteSet(Worker)
ASSUME IdLimitAssumption == IdLimit \in Nat \ {0}

VARIABLES
  ids,      \* table ids: the numbers
  free,     \* those with is_occupied false
  events,   \* table events: <<number, name>>
  regs,     \* events that registrations were made for: <<number, name>>
  tickets,  \* events that tickets were issued for: <<number, name>>
  req,      \* per worker: the request's stage, number and name
  late,     \* clean-ups whose caller has given up: <<"tickets" or "regs", number>>
  seen,     \* per client: stage, and the event as read
  clashed   \* history: a deletion has overlapped with work on the same event

numbers == <<ids, free>>
vars == <<ids, free, events, regs, tickets, req, late, seen, clashed>>

CreateStages == {"take", "grow", "add", "insert"}
DeleteStages == {"tickets", "regs", "row", "release"}

Request == [at : {"idle"} \cup CreateStages \cup DeleteStages, id : Nat, name : Name \cup {None}]
Reading == [at : {"idle", "read", "booked"}, id : Nat, name : Name \cup {None}]

Idle == [at |-> "idle", id |-> 0, name |-> None]

Init ==
  /\ ids = {} /\ free = {}
  /\ events = {} /\ regs = {} /\ tickets = {}
  /\ req = [w \in Worker |-> Idle]
  /\ late = {}
  /\ seen = [c \in Client |-> Idle]
  /\ clashed = FALSE

Go(w, stage) == req' = [req EXCEPT ![w].at = stage]
End(w) == req' = [req EXCEPT ![w] = Idle]

Of(table, i) == {e \in table : e[1] = i}

----------------------------------------------------------------------------
(* create_event                                                             *)

MayGrow(n) == n <= IdLimit

FirstId_Zero == 0

FirstId == 1

Begin(w, stage, i, n) == /\ req[w] = Idle
                         /\ req' = [req EXCEPT ![w] = [at |-> stage, id |-> i, name |-> n]]

\* get_latest_available_id: the lowest free id, or else the number of ids, decide
\* where the id comes from.  Beyond the limit the request is refused.
BeginCreate(w, n) ==
  /\ \/ \E i \in free : (\A j \in free : i <= j) /\ Begin(w, "take", i, n)
     \/ free = {} /\ ids = {} /\ Begin(w, "add", FirstId, n)
     \/ free = {} /\ ids # {} /\ MayGrow(Cardinality(ids)) /\ Begin(w, "grow", 0, n)
  /\ UNCHANGED <<numbers, events, regs, tickets, late, seen>>

TakeId_Unmarked(w) ==
  /\ req[w].at = "take"
  /\ Go(w, "insert")
  /\ UNCHANGED <<numbers, events, regs, tickets, late, seen>>

\* update_event_id(isOccupied=True): the UPDATE asks for nothing but the number.
TakeId(w) ==
  /\ req[w].at = "take"
  /\ free' = free \ {req[w].id}
  /\ Go(w, "insert")
  /\ UNCHANGED <<ids, events, regs, tickets, late, seen>>

NextId_SkipsOne(S) == Max(S) + 2

NextId(S) == Max(S) + 1

\* get_greatest_occupied_id reads the greatest number, occupied or not.
ReadGreatest(w) ==
  /\ req[w].at = "grow"
  /\ req' = [req EXCEPT ![w] = [at |-> "add", id |-> NextId(ids), name |-> @.name]]
  /\ UNCHANGED <<numbers, events, regs, tickets, late, seen>>

AddId(w) ==
  /\ req[w].at = "add"
  /\ req[w].id \notin ids
  /\ ids' = ids \cup {req[w].id}
  /\ Go(w, "insert")
  /\ UNCHANGED <<free, events, regs, tickets, late, seen>>

\* The INSERT into events meets neither the id nor the name.
InsertEvent(w) ==
  LET r == req[w]
  IN  /\ r.at = "insert"
      /\ \A e \in events : e[1] # r.id /\ e[2] # r.name
      /\ events' = events \cup {<<r.id, r.name>>}
      /\ End(w)
      /\ UNCHANGED <<numbers, regs, tickets, late, seen>>

\* A unique index refuses the row: of ids (500), or of events (409, and the id
\* stays occupied).
Conflict(w) ==
  LET r == req[w]
  IN  /\ \/ r.at = "add" /\ r.id \in ids
         \/ r.at = "insert" /\ \E e \in events : e[1] = r.id \/ e[2] = r.name
      /\ End(w)
      /\ UNCHANGED <<numbers, events, regs, tickets, late, seen>>

----------------------------------------------------------------------------
(* delete_event                                                             *)

BeginDelete(w, e) ==
  /\ e \in events
  /\ Begin(w, "tickets", e[1], e[2])
  /\ UNCHANGED <<numbers, events, regs, tickets, late, seen>>

CleanTickets(w) ==
  /\ req[w].at = "tickets"
  /\ tickets' = tickets \ Of(tickets, req[w].id)
  /\ Go(w, "regs")
  /\ UNCHANGED <<numbers, events, regs, late, seen>>

CleanRegs(w) ==
  /\ req[w].at = "regs"
  /\ regs' = regs \ Of(regs, req[w].id)
  /\ Go(w, "row")
  /\ UNCHANGED <<numbers, events, tickets, late, seen>>

GiveUp_Anyway(w) ==
  /\ req[w].at \in {"tickets", "regs"}
  /\ Cardinality(late) < MaxLate
  /\ late' = late \cup {<<req[w].at, req[w].id>>}
  /\ Go(w, "row")
  /\ UNCHANGED <<numbers, events, regs, tickets, seen>>

\* No answer within 5 s: 502, and the event stays.  The clean-up goes on.
GiveUp(w) ==
  /\ req[w].at \in {"tickets", "regs"}
  /\ Cardinality(late) < MaxLate
  /\ late' = late \cup {<<req[w].at, req[w].id>>}
  /\ End(w)
  /\ UNCHANGED <<numbers, events, regs, tickets, seen>>

CleanLate(c) ==
  /\ c \in late
  /\ late' = late \ {c}
  /\ IF c[1] = "tickets" THEN tickets' = tickets \ Of(tickets, c[2]) /\ UNCHANGED regs
                         ELSE regs' = regs \ Of(regs, c[2]) /\ UNCHANGED tickets
  /\ UNCHANGED <<numbers, events, req, seen>>

\* DELETE by primary key, whatever event has the id by now.
DeleteRow(w) ==
  /\ req[w].at = "row"
  /\ events' = events \ Of(events, req[w].id)
  /\ Go(w, "release")
  /\ UNCHANGED <<numbers, regs, tickets, late, seen>>

\* update_event_id(isOccupied=False)
Release(w) ==
  /\ req[w].at = "release"
  /\ ids' = ids \cup {req[w].id}
  /\ free' = free \cup {req[w].id}
  /\ End(w)
  /\ UNCHANGED <<events, regs, tickets, late, seen>>

\* A call fails (502), the database does, or the process dies.
Abort(w) ==
  /\ req[w] # Idle
  /\ End(w)
  /\ UNCHANGED <<numbers, events, regs, tickets, late, seen>>

----------------------------------------------------------------------------
(* Registrations, seen from here: they name an event by its id and read it,  *)
(* perhaps from a cache, before they write.                                  *)

ReadEvent(c, e) ==
  /\ seen[c] = Idle
  /\ e \in events
  /\ seen' = [seen EXCEPT ![c] = [at |-> "read", id |-> e[1], name |-> e[2]]]
  /\ UNCHANGED <<numbers, events, regs, tickets, req, late>>

Book(c) ==
  /\ seen[c].at = "read"
  /\ regs' = regs \cup {<<seen[c].id, seen[c].name>>}
  /\ seen' = [seen EXCEPT ![c].at = "booked"]
  /\ UNCHANGED <<numbers, events, tickets, req, late>>

\* A cancellation promotes a registration that waits.
Promote(c, e) ==
  /\ seen[c] = Idle
  /\ e \in regs
  /\ seen' = [seen EXCEPT ![c] = [at |-> "booked", id |-> e[1], name |-> e[2]]]
  /\ UNCHANGED <<numbers, events, regs, tickets, req, late>>

IssueTicket(c) ==
  /\ seen[c].at = "booked"
  /\ tickets' = tickets \cup {<<seen[c].id, seen[c].name>>}
  /\ seen' = [seen EXCEPT ![c] = Idle]
  /\ UNCHANGED <<numbers, events, regs, req, late>>

Leave(c) ==
  /\ seen[c] # Idle
  /\ seen' = [seen EXCEPT ![c] = Idle]
  /\ UNCHANGED <<numbers, events, regs, tickets, req, late>>

----------------------------------------------------------------------------
Create(w) == \/ \E n \in Name : BeginCreate(w, n)
             \/ TakeId(w) \/ ReadGreatest(w) \/ AddId(w) \/ InsertEvent(w) \/ Conflict(w)

Delete(w) == \/ \E e \in events : BeginDelete(w, e)
             \/ CleanTickets(w) \/ CleanRegs(w) \/ GiveUp(w) \/ DeleteRow(w) \/ Release(w)

Register(c) == \/ \E e \in events : ReadEvent(c, e)
               \/ \E e \in regs : Promote(c, e)
               \/ Book(c) \/ IssueTicket(c) \/ Leave(c)

Step == \/ \E w \in Worker : Create(w) \/ Delete(w) \/ Abort(w)
        \/ \E c \in late : CleanLate(c)
        \/ \E c \in Client : Register(c)

Deletes(i) == \/ \E w \in Worker : req[w].at \in DeleteStages /\ req[w].id = i
              \/ \E c \in late : c[2] = i

\* The deletion of an event overlaps with another request for its id, or with a
\* registration for it; a late clean-up, with a creation or a registration.
Clash == \/ \E v, w \in Worker : v # w /\ req[v].id = req[w].id /\ req[w].at \in DeleteStages
         \/ \E w \in Worker, c \in late : req[w].at \in CreateStages /\ req[w].id = c[2]
         \/ \E c \in Client : seen[c] # Idle /\ Deletes(seen[c].id)

Next == Step /\ clashed' = (clashed \/ Clash')

Spec == Init /\ [][Next]_vars

----------------------------------------------------------------------------
(* Properties *)

Pairs == Nat \X Name

\* Tables and requests stay in their domains, and only known ids are free.
TypeOK ==
  /\ ids \subseteq Nat \ {0} /\ free \subseteq ids
  /\ events \subseteq Pairs /\ regs \subseteq Pairs /\ tickets \subseteq Pairs
  /\ req \in [Worker -> Request] /\ seen \in [Client -> Reading]
  /\ late \subseteq {"tickets", "regs"} \X Nat
  /\ clashed \in BOOLEAN

\* The ids have no gaps, whichever requests add one at the same time: the number
\* of rows, which the limit is compared with, is the greatest id.  And however many
\* creations find the limit not yet reached, they exceed it by at most one id each.
IdsDense ==
  /\ ids = 1 .. Cardinality(ids)
  /\ Cardinality(ids) <= IdLimit + Cardinality(Worker)

\* Unless a deletion clashes, the id of an event is not given to another: a creation or
\* deletion that dies half-way never leaves an event whose id is free.
EventKeepsId == ~clashed => \A e \in events : e[1] \in ids \ free

\* Unless a deletion clashes, every ticket has its registration and every registration
\* its event: a deletion that fails or dies half-way, and is tried again or not,
\* leaves nothing for the next event under this id.
NothingOrphaned == ~clashed => tickets \subseteq regs /\ regs \subseteq events
=============================================================================
