------------------------ MODULE EventLifecycleProofs ------------------------
(* Proofs about EventLifecycle. *)
EXTENDS EventLifecycle, FiniteSetTheorems, TLAPS

\* Requests that will add an id, or try to.
Growing == {w \in Worker : req[w].at \in {"grow", "add"}}

\* Each request that is still growing the table may add one id more.
Room == \E n \in Nat : /\ ids = 1..n
                       /\ n + Cardinality(Growing) <= IdLimit + Cardinality(Worker)
                       /\ \A w \in Worker : /\ req[w].at = "grow" => n > 0
                                            /\ req[w].at = "add" => req[w].id \in 1..(n + 1)

\* Whoever works on an id, or is stored under it, has it from the table.
KnownIds == /\ \A e \in events : e[1] \in ids
            /\ \A w \in Worker : req[w].at \in {"take", "insert"} \cup DeleteStages => req[w].id \in ids

\* An id about to get its event is occupied, one about to be released has none.
Reserved == \A w \in Worker :
  /\ req[w].at = "insert" => req[w].id \notin free
  /\ req[w].at = "release" => Of(events, req[w].id) = {}

\* What a deletion has cleaned up stays clean, and a registration in progress has
\* its event and, once it is made, its row.
Cleaned ==
  /\ \A w \in Worker : /\ req[w].at \in {"regs", "row"} => Of(tickets, req[w].id) = {}
                       /\ req[w].at = "row" => Of(regs, req[w].id) = {}
  /\ \A i \in Nat : <<"regs", i>> \in late => Of(tickets, i) = {}
  /\ \A c \in Client : /\ seen[c].at = "read" => <<seen[c].id, seen[c].name>> \in events
                       /\ seen[c].at = "booked" => <<seen[c].id, seen[c].name>> \in regs

Undisturbed == ~clashed => ~Clash /\ Reserved /\ Cleaned /\ EventKeepsId /\ NothingOrphaned

\* Requests and registrations in progress name an event.
Named == /\ \A w \in Worker : req[w].at # "idle" => req[w].name \in Name
         /\ \A c \in Client : seen[c].at # "idle" => seen[c].name \in Name

IInv == TypeOK /\ Named /\ Room /\ KnownIds /\ Undisturbed

----------------------------------------------------------------------------
(* Facts about the operators *)

\* The greatest id of a table without gaps is the number of its rows.
LEMMA MaxOfInterval ==
  ASSUME NEW n \in Nat, n > 0
  PROVE  Max(1..n) = n
BY DEF Max

LEMMA SizeOfInterval ==
  ASSUME NEW n \in Nat
  PROVE  IsFiniteSet(1..n) /\ Cardinality(1..n) = n
BY FS_Interval

LEMMA SlotsAreFinite ==
  \A S \in SUBSET Worker : /\ IsFiniteSet(S)
                           /\ Cardinality(S) \in Nat /\ Cardinality(Worker) \in Nat
                           /\ Cardinality(S) <= Cardinality(Worker)
BY WorkerAssumption, FS_Subset, FS_CardinalityType

----------------------------------------------------------------------------
(* The invariant holds                                                      *)

LEMMA IInvInit == ASSUME Init PROVE IInv
<1> USE WorkerAssumption, IdLimitAssumption DEF Init, Idle
<1>1. TypeOK
  BY DEF TypeOK, Pairs, Request, Reading
<1>2. Room
  <2>1. ids = 1..0
    OBVIOUS
  <2> QED
    BY <2>1, SlotsAreFinite DEF Room, Growing
<1>3. KnownIds /\ Named
  BY DEF KnownIds, Named, DeleteStages
<1>4. Undisturbed
  BY DEF Undisturbed, Clash, Deletes, DeleteStages, CreateStages, Reserved, Cleaned,
         EventKeepsId, NothingOrphaned
<1> QED
  BY <1>1, <1>2, <1>3, <1>4 DEF IInv

\* The steps by name.
LEMMA StepCases ==
  ASSUME Step
  PROVE  \/ \E w \in Worker :
              \/ \E n \in Name : BeginCreate(w, n)
              \/ TakeId(w) \/ ReadGreatest(w) \/ AddId(w) \/ InsertEvent(w) \/ Conflict(w)
              \/ \E e \in events : BeginDelete(w, e)
              \/ CleanTickets(w) \/ CleanRegs(w) \/ GiveUp(w) \/ DeleteRow(w) \/ Release(w)
              \/ Abort(w)
         \/ \E c \in late : CleanLate(c)
         \/ \E c \in Client : \/ \E e \in events : ReadEvent(c, e)
                              \/ \E e \in regs : Promote(c, e)
                              \/ Book(c) \/ IssueTicket(c) \/ Leave(c)
BY DEF Step, Create, Delete, Register

(* What a step does to its request, and to no other.                         *)

LEMMA GoEffect ==
  ASSUME TypeOK, NEW w \in Worker, NEW stage \in CreateStages \cup DeleteStages, Go(w, stage)
  PROVE  /\ req' \in [Worker -> Request]
         /\ req'[w].at = stage /\ req'[w].id = req[w].id /\ req'[w].name = req[w].name
         /\ \A v \in Worker \ {w} : req'[v] = req[v]
BY DEF TypeOK, Go, Request

LEMMA EndEffect ==
  ASSUME TypeOK, NEW w \in Worker, End(w)
  PROVE  /\ req' \in [Worker -> Request]
         /\ req'[w].at = "idle" /\ req'[w].id = 0 /\ req'[w] = Idle
         /\ \A v \in Worker \ {w} : req'[v] = req[v]
BY DEF TypeOK, End, Request, Idle

LEMMA BeginEffect ==
  ASSUME TypeOK, NEW w \in Worker, NEW stage \in CreateStages \cup DeleteStages,
         NEW i \in Nat, NEW n \in Name, Begin(w, stage, i, n)
  PROVE  /\ req' \in [Worker -> Request]
         /\ req[w] = Idle /\ req[w].at = "idle"
         /\ req'[w].at = stage /\ req'[w].id = i /\ req'[w].name = n
         /\ \A v \in Worker \ {w} : req'[v] = req[v]
BY DEF TypeOK, Begin, Request, Idle

LEMMA GreatestEffect ==
  ASSUME TypeOK, Room, NEW w \in Worker, ReadGreatest(w)
  PROVE  \E n \in Nat :
           /\ ids = 1..n
           /\ req' \in [Worker -> Request]
           /\ req'[w].at = "add" /\ req'[w].id = n + 1 /\ req'[w].name = req[w].name
           /\ \A v \in Worker \ {w} : req'[v] = req[v]
<1>1. PICK n \in Nat : ids = 1..n /\ n > 0
  BY DEF Room, ReadGreatest
<1>2. NextId(ids) = n + 1
  BY <1>1, MaxOfInterval DEF NextId
<1>3. [at |-> "add", id |-> n + 1, name |-> req[w].name] \in Request
  BY DEF TypeOK, Request, CreateStages
<1> QED
  BY <1>1, <1>2, <1>3 DEF ReadGreatest, TypeOK

LEMMA EventPair ==
  ASSUME TypeOK
  PROVE  \A e \in events \cup regs \cup tickets : /\ e = <<e[1], e[2]>>
                                                  /\ e[1] \in Nat /\ e[2] \in Name
BY DEF TypeOK, Pairs

LEMMA TypeStep ==
  ASSUME IInv, Step, clashed' \in BOOLEAN
  PROVE  TypeOK' /\ Named'
<1> USE DEF IInv
<1> DEFINE TN == TypeOK /\ Named
<1>1. ASSUME NEW w \in Worker, NEW n \in Name, BeginCreate(w, n) PROVE TN'
  <2>1. \E stage \in CreateStages, i \in Nat : Begin(w, stage, i, n)
    BY <1>1 DEF BeginCreate, FirstId, CreateStages, TypeOK
  <2> QED
    BY <1>1, <2>1, BeginEffect DEF BeginCreate, TypeOK, Named, numbers
<1>2. ASSUME NEW w \in Worker, TakeId(w) PROVE TN'
  <2>1. Go(w, "insert") /\ "insert" \in CreateStages \cup DeleteStages /\ req[w].at # "idle"
    BY <1>2 DEF TakeId, CreateStages
  <2> QED
    BY <1>2, <2>1, GoEffect DEF TakeId, TypeOK, Named
<1>3. ASSUME NEW w \in Worker, ReadGreatest(w) PROVE TN'
  BY <1>3, GreatestEffect DEF ReadGreatest, TypeOK, Named, numbers
<1>4. ASSUME NEW w \in Worker, AddId(w) PROVE TN'
  BY <1>4, GoEffect DEF AddId, Room, TypeOK, Named, CreateStages
<1>5. ASSUME NEW w \in Worker, InsertEvent(w) PROVE TN'
  <2>1. <<req[w].id, req[w].name>> \in Pairs
    BY <1>5 DEF InsertEvent, Named, TypeOK, Request, Pairs
  <2> QED
    BY <1>5, <2>1, EndEffect DEF InsertEvent, TypeOK, Named, numbers
<1>6. ASSUME NEW w \in Worker, Conflict(w) \/ Abort(w) PROVE TN'
  BY <1>6, EndEffect DEF Conflict, Abort, TypeOK, Named, numbers
<1>7. ASSUME NEW w \in Worker, NEW e \in events, BeginDelete(w, e) PROVE TN'
  <2>1. Begin(w, "tickets", e[1], e[2]) /\ "tickets" \in CreateStages \cup DeleteStages
    BY <1>7 DEF BeginDelete, DeleteStages
  <2>2. e[1] \in Nat /\ e[2] \in Name
    BY EventPair
  <2> QED
    BY <1>7, <2>1, <2>2, BeginEffect DEF BeginDelete, TypeOK, Named, numbers
<1>8. ASSUME NEW w \in Worker, CleanTickets(w) \/ CleanRegs(w) \/ DeleteRow(w) PROVE TN'
  <2>1. \E stage \in DeleteStages : Go(w, stage)
    BY <1>8 DEF CleanTickets, CleanRegs, DeleteRow, DeleteStages
  <2>2. req[w].at # "idle"
    BY <1>8 DEF CleanTickets, CleanRegs, DeleteRow
  <2> QED
    BY <1>8, <2>1, <2>2, GoEffect DEF CleanTickets, CleanRegs, DeleteRow, TypeOK, Named, numbers, Of
<1>9. ASSUME NEW w \in Worker, GiveUp(w) PROVE TN'
  <2>1. <<req[w].at, req[w].id>> \in {"tickets", "regs"} \X Nat
    BY <1>9 DEF GiveUp, TypeOK, Request
  <2> QED
    BY <1>9, <2>1, EndEffect DEF GiveUp, TypeOK, Named, numbers
<1>10. ASSUME NEW w \in Worker, Release(w) PROVE TN'
  <2>1. req[w].id \in ids
    BY <1>10 DEF Release, KnownIds, DeleteStages
  <2> QED
    BY <1>10, <2>1, EndEffect DEF Release, TypeOK, Named
<1>11. ASSUME NEW c \in late, CleanLate(c) PROVE TN'
  BY <1>11 DEF CleanLate, TypeOK, Named, numbers, Of
<1>12. ASSUME NEW c \in Client, NEW e \in events \cup regs, ReadEvent(c, e) \/ Promote(c, e)
       PROVE  TN'
  BY <1>12, EventPair DEF ReadEvent, Promote, TypeOK, Named, Reading, numbers
<1>13. ASSUME NEW c \in Client, Book(c) \/ IssueTicket(c) \/ Leave(c) PROVE TN'
  <2>1. seen[c].at # "idle" => <<seen[c].id, seen[c].name>> \in Pairs
    BY DEF Named, TypeOK, Reading, Pairs
  <2> QED
    BY <1>13, <2>1 DEF Book, IssueTicket, Leave, TypeOK, Named, Reading, Idle, numbers
<1> QED
  BY StepCases, <1>1, <1>2, <1>3, <1>4, <1>5, <1>6, <1>7, <1>8, <1>9, <1>10, <1>11, <1>12, <1>13

\* Steps that add no id and let no further request add one.
LEMMA RoomKept ==
  ASSUME Room, ids' = ids,
         \A w \in Worker : req'[w].at \in {"grow", "add"} =>
                             req'[w].at = req[w].at /\ req'[w].id = req[w].id
  PROVE  Room'
<1>1. PICK n \in Nat : /\ ids = 1..n
                       /\ n + Cardinality(Growing) <= IdLimit + Cardinality(Worker)
                       /\ \A w \in Worker : /\ req[w].at = "grow" => n > 0
                                            /\ req[w].at = "add" => req[w].id \in 1..(n + 1)
  BY DEF Room
<1>2. Growing' \subseteq Growing
  BY DEF Growing
<1>3. Cardinality(Growing') <= Cardinality(Growing) /\ Cardinality(Growing') \in Nat
      /\ Cardinality(Growing) \in Nat /\ Cardinality(Worker) \in Nat
  BY <1>2, SlotsAreFinite, FS_Subset DEF Growing
<1>4. n + Cardinality(Growing') <= IdLimit + Cardinality(Worker)
  BY <1>1, <1>3, IdLimitAssumption
<1> QED
  BY <1>1, <1>4 DEF Room

LEMMA RoomStep ==
  ASSUME IInv, Step
  PROVE  Room'
<1> USE IdLimitAssumption DEF IInv
<1>0. PICK n \in Nat : /\ ids = 1..n
                       /\ n + Cardinality(Growing) <= IdLimit + Cardinality(Worker)
                       /\ \A w \in Worker : /\ req[w].at = "grow" => n > 0
                                            /\ req[w].at = "add" => req[w].id \in 1..(n + 1)
  BY DEF Room
<1>a. Growing \subseteq Worker /\ Growing' \subseteq Worker
  BY DEF Growing
<1>b. /\ Cardinality(Worker) \in Nat /\ Cardinality(ids) = n
      /\ IsFiniteSet(Growing) /\ Cardinality(Growing) \in Nat
      /\ Cardinality(Growing') \in Nat /\ Cardinality(Growing') <= Cardinality(Worker)
  BY <1>0, <1>a, SlotsAreFinite, SizeOfInterval
<1>1. ASSUME NEW w \in Worker, NEW m \in Name, BeginCreate(w, m) PROVE Room'
  <2>1. CASE \E i \in free : Begin(w, "take", i, m)
    <3>1. PICK i \in free : Begin(w, "take", i, m)
      BY <2>1
    <3>2. i \in Nat /\ "take" \in CreateStages \cup DeleteStages
      BY DEF TypeOK, CreateStages
    <3> QED
      BY <1>1, <3>1, <3>2, BeginEffect, RoomKept DEF BeginCreate, numbers
  <2>2. CASE ids = {} /\ Begin(w, "add", FirstId, m)
    <3>1. req'[w].at = "add" /\ req'[w].id = 1 /\ \A v \in Worker \ {w} : req'[v] = req[v]
      BY <2>2, BeginEffect DEF CreateStages, FirstId
    <3>2. n = 0 /\ ids' = ids
      BY <1>0, <1>1, <2>2 DEF BeginCreate, numbers
    <3> QED
      BY <1>0, <1>b, <3>1, <3>2 DEF Room
  <2>3. CASE ids # {} /\ MayGrow(Cardinality(ids)) /\ Begin(w, "grow", 0, m)
    <3>1. req'[w].at = "grow" /\ \A v \in Worker \ {w} : req'[v] = req[v]
      BY <2>3, BeginEffect DEF CreateStages
    <3>2. n > 0 /\ n <= IdLimit /\ ids' = ids
      BY <1>0, <1>1, <1>b, <2>3 DEF BeginCreate, numbers, MayGrow
    <3> QED
      BY <1>0, <1>b, <3>1, <3>2 DEF Room
  <2> QED
    BY <1>1, <2>1, <2>2, <2>3 DEF BeginCreate
<1>2. ASSUME NEW w \in Worker, ReadGreatest(w) PROVE Room'
  <2>1. PICK k \in Nat : /\ ids = 1..k /\ req'[w].at = "add" /\ req'[w].id = k + 1
                         /\ \A v \in Worker \ {w} : req'[v] = req[v]
    BY <1>2, GreatestEffect
  <2>2. k = n /\ ids' = ids /\ req[w].at = "grow"
    BY <1>0, <1>2, <1>b, <2>1, SizeOfInterval DEF ReadGreatest, numbers
  <2>3. Growing' = Growing
    BY <2>1, <2>2 DEF Growing
  <2> QED
    BY <1>0, <2>1, <2>2, <2>3 DEF Room
<1>3. ASSUME NEW w \in Worker, AddId(w) PROVE Room'
  <2>1. Go(w, "insert") /\ "insert" \in CreateStages
    BY <1>3 DEF AddId, CreateStages
  <2>2. req'[w].at = "insert" /\ \A v \in Worker \ {w} : req'[v] = req[v]
    BY <2>1, GoEffect
  <2>3. req[w].id = n + 1 /\ ids' = 1..(n + 1)
    BY <1>0, <1>3 DEF AddId
  <2>4. Growing' = Growing \ {w} /\ w \in Growing
    BY <1>3, <2>2 DEF Growing, AddId
  <2>5. Cardinality(Growing') = Cardinality(Growing) - 1
    BY <1>b, <2>4, FS_RemoveElement
  <2>6. (n + 1) + Cardinality(Growing') <= IdLimit + Cardinality(Worker) /\ n + 1 \in Nat
    BY <1>0, <1>b, <2>5
  <2>7. \A v \in Worker : /\ req'[v].at = "grow" => n + 1 > 0
                          /\ req'[v].at = "add" => req'[v].id \in 1..((n + 1) + 1)
    BY <1>0, <2>2
  <2> QED
    BY <2>3, <2>6, <2>7 DEF Room
<1>4. ASSUME NEW w \in Worker, NEW stage \in {"insert", "regs", "row", "release"},
             Go(w, stage), ids' = ids
      PROVE  Room'
  BY <1>4, GoEffect, RoomKept DEF CreateStages, DeleteStages
<1>5. ASSUME NEW w \in Worker, End(w), ids' = ids PROVE Room'
  BY <1>5, EndEffect, RoomKept
<1>6. ASSUME NEW w \in Worker, NEW e \in events, BeginDelete(w, e) PROVE Room'
  <2>1. e[1] \in Nat /\ e[2] \in Name /\ "tickets" \in CreateStages \cup DeleteStages
    BY EventPair DEF DeleteStages
  <2> QED
    BY <1>6, <2>1, BeginEffect, RoomKept DEF BeginDelete, numbers
<1>7. ASSUME NEW w \in Worker, Release(w) PROVE ids' = ids
  BY <1>7 DEF Release, KnownIds, DeleteStages
<1>8. ASSUME req' = req, ids' = ids PROVE Room'
  BY <1>8, RoomKept
<1>9. ASSUME NEW w \in Worker,
             \/ TakeId(w) \/ InsertEvent(w) \/ Conflict(w) \/ CleanTickets(w) \/ CleanRegs(w)
             \/ GiveUp(w) \/ DeleteRow(w) \/ Release(w) \/ Abort(w)
      PROVE  Room'
  BY <1>4, <1>5, <1>7, <1>9 DEF TakeId, InsertEvent, Conflict, CleanTickets, CleanRegs, GiveUp,
     DeleteRow, Release, Abort, numbers
<1>10. ASSUME \/ \E c \in late : CleanLate(c)
              \/ \E c \in Client : \/ \E e \in events : ReadEvent(c, e)
                                   \/ \E e \in regs : Promote(c, e)
                                   \/ Book(c) \/ IssueTicket(c) \/ Leave(c)
       PROVE  Room'
  BY <1>8, <1>10 DEF CleanLate, ReadEvent, Promote, Book, IssueTicket, Leave, numbers
<1> QED
  BY StepCases, <1>1, <1>2, <1>3, <1>6, <1>9, <1>10

LEMMA KnownIdsStep ==
  ASSUME IInv, Step
  PROVE  KnownIds'
<1> USE DEF IInv
<1>1. ASSUME NEW w \in Worker, NEW n \in Name, BeginCreate(w, n) PROVE KnownIds'
  <2>1. PICK stage \in CreateStages, i \in Nat :
          Begin(w, stage, i, n) /\ (stage = "take" => i \in ids) /\ stage # "insert"
    BY <1>1 DEF BeginCreate, FirstId, CreateStages, TypeOK
  <2>2. req'[w].at = stage /\ req'[w].id = i /\ \A v \in Worker \ {w} : req'[v] = req[v]
    BY <2>1, BeginEffect
  <2> QED
    BY <1>1, <2>1, <2>2 DEF BeginCreate, KnownIds, numbers, CreateStages, DeleteStages
<1>2. ASSUME NEW w \in Worker, ReadGreatest(w) PROVE KnownIds'
  BY <1>2, GreatestEffect DEF ReadGreatest, KnownIds, numbers, DeleteStages
<1>3. ASSUME NEW w \in Worker, NEW stage \in {"insert", "regs", "row", "release"},
             Go(w, stage), req[w].id \in ids', ids \subseteq ids', events' \subseteq events
      PROVE  KnownIds'
  <2>1. stage \in CreateStages \cup DeleteStages
    BY DEF CreateStages, DeleteStages
  <2> QED
    BY <1>3, <2>1, GoEffect DEF KnownIds
<1>4. ASSUME NEW w \in Worker, TakeId(w) \/ AddId(w) \/ CleanTickets(w) \/ CleanRegs(w) \/ DeleteRow(w)
      PROVE  KnownIds'
  <2>1. ids \subseteq ids' /\ events' \subseteq events /\ req[w].id \in ids'
    BY <1>4 DEF TakeId, AddId, CleanTickets, CleanRegs, DeleteRow, KnownIds, DeleteStages, numbers
  <2>2. \E stage \in {"insert", "regs", "row", "release"} : Go(w, stage)
    BY <1>4 DEF TakeId, AddId, CleanTickets, CleanRegs, DeleteRow
  <2> QED
    BY <1>3, <2>1, <2>2
<1>5. ASSUME NEW w \in Worker, InsertEvent(w) \/ Conflict(w) \/ GiveUp(w) \/ Release(w) \/ Abort(w)
      PROVE  KnownIds'
  <2>1. /\ ids \subseteq ids' /\ \A e \in events' : e[1] \in ids'
        /\ End(w)
    BY <1>5 DEF InsertEvent, Conflict, GiveUp, Release, Abort, KnownIds, numbers
  <2> QED
    BY <2>1, EndEffect DEF KnownIds, DeleteStages
<1>6. ASSUME NEW w \in Worker, NEW e \in events, BeginDelete(w, e) PROVE KnownIds'
  <2>1. e[1] \in Nat /\ e[2] \in Name /\ "tickets" \in CreateStages \cup DeleteStages /\ e[1] \in ids
    BY EventPair DEF DeleteStages, KnownIds
  <2> QED
    BY <1>6, <2>1, BeginEffect DEF BeginDelete, KnownIds, numbers
<1>7. ASSUME \/ \E c \in late : CleanLate(c)
             \/ \E c \in Client : \/ \E e \in events : ReadEvent(c, e)
                                  \/ \E e \in regs : Promote(c, e)
                                  \/ Book(c) \/ IssueTicket(c) \/ Leave(c)
      PROVE  KnownIds'
  BY <1>7 DEF CleanLate, ReadEvent, Promote, Book, IssueTicket, Leave, numbers, KnownIds
<1> QED
  BY StepCases, <1>1, <1>2, <1>4, <1>5, <1>6, <1>7

\* As long as nothing clashes, the request that works on an id is the only one, and
\* what it has cleaned up or reserved stays so until it is done.
LEMMA UndisturbedStep ==
  ASSUME IInv, Step, clashed' = (clashed \/ Clash')
  PROVE  Undisturbed'
<1> USE DEF IInv
<1> DEFINE Good == Reserved /\ Cleaned /\ EventKeepsId /\ NothingOrphaned
<1> SUFFICES ASSUME ~clashed'
             PROVE  Good'
  BY DEF Undisturbed
<1>0. ~clashed /\ ~Clash /\ Good /\ \A e \in events : e[1] \in ids \ free
  BY DEF Undisturbed, EventKeepsId
<1>a. \A v, w \in Worker : v # w /\ req[w].at \in DeleteStages => req[v].id # req[w].id
  BY <1>0 DEF Clash
<1>b. \A w \in Worker, c \in late : req[w].at \in CreateStages => req[w].id # c[2]
  BY <1>0 DEF Clash
<1>c. \A c \in Client : seen[c].at # "idle" =>
        /\ \A w \in Worker : req[w].at \in DeleteStages => req[w].id # seen[c].id
        /\ \A l \in late : l[2] # seen[c].id
  BY <1>0 DEF Clash, Deletes, Idle
<1>d. tickets \subseteq regs /\ regs \subseteq events
  BY <1>0 DEF NothingOrphaned
\* Steps that only move a request on, to a stage that promises nothing new.
<1>e. ASSUME UNCHANGED <<numbers, events, regs, tickets, late, seen>>,
             \A w \in Worker : \/ req'[w].at \in {"idle", "take", "grow", "add", "tickets"}
                               \/ req'[w] = req[w]
      PROVE  Good'
  <2>1. Reserved'
    BY <1>0, <1>e DEF Reserved, Of, numbers
  <2>2. Cleaned'
    BY <1>0, <1>e DEF Cleaned, Of
  <2> QED
    BY <1>0, <1>e, <2>1, <2>2 DEF EventKeepsId, NothingOrphaned, numbers
<1>1. ASSUME NEW w \in Worker, NEW n \in Name, BeginCreate(w, n) PROVE Good'
  <2>1. PICK stage \in {"take", "add", "grow"}, i \in Nat : Begin(w, stage, i, n)
    BY <1>1 DEF BeginCreate, FirstId, TypeOK
  <2>2. req'[w].at = stage /\ \A v \in Worker \ {w} : req'[v] = req[v]
    BY <2>1, BeginEffect DEF CreateStages
  <2> QED
    BY <1>1, <1>e, <2>2 DEF BeginCreate
<1>2. ASSUME NEW w \in Worker, ReadGreatest(w) PROVE Good'
  BY <1>2, <1>e, GreatestEffect DEF ReadGreatest
<1>3. ASSUME NEW w \in Worker, Conflict(w) \/ Abort(w) PROVE Good'
  BY <1>3, <1>e, EndEffect DEF Conflict, Abort
<1>4. ASSUME NEW w \in Worker, NEW e \in events, BeginDelete(w, e) PROVE Good'
  <2>1. e[1] \in Nat /\ e[2] \in Name /\ "tickets" \in CreateStages \cup DeleteStages
    BY EventPair DEF DeleteStages
  <2> QED
    BY <1>4, <1>e, <2>1, BeginEffect DEF BeginDelete
\* A creation has its id.
<1>5. ASSUME NEW w \in Worker, TakeId(w) \/ AddId(w) PROVE Good'
  <2>1. /\ req'[w].at = "insert" /\ req'[w].id = req[w].id
        /\ \A v \in Worker \ {w} : req'[v] = req[v]
    BY <1>5, GoEffect DEF TakeId, AddId, CreateStages
  <2>2. /\ UNCHANGED <<events, regs, tickets, late, seen>>
        /\ free' \subseteq free /\ ids \subseteq ids' /\ req[w].id \notin free'
    BY <1>5 DEF TakeId, AddId, TypeOK
  <2>3. Reserved'
    BY <1>0, <2>1, <2>2 DEF Reserved, Of
  <2>4. Cleaned'
    BY <1>0, <2>1, <2>2 DEF Cleaned, Of
  <2> QED
    BY <1>0, <1>d, <2>2, <2>3, <2>4 DEF EventKeepsId, NothingOrphaned
<1>6. ASSUME NEW w \in Worker, InsertEvent(w) PROVE Good'
  <2>1. req'[w].at = "idle" /\ \A v \in Worker \ {w} : req'[v] = req[v]
    BY <1>6, EndEffect DEF InsertEvent
  <2>2. /\ UNCHANGED <<numbers, regs, tickets, late, seen>>
        /\ events' = events \cup {<<req[w].id, req[w].name>>}
        /\ req[w].at = "insert"
    BY <1>6 DEF InsertEvent
  <2>3. req[w].id \in ids \ free
    BY <1>0, <2>2 DEF Reserved, KnownIds
  <2>4. Reserved'
    BY <1>0, <1>a, <2>1, <2>2 DEF Reserved, Of, numbers, DeleteStages
  <2>5. Cleaned'
    BY <1>0, <2>1, <2>2 DEF Cleaned, Of
  <2>6. EventKeepsId'
    BY <1>0, <2>2, <2>3 DEF EventKeepsId, numbers
  <2> QED
    BY <1>d, <2>2, <2>4, <2>5, <2>6 DEF NothingOrphaned
\* A deletion cleans up, and what it has cleaned before stays clean.
<1>7. ASSUME NEW w \in Worker, CleanTickets(w) PROVE Good'
  <2>1. /\ req'[w].at = "regs" /\ req'[w].id = req[w].id
        /\ \A v \in Worker \ {w} : req'[v] = req[v]
    BY <1>7, GoEffect DEF CleanTickets, DeleteStages
  <2>2. /\ UNCHANGED <<numbers, events, regs, late, seen>>
        /\ tickets' = tickets \ Of(tickets, req[w].id)
    BY <1>7 DEF CleanTickets
  <2>3. Reserved'
    BY <1>0, <2>1, <2>2 DEF Reserved, Of, numbers
  <2>4. Cleaned'
    BY <1>0, <2>1, <2>2 DEF Cleaned, Of
  <2> QED
    BY <1>0, <1>d, <2>2, <2>3, <2>4 DEF EventKeepsId, NothingOrphaned, numbers
<1>8. ASSUME NEW w \in Worker, CleanRegs(w) PROVE Good'
  <2>1. /\ req'[w].at = "row" /\ req'[w].id = req[w].id
        /\ \A v \in Worker \ {w} : req'[v] = req[v]
    BY <1>8, GoEffect DEF CleanRegs, DeleteStages
  <2>2. /\ UNCHANGED <<numbers, events, tickets, late, seen>>
        /\ regs' = regs \ Of(regs, req[w].id) /\ req[w].at = "regs"
    BY <1>8 DEF CleanRegs
  <2>3. Of(tickets, req[w].id) = {}
    BY <1>0, <2>2 DEF Cleaned
  <2>4. Reserved'
    BY <1>0, <2>1, <2>2 DEF Reserved, Of, numbers
  <2>5. \A c \in Client : seen[c].at # "idle" => req[w].id # seen[c].id
    BY <1>c, <2>2 DEF DeleteStages
  <2>6. Cleaned'
    BY <1>0, <2>1, <2>2, <2>3, <2>5 DEF Cleaned, Of
  <2> QED
    BY <1>0, <1>d, <2>2, <2>3, <2>4, <2>6 DEF EventKeepsId, NothingOrphaned, Of, numbers
<1>9. ASSUME NEW w \in Worker, GiveUp(w) PROVE Good'
  <2>1. req'[w].at = "idle" /\ \A v \in Worker \ {w} : req'[v] = req[v]
    BY <1>9, EndEffect DEF GiveUp
  <2>2. /\ UNCHANGED <<numbers, events, regs, tickets, seen>>
        /\ late' = late \cup {<<req[w].at, req[w].id>>}
    BY <1>9 DEF GiveUp
  <2>3. req[w].at = "regs" => Of(tickets, req[w].id) = {}
    BY <1>0 DEF Cleaned
  <2>4. Reserved'
    BY <1>0, <2>1, <2>2 DEF Reserved, Of, numbers
  <2>5. Cleaned'
    BY <1>0, <2>1, <2>2, <2>3 DEF Cleaned, Of
  <2> QED
    BY <1>0, <1>d, <2>2, <2>4, <2>5 DEF EventKeepsId, NothingOrphaned, numbers
<1>10. ASSUME NEW l \in late, CleanLate(l) PROVE Good'
  <2>1. UNCHANGED <<numbers, events, req, seen>> /\ late' \subseteq late
    BY <1>10 DEF CleanLate
  <2>2. /\ l[1] \in {"tickets", "regs"}
        /\ l[1] = "regs" => Of(tickets, l[2]) = {}
    <3>1. l \in {"tickets", "regs"} \X Nat
      BY DEF TypeOK
    <3>2. l = <<l[1], l[2]>> /\ l[2] \in Nat /\ l[1] \in {"tickets", "regs"}
      BY <3>1
    <3>3. l[1] = "regs" => <<"regs", l[2]>> \in late
      BY <3>2
    <3>4. \A i \in Nat : <<"regs", i>> \in late => Of(tickets, i) = {}
      BY <1>0 DEF Cleaned
    <3> QED
      BY <3>2, <3>3, <3>4
  <2>3. tickets' \subseteq tickets /\ regs' \subseteq regs
    BY <1>10 DEF CleanLate
  <2>4. tickets' \subseteq regs'
    BY <1>10, <1>d, <2>2 DEF CleanLate, Of
  <2>5. \A c \in Client : seen[c].at = "booked" => <<seen[c].id, seen[c].name>> \in regs'
    <3>1. ASSUME NEW c \in Client, seen[c].at = "booked"
          PROVE  <<seen[c].id, seen[c].name>> \in regs /\ l[2] # seen[c].id
      BY <1>0, <1>c, <3>1 DEF Cleaned
    <3> QED
      BY <1>10, <3>1 DEF CleanLate, Of
  <2>6. Reserved'
    BY <1>0, <2>1 DEF Reserved, Of, numbers
  <2>7. Cleaned'
    BY <1>0, <2>1, <2>3, <2>5 DEF Cleaned, Of
  <2> QED
    BY <1>0, <1>d, <2>1, <2>3, <2>4, <2>6, <2>7 DEF EventKeepsId, NothingOrphaned, numbers
<1>11. ASSUME NEW w \in Worker, DeleteRow(w) PROVE Good'
  <2>1. /\ req'[w].at = "release" /\ req'[w].id = req[w].id
        /\ \A v \in Worker \ {w} : req'[v] = req[v]
    BY <1>11, GoEffect DEF DeleteRow, DeleteStages
  <2>2. /\ UNCHANGED <<numbers, regs, tickets, late, seen>>
        /\ events' = events \ Of(events, req[w].id) /\ req[w].at = "row"
    BY <1>11 DEF DeleteRow
  <2>3. Of(regs, req[w].id) = {}
    BY <1>0, <2>2 DEF Cleaned
  <2>4. \A c \in Client : seen[c].at # "idle" => req[w].id # seen[c].id
    BY <1>c, <2>2 DEF DeleteStages
  <2>5. Reserved'
    BY <1>0, <2>1, <2>2 DEF Reserved, Of, numbers
  <2>6. Cleaned'
    BY <1>0, <2>1, <2>2, <2>4 DEF Cleaned, Of
  <2> QED
    BY <1>0, <1>d, <2>2, <2>3, <2>5, <2>6 DEF EventKeepsId, NothingOrphaned, Of, numbers
<1>12. ASSUME NEW w \in Worker, Release(w) PROVE Good'
  <2>1. req'[w].at = "idle" /\ \A v \in Worker \ {w} : req'[v] = req[v]
    BY <1>12, EndEffect DEF Release
  <2>2. /\ UNCHANGED <<events, regs, tickets, late, seen>>
        /\ free' = free \cup {req[w].id} /\ ids \subseteq ids' /\ req[w].at = "release"
    BY <1>12 DEF Release
  <2>3. \A e \in events : e[1] # req[w].id
    BY <1>0, <2>2 DEF Reserved, Of
  <2>4. \A v \in Worker \ {w} : req[v].id # req[w].id
    BY <1>a, <2>2 DEF DeleteStages
  <2>5. Reserved'
    BY <1>0, <2>1, <2>2, <2>4 DEF Reserved, Of
  <2>6. Cleaned'
    BY <1>0, <2>1, <2>2 DEF Cleaned, Of
  <2> QED
    BY <1>0, <1>d, <2>2, <2>3, <2>5, <2>6 DEF EventKeepsId, NothingOrphaned
\* A registration in progress: no deletion of its event is.
<1>13. ASSUME UNCHANGED <<numbers, events, req, late>>, regs \subseteq regs',
              tickets' \subseteq regs', regs' \subseteq events,
              \A e \in (tickets' \ tickets) \cup (regs' \ regs) :
                /\ \A w \in Worker : req[w].at \in DeleteStages => req[w].id # e[1]
                /\ \A l \in late : l[2] # e[1],
              \A c \in Client : seen'[c].at # "idle" => <<seen'[c].id, seen'[c].name>> \in regs'
                                                        \/ /\ seen'[c].at = "read"
                                                           /\ <<seen'[c].id, seen'[c].name>> \in events
       PROVE  Good'
  <2>1. Reserved'
    BY <1>0, <1>13 DEF Reserved, Of, numbers
  <2>2. Cleaned'
    BY <1>0, <1>13 DEF Cleaned, Of, DeleteStages
  <2> QED
    BY <1>0, <1>13, <2>1, <2>2 DEF EventKeepsId, NothingOrphaned, numbers
<1>f. \A c \in Client : seen[c].at # "idle" => <<seen[c].id, seen[c].name>> \in regs
                                               \/ /\ seen[c].at = "read"
                                                  /\ <<seen[c].id, seen[c].name>> \in events
  BY <1>0 DEF Cleaned, TypeOK, Reading
<1>14. ASSUME NEW c \in Client, NEW e \in events, ReadEvent(c, e) PROVE Good'
  <2>1. <<e[1], e[2]>> \in events
    BY EventPair
  <2>2. /\ seen'[c].at = "read" /\ seen'[c].id = e[1] /\ seen'[c].name = e[2]
        /\ \A d \in Client \ {c} : seen'[d] = seen[d]
    BY <1>14 DEF ReadEvent, TypeOK
  <2> QED
    BY <1>d, <1>f, <1>13, <1>14, <2>1, <2>2 DEF ReadEvent
<1>15. ASSUME NEW c \in Client, NEW e \in regs, Promote(c, e) PROVE Good'
  <2>1. <<e[1], e[2]>> \in regs
    BY EventPair
  <2>2. /\ seen'[c].at = "booked" /\ seen'[c].id = e[1] /\ seen'[c].name = e[2]
        /\ \A d \in Client \ {c} : seen'[d] = seen[d]
    BY <1>15 DEF Promote, TypeOK
  <2> QED
    BY <1>d, <1>f, <1>13, <1>15, <2>1, <2>2 DEF Promote
<1>16. ASSUME NEW c \in Client, Book(c) PROVE Good'
  <2> DEFINE e == <<seen[c].id, seen[c].name>>
  <2>1. seen[c].at = "read" /\ e \in events /\ e[1] = seen[c].id
    BY <1>0, <1>16 DEF Book, Cleaned
  <2>2. /\ seen'[c].at = "booked" /\ seen'[c].id = seen[c].id /\ seen'[c].name = seen[c].name
        /\ \A d \in Client \ {c} : seen'[d] = seen[d]
    BY <1>16 DEF Book, TypeOK, Reading
  <2>3. regs' = regs \cup {e} /\ UNCHANGED <<numbers, events, tickets, req, late>>
    BY <1>16 DEF Book
  <2>4. /\ \A w \in Worker : req[w].at \in DeleteStages => req[w].id # e[1]
        /\ \A l \in late : l[2] # e[1]
    BY <1>c, <2>1
  <2>5. \A d \in Client : seen'[d].at # "idle" => <<seen'[d].id, seen'[d].name>> \in regs'
                                                  \/ /\ seen'[d].at = "read"
                                                     /\ <<seen'[d].id, seen'[d].name>> \in events
    BY <1>f, <2>2, <2>3
  <2> QED
    BY <1>d, <1>13, <2>1, <2>3, <2>4, <2>5
<1>17. ASSUME NEW c \in Client, IssueTicket(c) PROVE Good'
  <2> DEFINE e == <<seen[c].id, seen[c].name>>
  <2>1. seen[c].at = "booked" /\ e \in regs /\ e[1] = seen[c].id
    BY <1>0, <1>17 DEF IssueTicket, Cleaned
  <2>2. seen'[c].at = "idle" /\ \A d \in Client \ {c} : seen'[d] = seen[d]
    BY <1>17 DEF IssueTicket, TypeOK, Idle
  <2>3. tickets' = tickets \cup {e} /\ UNCHANGED <<numbers, events, regs, req, late>>
    BY <1>17 DEF IssueTicket
  <2>4. /\ \A w \in Worker : req[w].at \in DeleteStages => req[w].id # e[1]
        /\ \A l \in late : l[2] # e[1]
    BY <1>c, <2>1
  <2>5. \A d \in Client : seen'[d].at # "idle" => <<seen'[d].id, seen'[d].name>> \in regs'
                                                  \/ /\ seen'[d].at = "read"
                                                     /\ <<seen'[d].id, seen'[d].name>> \in events
    BY <1>f, <2>2, <2>3
  <2> QED
    BY <1>d, <1>13, <2>1, <2>3, <2>4, <2>5
<1>18. ASSUME NEW c \in Client, Leave(c) PROVE Good'
  <2>1. seen'[c].at = "idle" /\ \A d \in Client \ {c} : seen'[d] = seen[d]
    BY <1>18 DEF Leave, TypeOK, Idle
  <2> QED
    BY <1>d, <1>f, <1>13, <1>18, <2>1 DEF Leave
<1> QED
  BY StepCases, <1>1, <1>2, <1>3, <1>4, <1>5, <1>6, <1>7, <1>8, <1>9, <1>10, <1>11, <1>12,
     <1>14, <1>15, <1>16, <1>17, <1>18

----------------------------------------------------------------------------
LEMMA IInvStep == ASSUME IInv, [Next]_vars PROVE IInv'
<1>1. CASE Next
  <2>1. Step /\ clashed' = (clashed \/ Clash')
    BY <1>1 DEF Next
  <2>2. clashed' \in BOOLEAN
    BY <2>1
  <2> QED
    BY <2>1, <2>2, TypeStep, RoomStep, KnownIdsStep, UndisturbedStep DEF IInv
<1>2. CASE UNCHANGED vars
  BY <1>2 DEF vars, numbers, IInv, TypeOK, Named, Room, Growing, KnownIds, Undisturbed, Clash,
     Deletes, Reserved, Cleaned, EventKeepsId, NothingOrphaned
<1> QED
  BY <1>1, <1>2

LEMMA Invariance == Spec => []IInv
<1>1. Init => IInv
  BY IInvInit
<1>2. IInv /\ [Next]_vars => IInv'
  BY IInvStep
<1> QED
  BY <1>1, <1>2, PTL DEF Spec

\* Tables and requests stay in their domains.
THEOREM TypeCorrect == Spec => []TypeOK
<1>1. IInv => TypeOK
  BY DEF IInv
<1> QED
  BY <1>1, Invariance, PTL

\* The ids have no gaps, whichever creations overlap, and overlapping creations exceed
\* the limit by at most one id each.
THEOREM NoGapsInIds == Spec => []IdsDense
<1>1. ASSUME IInv PROVE IdsDense
  <2>1. PICK n \in Nat : ids = 1..n /\ n + Cardinality(Growing) <= IdLimit + Cardinality(Worker)
    BY <1>1 DEF IInv, Room
  <2>2. Cardinality(Growing) \in Nat /\ Cardinality(Worker) \in Nat /\ Cardinality(ids) = n
    BY <2>1, SlotsAreFinite, SizeOfInterval DEF Growing
  <2> QED
    BY <2>1, <2>2, IdLimitAssumption DEF IdsDense
<1> QED
  BY <1>1, Invariance, PTL

\* An event whose deletion nothing overlaps keeps its id to itself.
THEOREM EventsKeepTheirIds == Spec => []EventKeepsId
<1>1. IInv => EventKeepsId
  BY DEF IInv, Undisturbed, EventKeepsId
<1> QED
  BY <1>1, Invariance, PTL

\* A deletion that nothing overlaps leaves nothing behind, wherever it stops.
THEOREM DeletionsLeaveNothing == Spec => []NothingOrphaned
<1>1. IInv => NothingOrphaned
  BY DEF IInv, Undisturbed, NothingOrphaned
<1> QED
  BY <1>1, Invariance, PTL
=============================================================================
