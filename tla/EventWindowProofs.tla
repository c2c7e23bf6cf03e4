------------------------- MODULE EventWindowProofs -------------------------
(* Proofs about EventWindow. *)
EXTENDS EventWindow, TLAPS

(* Types: what a request is about to write fits its columns.                *)

ReqTypes ==
  /\ req = [w \in Worker \cup Job |-> req[w]]
  /\ \A w \in Worker \cup Job : /\ req[w].at \in {"idle", "patch", "item", "patched", "status"}
                              /\ Typed(req[w].write)

CacheTypes ==
  /\ cache # None => cache.info \in EventInfo /\ cache.until \in 0..(MaxNow + TTL)
  /\ ask = [c \in Client |-> ask[c]]
  /\ \A c \in Client : /\ ask[c].at \in {"idle", "begun", "asked"}
                       /\ ask[c].since \in 0..now /\ ask[c].asof \in 0..now
                       /\ ask[c].at = "asked" => ask[c].info \in EventInfo

WindowTypes == now \in 0..MaxNow /\ row \in Row /\ ReqTypes /\ CacheTypes /\ booked \in 0..MaxBooked

LEMMA NothingTyped == Typed(NoWrite) /\ Idle.at = "idle" /\ Idle.write = NoWrite
BY DEF Typed, NoWrite, Idle

LEMMA RowColumns ==
  ASSUME row \in Row
  PROVE  /\ DOMAIN row = Columns /\ row.status \in NotOpen..Ended /\ row.draft \in BOOLEAN
         /\ row.dates \in Dates /\ row.limit \in Limits /\ row.left \in Int
BY DEF Row, Columns

LEMMA ChangedTyped ==
  ASSUME NEW new, Typed(new)
  PROVE  Typed(Changed(new))
<1> DEFINE diff == {c \in DOMAIN new : new[c] # row[c]}
<1>1. Changed(new) = [c \in diff |-> new[c]] /\ diff \subseteq DOMAIN new
  BY DEF Changed
<1> HIDE DEF diff
<1>2. QED
  BY <1>1 DEF Typed

LEMMA AppliedTyped ==
  ASSUME row \in Row, NEW w, Typed(w)
  PROVE  Applied(w) \in Row
<1> DEFINE new(c) == IF c \in DOMAIN w THEN w[c] ELSE row[c]
<1>1. Applied(w) = [c \in Columns |-> new(c)]
  BY RowColumns DEF Applied
<1>2. /\ new("status") \in NotOpen..Ended /\ new("draft") \in BOOLEAN /\ new("dates") \in Dates
      /\ new("limit") \in Limits /\ new("left") \in Int
  BY RowColumns DEF Typed
<1> HIDE DEF new
<1>3. Applied(w) = [status |-> new("status"), draft |-> new("draft"), dates |-> new("dates"),
                    limit |-> new("limit"), left |-> new("left")]
  BY <1>1 DEF Columns
<1>4. QED
  BY <1>2, <1>3 DEF Row

LEMMA PatchTyped ==
  ASSUME row \in Row, NEW p \in Patches
  PROVE  /\ Typed(p)
         /\ "limit" \in DOMAIN p /\ p.limit # None => Typed(WithLeft(p))
<1>1. Typed(p)
  BY PatchAssumption
<1>2. ASSUME "limit" \in DOMAIN p, p.limit # None  PROVE Typed(WithLeft(p))
  <2>1. p.limit \in Int /\ NewLeft(p.limit) \in Int
    BY <1>1, <1>2, LimitAssumption, RowColumns DEF Typed, NewLeft
  <2>2. /\ DOMAIN WithLeft(p) = DOMAIN p \cup {"left"} /\ WithLeft(p).left = NewLeft(p.limit)
        /\ \A c \in DOMAIN p : c # "left" => WithLeft(p)[c] = p[c]
    BY DEF WithLeft
  <2>3. QED
    BY <1>1, <2>1, <2>2 DEF Typed, Columns
<1>3. QED
  BY <1>1, <1>2

LEMMA WindowTypesInit == Init => WindowTypes
<1> SUFFICES ASSUME Init  PROVE WindowTypes
  OBVIOUS
<1>1. PICK s \in NotOpen..Ended, d \in BOOLEAN, t \in Dates, l \in Limits :
        row = [status |-> s, draft |-> d, dates |-> t, limit |-> l, left |-> IF l = None THEN 0 ELSE l]
  BY DEF Init
<1>2. row \in Row
  <2>1. (IF l = None THEN 0 ELSE l) \in Int
    BY LimitAssumption
  <2>2. QED
    BY <1>1, <2>1 DEF Row
<1>3. now = 0 /\ booked = 0 /\ cache = None /\ now \in 0..MaxNow /\ booked \in 0..MaxBooked
  BY BoundAssumption DEF Init
<1>4. ReqTypes
  BY NothingTyped DEF Init, ReqTypes
<1>5. CacheTypes
  BY <1>3 DEF Init, CacheTypes, NoAsk
<1>6. QED
  BY <1>2, <1>3, <1>4, <1>5 DEF WindowTypes

\* What a request has at hand afterwards is typed if what it loads or keeps is.
LEMMA ReqMoves ==
  ASSUME ReqTypes, NEW w \in Worker \cup Job, NEW x, req' = [req EXCEPT ![w] = x],
         x.at \in {"idle", "patch", "item", "patched", "status"}, Typed(x.write)
  PROVE  ReqTypes'
<1>1. req' = [v \in Worker \cup Job |-> req'[v]]
  BY DEF ReqTypes
<1>2. \A v \in Worker \cup Job : req'[v] = IF v = w THEN x ELSE req[v]
  BY DEF ReqTypes
<1>3. \A v \in Worker \cup Job : /\ req'[v].at \in {"idle", "patch", "item", "patched", "status"}
                                /\ Typed(req'[v].write)
  BY <1>2 DEF ReqTypes
<1>4. QED
  BY <1>1, <1>3 DEF ReqTypes, Typed

LEMMA LoadTyped ==
  ASSUME ReqTypes, NEW w \in Worker \cup Job, NEW stage \in {"patch", "item", "status"}, NEW new,
         Typed(new), Load(w, stage, new)
  PROVE  ReqTypes'
<1>1. PICK write : write = Changed(new)
  OBVIOUS
<1>2. req' = [req EXCEPT ![w] = [at |-> stage, write |-> write]]
  BY <1>1 DEF Load
<1>3. Typed(write)
  BY <1>1, ChangedTyped
<1>4. PICK x : x = [at |-> stage, write |-> write]
  OBVIOUS
<1>5. x.at = stage /\ x.write = write /\ req' = [req EXCEPT ![w] = x]
  BY <1>2, <1>4
<1>6. QED
  BY <1>3, <1>5, ReqMoves

LEMMA RequestsTyped ==
  ASSUME WindowTypes, NEW w \in Worker \cup Job, Change(w) \/ Update(w)
  PROVE  WindowTypes'
<1>1. UNCHANGED <<now, cache, ask, booked>>
  BY DEF Change, Update, LoadPatch, LoadItem, SavePatch, LoadStatus, SaveStatus, Stop
<1>2. row \in Row /\ ReqTypes
  BY DEF WindowTypes
<1>3. \A stage \in {"idle", "patched"} : [Idle EXCEPT !.at = stage].at = stage
                                         /\ [Idle EXCEPT !.at = stage].write = NoWrite
  BY DEF Idle
<1>4. row' \in Row /\ ReqTypes'
  <2>1. ASSUME NEW p \in Patches, LoadPatch(w, p)  PROVE row' \in Row /\ ReqTypes'
    <3>1. row' = row /\ (Load(w, "patch", p) \/
            ("limit" \in DOMAIN p /\ p.limit # None /\ Load(w, "patch", WithLeft(p))))
      BY <2>1 DEF LoadPatch
    <3>2. QED
      BY <1>2, <3>1, PatchTyped, LoadTyped
  <2>2. ASSUME NEW p \in Patches, LoadItem(w, p)  PROVE row' \in Row /\ ReqTypes'
    BY <1>2, <2>2, PatchTyped, LoadTyped DEF LoadItem
  <2>3. CASE SavePatch(w)
    <3>1. row' = Applied(req[w].write) /\ Typed(req[w].write)
      BY <1>2, <2>3 DEF SavePatch, ReqTypes
    <3>2. PICK x \in {Idle, [Idle EXCEPT !.at = "patched"]} : req' = [req EXCEPT ![w] = x]
      BY <2>3 DEF SavePatch
    <3>3. x.at \in {"idle", "patched"} /\ x.write = NoWrite
      BY <1>3, NothingTyped
    <3>4. QED
      BY <1>2, <3>1, <3>2, <3>3, AppliedTyped, NothingTyped, ReqMoves
  <2>4. CASE LoadStatus(w)
    <3>1. Typed([status |-> NextStatus(row)])
      <4>1. NextStatus(row) \in NotOpen..Ended
        BY <1>2, RowColumns DEF NextStatus, NotOpen, Registering, Waitlist, Closed, Ended
      <4>2. QED
        BY <4>1 DEF Typed, Columns
    <3>2. row' = row /\ Load(w, "status", [status |-> NextStatus(row)])
      BY <2>4 DEF LoadStatus
    <3> DEFINE new == [status |-> NextStatus(row)]
    <3> HIDE DEF new
    <3>3. QED
      BY <1>2, <3>1, <3>2, LoadTyped
  <2>5. CASE SaveStatus(w)
    <3>1. row' = Applied(req[w].write) /\ Typed(req[w].write) /\ req' = [req EXCEPT ![w] = Idle]
      BY <1>2, <2>5 DEF SaveStatus, ReqTypes
    <3>2. QED
      BY <1>2, <3>1, AppliedTyped, NothingTyped, ReqMoves
  <2>6. CASE Stop(w)
    <3>1. row' = row /\ req' = [req EXCEPT ![w] = Idle]
      BY <2>6 DEF Stop
    <3>2. QED
      BY <1>2, <3>1, NothingTyped, ReqMoves
  <2>7. QED
    BY <2>1, <2>2, <2>3, <2>4, <2>5, <2>6 DEF Change, Update
<1>5. CacheTypes'
  BY <1>1 DEF WindowTypes, CacheTypes
<1>6. QED
  BY <1>1, <1>4, <1>5 DEF WindowTypes

LEMMA InfoTyped == \A r \in Row : Info(r) \in EventInfo /\ Info(r).open = Open(r)
BY DEF Info, EventInfo, Open, Row

LEMMA ChecksTyped ==
  ASSUME WindowTypes, NEW c \in Client, Check(c)
  PROVE  WindowTypes'
<1>1. UNCHANGED <<now, row, req>> /\ now \in 0..MaxNow /\ row \in Row
  BY DEF WindowTypes, Check, Begin, AdmitFromCache, Ask, AdmitFromAnswer, RefuseFromAnswer, Arrives, GiveUp
<1>2. booked' \in 0..MaxBooked
  <2>1. booked \in 0..MaxBooked
    BY DEF WindowTypes
  <2>2. booked' = booked \/ (booked' = booked + 1 /\ booked < MaxBooked)
    BY DEF Check, Begin, AdmitFromCache, Ask, AdmitFromAnswer, RefuseFromAnswer, Admit, GiveUp
  <2>3. QED
    BY <2>1, <2>2, BoundAssumption
<1>3. CASE cache' = cache
  <2>1. PICK a : /\ ask' = [ask EXCEPT ![c] = a]
                 /\ a.at \in {"idle", "begun", "asked"} /\ a.since \in 0..now /\ a.asof \in 0..now
                 /\ a.at = "asked" => a.info \in EventInfo
    <3> DEFINE begun == [NoAsk EXCEPT !.at = "begun", !.since = now]
               asked == [at |-> "asked", since |-> ask[c].since, info |-> Info(row), asof |-> now]
    <3>1. NoAsk.at = "idle" /\ NoAsk.since \in 0..now /\ NoAsk.asof \in 0..now
      BY <1>1, BoundAssumption DEF NoAsk
    <3>2. begun.at = "begun" /\ begun.since \in 0..now /\ begun.asof \in 0..now
      BY <1>1, BoundAssumption DEF NoAsk
    <3>3. asked.at = "asked" /\ asked.since \in 0..now /\ asked.asof \in 0..now
          /\ asked.info \in EventInfo
      BY <1>1, BoundAssumption, InfoTyped DEF WindowTypes, CacheTypes
    <3>4. \/ ask' = [ask EXCEPT ![c] = NoAsk] \/ ask' = [ask EXCEPT ![c] = begun]
          \/ ask' = [ask EXCEPT ![c] = asked]
      BY DEF Check, Begin, AdmitFromCache, Ask, AdmitFromAnswer, RefuseFromAnswer, Arrives, GiveUp
    <3> HIDE DEF begun, asked
    <3>5. QED
      BY <3>1, <3>2, <3>3, <3>4
  <2>2. /\ ask' = [d \in Client |-> ask'[d]]
        /\ \A d \in Client : ask'[d] = IF d = c THEN a ELSE ask[d]
    BY <2>1 DEF WindowTypes, CacheTypes
  <2>3. CacheTypes'
    BY <1>1, <1>3, <2>1, <2>2 DEF WindowTypes, CacheTypes
  <2>4. QED
    BY <1>1, <1>2, <2>3 DEF WindowTypes, ReqTypes
<1>4. CASE Arrives(c)
  <2>1. /\ ask[c].at = "asked" /\ cache' = [info |-> ask[c].info, until |-> now + TTL]
        /\ ask' = [ask EXCEPT ![c] = NoAsk]
    BY <1>4 DEF Arrives
  <2>2. cache'.info \in EventInfo /\ cache'.until \in 0..(MaxNow + TTL)
    BY <1>1, <2>1, BoundAssumption, TimeAssumption DEF WindowTypes, CacheTypes
  <2>3. NoAsk.at = "idle" /\ NoAsk.since \in 0..now /\ NoAsk.asof \in 0..now
    BY <1>1, BoundAssumption DEF NoAsk
  <2>4. /\ ask' = [d \in Client |-> ask'[d]]
        /\ \A d \in Client : ask'[d] = IF d = c THEN NoAsk ELSE ask[d]
    BY <2>1 DEF WindowTypes, CacheTypes
  <2>5. CacheTypes'
    BY <1>1, <2>2, <2>3, <2>4 DEF WindowTypes, CacheTypes
  <2>6. QED
    BY <1>1, <1>2, <2>5 DEF WindowTypes, ReqTypes
<1>5. QED
  BY <1>3, <1>4 DEF Check, Begin, AdmitFromCache, Ask, AdmitFromAnswer, RefuseFromAnswer, GiveUp

LEMMA WindowTypesStep ==
  ASSUME WindowTypes, [Next]_vars
  PROVE  WindowTypes'
<1>1. CASE UNCHANGED vars
  BY <1>1 DEF vars, WindowTypes, ReqTypes, CacheTypes
<1>2. CASE Forget
  BY <1>2 DEF Forget, WindowTypes, ReqTypes, CacheTypes
<1>3. CASE Cancel
  <2>1. booked' \in 0..MaxBooked /\ UNCHANGED <<now, row, req, cache, ask>>
    BY <1>3, BoundAssumption DEF Cancel, WindowTypes
  <2>2. QED
    BY <2>1 DEF WindowTypes, ReqTypes, CacheTypes
<1>4. CASE Tick
  <2>1. now \in 0..MaxNow /\ now' \in 0..MaxNow /\ UNCHANGED <<row, req, cache, ask, booked>>
        /\ \A n \in 0..now : n \in 0..now'
    BY <1>4, BoundAssumption DEF Tick, WindowTypes
  <2>2. QED
    BY <2>1 DEF WindowTypes, ReqTypes, CacheTypes
<1>5. QED
  BY <1>1, <1>2, <1>3, <1>4, RequestsTyped, ChecksTyped DEF Next, Step

\* Columns, requests, the cache and answers stay in their domains, whatever patches of
\* the right types overtake one another.
THEOREM WindowTypeCorrect == Spec => []TypeOK
<1>1. WindowTypes => TypeOK
  BY RowColumns DEF WindowTypes, ReqTypes, CacheTypes, TypeOK, Typed
<1>2. QED
  BY <1>1, WindowTypesInit, WindowTypesStep, PTL DEF Spec

----------------------------------------------------------------------------
(* Recency: how old the offer is that a copy of the row makes.              *)

\* What the copies of the row that make an offer owe to the row: an answer was read, and
\* an entry of the cache was filled, soon enough after the row last made that very offer.
SaidInv ==
  /\ said = [i \in Offer |-> said[i]]
  /\ \A i \in Offer : said[i] \in Int /\ said[i] <= now
  /\ Open(row) => said[Info(row)] = now
  /\ cache # None /\ cache.info.open => cache.until <= said[cache.info] + TTL + HttpTime
  /\ \A c \in Client : ask[c].at = "asked" /\ ask[c].info.open => ask[c].asof <= said[ask[c].info]

LEMMA OfferFacts ==
  /\ \A i \in EventInfo : i.open <=> i \in Offer
  /\ \A r \in Row : Open(r) => Info(r) \in Offer
BY InfoTyped DEF Offer

LEMMA SaidInit == Init => SaidInv
<1> SUFFICES ASSUME Init  PROVE SaidInv
  OBVIOUS
<1>1. /\ now = 0 /\ cache = None /\ ask = [c \in Client |-> NoAsk]
      /\ said = [i \in Offer |-> IF i = Info(row) THEN 0 ELSE -1 - TTL - HttpTime]
  BY DEF Init
<1>2. row \in Row
  BY WindowTypesInit DEF WindowTypes
<1>3. Open(row) => Info(row) \in Offer
  BY <1>2, OfferFacts
<1>4. \A c \in Client : ask[c].at # "asked"
  BY <1>1 DEF NoAsk
<1>5. QED
  BY <1>1, <1>3, <1>4, TimeAssumption DEF SaidInv

\* Time only passes, and every offer is dated by the last row that made it.
LEMMA SaidGrows ==
  ASSUME WindowTypes, SaidInv, Next, row' \in Row
  PROVE  /\ now' \in Int /\ now <= now' /\ said' = [i \in Offer |-> said'[i]]
         /\ \A i \in Offer : said'[i] \in Int /\ said[i] <= said'[i] /\ said'[i] <= now'
         /\ Open(row)' => said'[Info(row)'] = now'
<1>1. now \in Int /\ (now' = now \/ now' = now + 1)
  BY DEF WindowTypes, Next, Step, Change, Update, Check, LoadPatch, LoadItem, SavePatch, LoadStatus,
         SaveStatus, Stop, Begin, AdmitFromCache, Ask, AdmitFromAnswer, RefuseFromAnswer, Arrives,
         GiveUp, Forget, Cancel, Tick
<1>2. said' = [i \in Offer |-> IF i \in {Info(row), Info(row)'} THEN now' ELSE said[i]]
  BY DEF Next, Info, Open
<1>3. Open(row)' => Info(row)' \in Offer
  BY OfferFacts DEF Open, Info
<1>4. QED
  BY <1>1, <1>2, <1>3 DEF SaidInv

LEMMA SaidStep ==
  ASSUME WindowTypes, WindowTypes', SaidInv, [Next]_vars
  PROVE  SaidInv'
<1> USE TimeAssumption
<1>1. CASE UNCHANGED vars
  BY <1>1 DEF vars, SaidInv, Open, Info
<1>2. CASE Next
  <2>1. /\ now' \in Int /\ now <= now' /\ said' = [i \in Offer |-> said'[i]]
        /\ \A i \in Offer : said'[i] \in Int /\ said[i] <= said'[i] /\ said'[i] <= now'
        /\ Open(row)' => said'[Info(row)'] = now'
    BY <1>2, SaidGrows DEF WindowTypes
  <2>2. /\ cache # None => cache.info \in EventInfo /\ cache.until \in Int
        /\ ask = [c \in Client |-> ask[c]]
        /\ \A c \in Client : /\ ask[c].asof \in Int
                             /\ ask[c].at = "asked" => ask[c].info \in EventInfo
        /\ now \in Int /\ row \in Row
    BY BoundAssumption DEF WindowTypes, CacheTypes
  <2> DEFINE CachePart == cache # None /\ cache.info.open => cache.until <= said[cache.info] + TTL + HttpTime
             AskPart(c) == ask[c].at = "asked" /\ ask[c].info.open => ask[c].asof <= said[ask[c].info]
  <2>3. cache' = cache => CachePart'
    BY <2>1, <2>2, OfferFacts DEF SaidInv
  <2>4. \A c \in Client : ask'[c] = ask[c] => AskPart(c)'
    BY <2>1, <2>2, OfferFacts DEF SaidInv
  <2>5. ASSUME NEW c \in Client, Begin(c) \/ AdmitFromCache(c) \/ GiveUp(c)
        PROVE  CachePart' /\ \A d \in Client : AskPart(d)'
    <3>1. PICK a \in {NoAsk, [NoAsk EXCEPT !.at = "begun", !.since = now]} :
            ask' = [ask EXCEPT ![c] = a] /\ cache' = cache
      BY <2>5 DEF Begin, AdmitFromCache, GiveUp
    <3>2. \A d \in Client : ask'[d] = IF d = c THEN a ELSE ask[d]
      BY <2>2, <3>1
    <3>3. a.at # "asked"
      <4>1. NoAsk.at = "idle" /\ [NoAsk EXCEPT !.at = "begun", !.since = now].at = "begun"
        BY DEF NoAsk
      <4>2. QED
        BY <4>1
    <3>4. QED
      BY <2>3, <2>4, <3>1, <3>2, <3>3
  <2>6. ASSUME NEW c \in Client, Ask(c)
        PROVE  CachePart' /\ \A d \in Client : AskPart(d)'
    <3> DEFINE a == [at |-> "asked", since |-> ask[c].since, info |-> Info(row), asof |-> now]
    <3>1. ask' = [ask EXCEPT ![c] = a] /\ cache' = cache /\ row' = row /\ now' = now
      BY <2>6 DEF Ask
    <3>2. \A d \in Client : ask'[d] = IF d = c THEN a ELSE ask[d]
      BY <2>2, <3>1
    <3>3. a.asof = now /\ a.info = Info(row) /\ Info(row).open = Open(row)
      BY DEF Info
    <3> HIDE DEF a
    <3>4. a.info.open => a.asof <= said'[a.info]
      BY <2>1, <2>2, <3>1, <3>3 DEF Open, Info
    <3>5. QED
      BY <2>3, <2>4, <3>1, <3>2, <3>4
  <2>7. ASSUME NEW c \in Client, Arrives(c)
        PROVE  CachePart' /\ \A d \in Client : AskPart(d)'
    <3>1. /\ ask' = [ask EXCEPT ![c] = NoAsk]
          /\ cache' = [info |-> ask[c].info, until |-> now + TTL]
          /\ ask[c].at = "asked" /\ now <= ask[c].asof + HttpTime
      BY <2>7 DEF Arrives
    <3>2. \A d \in Client : ask'[d] = IF d = c THEN NoAsk ELSE ask[d]
      BY <2>2, <3>1
    <3>3. cache'.until = now + TTL /\ cache'.info = ask[c].info /\ NoAsk.at # "asked"
      BY <3>1 DEF NoAsk
    <3>4. ask[c].info.open => /\ ask[c].info \in Offer
                              /\ now + TTL <= said[ask[c].info] + TTL + HttpTime
      BY <2>2, <3>1, OfferFacts DEF SaidInv
    <3>5. CachePart'
      <4>1. CASE ask[c].info.open
        <5>1. said[ask[c].info] \in Int /\ said'[ask[c].info] \in Int /\ TTL \in Int /\ HttpTime \in Int
              /\ said[ask[c].info] <= said'[ask[c].info] /\ now \in Int
          BY <2>1, <2>2, <3>4, <4>1 DEF SaidInv
        <5>2. now + TTL <= said'[ask[c].info] + TTL + HttpTime
          BY <3>4, <4>1, <5>1
        <5>3. QED
          BY <3>3, <5>2
      <4>2. QED
        BY <3>3, <4>1
    <3>6. ASSUME NEW d \in Client  PROVE AskPart(d)'
      BY <2>4, <3>2, <3>3
    <3>7. QED
      BY <3>5, <3>6
  <2>8. ASSUME Forget  PROVE CachePart' /\ \A c \in Client : AskPart(c)'
    BY <2>4, <2>8 DEF Forget
  <2>9. CachePart' /\ \A c \in Client : AskPart(c)'
    <3>1. ASSUME NEW w \in Worker \cup Job, Change(w) \/ Update(w)
          PROVE  UNCHANGED <<cache, ask>>
      BY <3>1 DEF Change, Update, LoadPatch, LoadItem, SavePatch, LoadStatus, SaveStatus, Stop
    <3>2. CASE Cancel \/ Tick
      BY <2>3, <2>4, <3>2 DEF Cancel, Tick
    <3>3. UNCHANGED <<cache, ask>> => CachePart' /\ \A c \in Client : AskPart(c)'
      BY <2>3, <2>4
    <3> HIDE DEF CachePart, AskPart
    <3>4. QED
      BY <1>2, <2>5, <2>6, <2>7, <2>8, <3>1, <3>2, <3>3
      DEF Next, Step, Check, AdmitFromAnswer, RefuseFromAnswer
  <2>10. QED
    BY <2>1, <2>9 DEF SaidInv
<1>3. QED
  BY <1>1, <1>2

LEMMA SaidInvariance == Spec => [](WindowTypes /\ SaidInv)
<1>1. Init => WindowTypes /\ SaidInv
  BY WindowTypesInit, SaidInit
<1>2. WindowTypes /\ SaidInv /\ [Next]_vars => (WindowTypes /\ SaidInv)'
  BY WindowTypesStep, SaidStep
<1>3. QED
  BY <1>1, <1>2, PTL DEF Spec

\* Whoever is admitted is admitted by what the row offered no longer than TTL + HttpTime
\* ago -- open, from when to when, for how many --, whatever these times are, however many
\* clients share the cache and whatever patches and jobs overtake one another.
THEOREM AdmissionsLagLittle == Spec => AdmittedByRecentRow
<1> USE TimeAssumption
<1>1. ASSUME WindowTypes, SaidInv, NEW c \in Client, AdmitFromCache(c)
      PROVE  now - said[cache.info] <= TTL + HttpTime
  <2>1. cache # None /\ now <= cache.until /\ cache.info.open
    BY <1>1 DEF AdmitFromCache, Admit, Fresh
  <2>2. cache.info \in Offer /\ now \in Int /\ cache.until \in Int
    BY <1>1, <2>1, OfferFacts, BoundAssumption DEF WindowTypes, CacheTypes
  <2>3. QED
    BY <1>1, <2>1, <2>2 DEF SaidInv
<1>2. ASSUME WindowTypes, SaidInv, NEW c \in Client, AdmitFromAnswer(c)
      PROVE  now - said[ask[c].info] <= HttpTime
  <2>1. ask[c].at = "asked" /\ now <= ask[c].asof + HttpTime /\ ask[c].info.open
    BY <1>2 DEF AdmitFromAnswer, Arrives, Admit
  <2>2. ask[c].info \in Offer /\ now \in Int /\ ask[c].asof \in Int
    BY <1>2, <2>1, OfferFacts, BoundAssumption DEF WindowTypes, CacheTypes
  <2>3. QED
    BY <1>2, <2>1, <2>2 DEF SaidInv
<1>3. WindowTypes /\ SaidInv =>
        [\A c \in Client : /\ AdmitFromCache(c) => now - said[cache.info] <= TTL + HttpTime
                           /\ AdmitFromAnswer(c) => now - said[ask[c].info] <= HttpTime]_vars
  BY <1>1, <1>2
<1>4. QED
  BY <1>3, SaidInvariance, PTL DEF AdmittedByRecentRow

----------------------------------------------------------------------------
(* Limits: a stale one admits too many only if the limit was lowered.       *)

\* No more registrations are confirmed than the limit, as it is now, allows.
BookedFits == booked = 0 \/ row.limit = None \/ booked <= row.limit

\* Every copy of the row admits no more than the row does.
CopiesFit ==
  /\ cache # None => Within(cache.info.limit, row.limit)
  /\ \A c \in Client : ask[c].at = "asked" => Within(ask[c].info.limit, row.limit)

LEMMA WithinOrder ==
  ASSUME NEW k \in Limits, NEW l \in Limits, NEW m \in Limits
  PROVE  Within(l, l) /\ (Within(k, l) /\ Within(l, m) => Within(k, m))
BY LimitAssumption DEF Within

LEMMA AdmitFits ==
  ASSUME BookedFits, NEW c \in Client, NEW r, Admit(c, r), Within(r.limit, row.limit),
         r.limit \in Limits, row.limit \in Limits, booked \in Nat, row' = row
  PROVE  BookedFits'
<1>1. \/ booked' = booked
      \/ booked' = booked + 1 /\ (r.limit = None \/ booked < r.limit)
  BY DEF Admit
<1>2. CASE row.limit = None
  BY <1>2 DEF BookedFits
<1>3. CASE row.limit # None
  <2>1. /\ r.limit # None /\ r.limit \in Int /\ row.limit \in Int /\ r.limit <= row.limit
        /\ booked = 0 \/ booked <= row.limit
    BY <1>3, LimitAssumption DEF Within, BookedFits
  <2>2. booked' = 0 \/ booked' <= row.limit
    BY <1>1, <2>1
  <2>3. QED
    BY <2>2 DEF BookedFits
<1>4. QED
  BY <1>2, <1>3

LEMMA FitsStep ==
  ASSUME WindowTypes, WindowTypes', BookedFits, CopiesFit, Next, Within(row.limit, row'.limit)
  PROVE  BookedFits' /\ CopiesFit'
<1>1. /\ row.limit \in Limits /\ row'.limit \in Limits /\ booked \in Nat
      /\ cache # None => cache.info.limit \in Limits
      /\ ask = [c \in Client |-> ask[c]]
      /\ \A c \in Client : ask[c].at = "asked" => ask[c].info.limit \in Limits
  <2>1. row \in Row /\ row' \in Row /\ booked \in Nat
    BY BoundAssumption DEF WindowTypes
  <2>2. \A i \in EventInfo : i.limit \in Limits
    BY DEF EventInfo
  <2>3. \A r \in Row : r.limit \in Limits
    BY DEF Row
  <2>4. QED
    BY <2>1, <2>2, <2>3 DEF WindowTypes, CacheTypes
<1>2. /\ cache # None => Within(cache.info.limit, row'.limit)
      /\ \A c \in Client : ask[c].at = "asked" => Within(ask[c].info.limit, row'.limit)
  BY <1>1, WithinOrder DEF CopiesFit
<1>3. booked' = booked => BookedFits'
  BY <1>1, LimitAssumption DEF BookedFits, Within
<1>4. UNCHANGED <<cache, ask>> => CopiesFit'
  BY <1>2 DEF CopiesFit
<1>5. ASSUME NEW w \in Worker \cup Job, Change(w) \/ Update(w)
      PROVE  UNCHANGED <<cache, ask, booked>>
  BY <1>5 DEF Change, Update, LoadPatch, LoadItem, SavePatch, LoadStatus, SaveStatus, Stop
<1>6. ASSUME NEW c \in Client, Begin(c) \/ AdmitFromCache(c) \/ GiveUp(c)
      PROVE  BookedFits' /\ CopiesFit'
  <2>1. PICK a \in {NoAsk, [NoAsk EXCEPT !.at = "begun", !.since = now]} :
          ask' = [ask EXCEPT ![c] = a] /\ cache' = cache /\ row' = row
    BY <1>6 DEF Begin, AdmitFromCache, GiveUp
  <2>2. NoAsk.at = "idle" /\ [NoAsk EXCEPT !.at = "begun", !.since = now].at = "begun"
    BY DEF NoAsk
  <2>3. a.at # "asked"
    BY <2>2
  <2>4. \A d \in Client : ask'[d] = IF d = c THEN a ELSE ask[d]
    BY <1>1, <2>1
  <2>5. CopiesFit'
    BY <1>2, <2>1, <2>3, <2>4 DEF CopiesFit
  <2>6. CASE AdmitFromCache(c)
    <3>1. cache # None /\ Admit(c, cache.info)
      BY <2>6 DEF AdmitFromCache, Fresh
    <3>2. QED
      BY <1>1, <2>1, <2>5, <3>1, AdmitFits DEF CopiesFit
  <2>7. QED
    BY <1>3, <1>6, <2>5, <2>6 DEF Begin, GiveUp
<1>7. ASSUME NEW c \in Client, Ask(c)
      PROVE  BookedFits' /\ CopiesFit'
  <2> DEFINE a == [at |-> "asked", since |-> ask[c].since, info |-> Info(row), asof |-> now]
  <2>1. ask' = [ask EXCEPT ![c] = a] /\ UNCHANGED <<cache, row, booked>>
    BY <1>7 DEF Ask
  <2>2. a.info.limit = row.limit
    BY DEF Info
  <2> HIDE DEF a
  <2>3. \A d \in Client : ask'[d] = IF d = c THEN a ELSE ask[d]
    BY <1>1, <2>1
  <2>4. Within(a.info.limit, row'.limit)
    BY <1>1, <2>1, <2>2, WithinOrder
  <2>5. QED
    BY <1>2, <1>3, <2>1, <2>3, <2>4 DEF CopiesFit
<1>8. ASSUME NEW c \in Client, AdmitFromAnswer(c) \/ RefuseFromAnswer(c)
      PROVE  BookedFits' /\ CopiesFit'
  <2>1. /\ ask[c].at = "asked" /\ row' = row /\ ask' = [ask EXCEPT ![c] = NoAsk]
        /\ cache' = [info |-> ask[c].info, until |-> now + TTL]
    BY <1>8 DEF AdmitFromAnswer, RefuseFromAnswer, Arrives
  <2>2. cache'.info = ask[c].info /\ NoAsk.at # "asked"
    BY <2>1 DEF NoAsk
  <2>3. \A d \in Client : ask'[d] = IF d = c THEN NoAsk ELSE ask[d]
    BY <1>1, <2>1
  <2>4. CopiesFit'
    BY <1>2, <2>1, <2>2, <2>3 DEF CopiesFit
  <2>5. CASE AdmitFromAnswer(c)
    BY <1>1, <2>1, <2>4, <2>5, AdmitFits DEF AdmitFromAnswer, CopiesFit
  <2>6. QED
    BY <1>3, <1>8, <2>4, <2>5 DEF RefuseFromAnswer
<1>9. CASE Forget
  BY <1>2, <1>3, <1>9 DEF Forget, CopiesFit
<1>10. CASE Cancel
  <2>1. booked > 0 /\ booked' = booked - 1 /\ UNCHANGED <<row, cache, ask>>
    BY <1>10 DEF Cancel
  <2>2. row.limit # None => row.limit \in Int
    BY <1>1, LimitAssumption
  <2>3. BookedFits'
    BY <1>1, <2>1, <2>2 DEF BookedFits
  <2>4. QED
    BY <1>4, <2>1, <2>3
<1>11. CASE Tick
  BY <1>3, <1>4, <1>11 DEF Tick
<1>12. QED
  BY <1>3, <1>4, <1>5, <1>6, <1>7, <1>8, <1>9, <1>10, <1>11 DEF Next, Step, Check

\* Copies of the row, however stale, confirm more registrations than the limit allows
\* only if the limit was lowered: that is where the check of update_event had to help.
THEOREM RaisedNeverOverbooks == RaisedSpec => []BookedFits
<1>1. Init => BookedFits /\ CopiesFit
  BY DEF Init, BookedFits, CopiesFit, NoAsk
<1>2. ASSUME WindowTypes, WindowTypes', BookedFits, CopiesFit, [Next /\ Within(row.limit, row'.limit)]_vars
      PROVE  BookedFits' /\ CopiesFit'
  <2>1. CASE UNCHANGED vars
    BY <1>2, <2>1 DEF vars, BookedFits, CopiesFit
  <2>2. QED
    BY <1>2, <2>1, FitsStep
<1>3. RaisedSpec => Spec
  <2>1. [Next /\ Within(row.limit, row'.limit)]_vars => [Next]_vars
    OBVIOUS
  <2>2. QED
    BY <2>1, PTL DEF RaisedSpec, Spec
<1>4. QED
  BY <1>1, <1>2, <1>3, SaidInvariance, PTL DEF RaisedSpec
=============================================================================
