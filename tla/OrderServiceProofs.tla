------------------------- MODULE OrderServiceProofs -------------------------
(***************************************************************************)
(* Theorems about OrderService for any orders, keys, bodies, relays and    *)
(* workers: one order per idempotency key, no row marked published that is *)
(* not in the topic, no read of a status the order has not had, and no     *)
(* stored total that is not the true one while that fits its width.        *)
(*                                                                         *)
(* The invariant has parts that are kept each on its own: who holds a key, *)
(* what a relay has sent of the batch it locked, that batches are apart,   *)
(* what is on the way from the histories to the read model, and that a     *)
(* total is the sum of the order's items.  What that sum is, for any       *)
(* number of items, is shown by induction along the sequence.  The last    *)
(* part is about a single projector: what it shows when it has caught up.  *)
(***************************************************************************)
EXTENDS OrderService, OrderStoreProofs, SumProofs

-----------------------------------------------------------------------------
(* The inductive invariant.                                                *)

KeyTypes ==
  /\ events \in [Orders -> Seq(EventTypes)]
  /\ holder \in [Keys -> Orders \cup {NoOrder}]
  /\ request \in [Orders -> Request]
  /\ answer \in [Orders -> Orders \cup {NoOrder}]

RelayTypes ==
  /\ outbox \in Seq(OutboxRow)
  /\ log \in Seq(OutboxRow)
  /\ marked \subseteq 1..Len(outbox)
  /\ batch \in [Relays -> SUBSET (1..Len(outbox))]
  /\ unsent \in [Relays -> SUBSET (1..Len(outbox))]

\* A request acts, and is answered, for the order that holds its key.
KeyInv(o) ==
  /\ request[o].stage \in {"none", "reserve"} => events[o] = << >> /\ answer[o] = NoOrder
  /\ request[o].stage = "save" =>
       holder[request[o].key] = o /\ events[o] = << >> /\ answer[o] = NoOrder
  /\ events[o] # << >> => holder[request[o].key] = o
  /\ answer[o] # NoOrder => answer[o] = holder[request[o].key]

Published(i) == \E j \in 1..Len(log) : log[j] = outbox[i]

\* What a relay has locked and need not send any more is in the topic.
RelayInv ==
  /\ \A i \in marked : Published(i)
  /\ \A r \in Relays : \A i \in batch[r] \ unsent[r] : Published(i)

\* What an event says of its order has happened to it.
Told(event) ==
  /\ event.type = "order.placed" => Placed(event.order)
  /\ event.type \in Decisions => Status(events[event.order]) = StatusOf(event.type)

ReadTypes ==
  /\ projection \in [Orders -> ProjectionStatus]
  /\ loop \in [Workers -> LoopState]
  /\ current \in [Workers -> Nat]
  /\ position \in [Partitions -> Nat]
  /\ committed \in [Partitions -> Nat]
  /\ owner \in [Partitions -> Workers]
  /\ \A w \in Workers : loop[w] \in {"handle", "commit"} => current[w] \in 1..Len(log)

\* Nothing on the way to the read model, or in it, is made up.
ReadInv ==
  /\ OneDecision
  /\ \A i \in 1..Len(outbox) : Told(outbox[i])
  /\ \A i \in 1..Len(log) : Told(log[i])
  /\ \A o \in Orders : projection[o] \in {"NONE", "PENDING", Status(events[o])}

\* The total stored is the sum of the items in the arithmetic of its width.
TotalInv ==
  /\ total \in [Orders -> -Half..(Half - 1)]
  /\ \A o \in Orders : Placed(o) => total[o] = Total(request[o].body.items)

\* No row is in two batches, nor marked while it is in one.
DrainInv ==
  /\ relayed = Cardinality(marked)
  /\ \A r \in Relays : unsent[r] \subseteq batch[r] /\ batch[r] \cap marked = {}
  /\ \A r, q \in Relays : r # q => batch[r] \cap batch[q] = {}

BoundTypes ==
  /\ deadLetters \subseteq Nat
  /\ rebalances \in 0..MaxRebalances
  /\ relayFailures \in 0..MaxRelayFailures
  /\ stops \in 0..MaxStops

IInv ==
  /\ KeyTypes
  /\ RelayTypes
  /\ TotalInv
  /\ DrainInv
  /\ BoundTypes
  /\ \A o \in Orders : KeyInv(o)
  /\ RelayInv
  /\ ReadTypes
  /\ ReadInv

-----------------------------------------------------------------------------
\* (no body or key is missing from the first state)
LEMMA NoRequestType == NoRequest \in Request
BY PlacementAssumption DEF NoRequest, Request, RequestStage

\* (sequences that grow keep what they have)
LEMMA AppendKeeps ==
  ASSUME NEW S, NEW s \in Seq(S), NEW x \in S
  PROVE  /\ Append(s, x) \in Seq(S)
         /\ Len(Append(s, x)) = Len(s) + 1
         /\ \A i \in 1..Len(s) : Append(s, x)[i] = s[i]
         /\ Append(s, x)[Len(s) + 1] = x
         /\ Append(s, x) # << >>
BY SMT

\* (the invariant holds at first)
LEMMA InitInv == Init => IInv
<1> SUFFICES ASSUME Init PROVE IInv
  OBVIOUS
<1>1. KeyTypes
  BY NoRequestType DEF Init, PlacementInit, StoreInit, KeyTypes
<1>2. RelayTypes
  BY DEF Init, PlacementInit, StoreInit, ConsumerInit, RelayTypes
<1>3. \A o \in Orders : KeyInv(o)
  BY DEF Init, PlacementInit, StoreInit, KeyInv, NoRequest
<1>4. RelayInv
  BY DEF Init, RelayInv
<1>5. ReadTypes
  BY DEF Init, PlacementInit, StoreInit, ConsumerInit, ReadTypes, ProjectionStatus, LoopState
<1>6. ReadInv
  BY DEF Init, PlacementInit, StoreInit, ConsumerInit, ReadInv, OneDecision
<1>7. TotalInv
  BY PlacementAssumption DEF Init, PlacementInit, StoreInit, TotalInv, Placed
<1>8. DrainInv
  BY FS_EmptySet DEF Init, PlacementInit, StoreInit, DrainInv
<1>9. BoundTypes
  BY ConsumerAssumption, OrderServiceAssumption DEF Init, ConsumerInit, BoundTypes
<1>10. QED
  BY <1>1, <1>2, <1>3, <1>4, <1>5, <1>6, <1>7, <1>8, <1>9 DEF IInv

-----------------------------------------------------------------------------
(* The keys.                                                               *)

KeyPart == KeyTypes /\ \A o \in Orders : KeyInv(o)

\* (what does not touch requests and histories)
LEMMA KeyStays ==
  ASSUME KeyPart, UNCHANGED <<events, holder, request, answer>>
  PROVE  KeyPart'
BY DEF KeyPart, KeyTypes, KeyInv

\* (the record a request becomes)
LEMMA GotoType ==
  ASSUME KeyTypes, NEW o \in Orders, NEW s \in RequestStage, Goto(o, s)
  PROVE  /\ request' \in [Orders -> Request]
         /\ request'[o].stage = s
         /\ request'[o].key = request[o].key
         /\ \A p \in Orders \ {o} : request'[p] = request[p]
BY DEF KeyTypes, Goto, Request

\* (a request arrives)
LEMMA ReceiveKeys ==
  ASSUME KeyPart, NEW o \in Orders, NEW k \in Keys, NEW b \in Bodies, Receive(o, k, b)
  PROVE  KeyPart'
<1>1. KeyTypes /\ request' = [request EXCEPT ![o] = [stage |-> "reserve", key |-> k, body |-> b]]
  BY DEF KeyPart, Receive
<1>2. request[o].stage = "none" /\ UNCHANGED <<events, holder, answer>>
  BY DEF Receive, storeVars
<1>3. KeyTypes'
  BY <1>1, <1>2 DEF KeyTypes, Request, RequestStage
<1>4. ASSUME NEW p \in Orders PROVE KeyInv(p)'
  <2>1. CASE p = o
    BY <1>1, <1>2, <2>1 DEF KeyPart, KeyInv, KeyTypes
  <2>2. CASE p # o
    <3>1. request'[p] = request[p]
      BY <1>1, <2>2 DEF KeyTypes
    <3>2. QED
      BY <1>2, <3>1 DEF KeyPart, KeyInv
  <2>3. QED
    BY <2>1, <2>2
<1>5. QED
  BY <1>3, <1>4 DEF KeyPart

\* (the key goes to the first who asks for it)
LEMMA ReserveKeys ==
  ASSUME KeyPart, NEW o \in Orders, ReserveKey(o)
  PROVE  KeyPart'
<1> DEFINE k == request[o].key
<1>1. KeyTypes /\ KeyInv(o) /\ k \in Keys /\ NoOrder \notin Orders
  BY PlacementAssumption DEF KeyPart, KeyTypes, Request
<1>2. request[o].stage = "reserve" /\ UNCHANGED events
  BY DEF ReserveKey, storeVars
<1>3. events[o] = << >> /\ answer[o] = NoOrder
  BY <1>1, <1>2 DEF KeyInv
<1>4. CASE holder[k] = NoOrder /\ holder' = [holder EXCEPT ![k] = o] /\ Goto(o, "save")
           /\ UNCHANGED answer
  <2>1. /\ request' \in [Orders -> Request] /\ request'[o].stage = "save"
        /\ request'[o].key = k /\ \A p \in Orders \ {o} : request'[p] = request[p]
    BY <1>1, <1>4, GotoType DEF RequestStage
  <2>2. holder' \in [Keys -> Orders \cup {NoOrder}] /\ holder'[k] = o
        /\ \A l \in Keys \ {k} : holder'[l] = holder[l]
    BY <1>1, <1>4 DEF KeyTypes
  <2>3. KeyInv(o)'
    BY <1>2, <1>3, <1>4, <2>1, <2>2 DEF KeyInv
  <2>4. ASSUME NEW p \in Orders \ {o} PROVE KeyInv(p)'
    <3>1. KeyInv(p) /\ request[p].key \in Keys
      BY <1>1 DEF KeyPart, KeyTypes, Request
    <3>2. CASE request[p].key = k
      <4>1. request[p].stage # "save" /\ events[p] = << >> /\ answer[p] = NoOrder
        <5>1. answer[p] \in Orders \cup {NoOrder}
          BY <1>1 DEF KeyTypes
        <5>2. QED
          BY <1>1, <1>4, <3>1, <3>2, <5>1 DEF KeyInv
      <4>2. QED
        BY <1>2, <1>4, <2>1, <4>1 DEF KeyInv
    <3>3. CASE request[p].key # k
      BY <1>2, <1>4, <2>1, <2>2, <3>1, <3>3 DEF KeyInv
    <3>4. QED
      BY <3>2, <3>3
  <2>5. QED
    BY <1>1, <1>2, <1>4, <2>1, <2>2, <2>3, <2>4 DEF KeyPart, KeyTypes
<1>5. CASE holder[k] # NoOrder /\ answer' = [answer EXCEPT ![o] = holder[k]]
           /\ Goto(o, "done") /\ UNCHANGED holder
  <2>1. /\ request' \in [Orders -> Request] /\ request'[o].stage = "done"
        /\ request'[o].key = k /\ \A p \in Orders \ {o} : request'[p] = request[p]
    BY <1>1, <1>5, GotoType DEF RequestStage
  <2>2. answer' \in [Orders -> Orders \cup {NoOrder}] /\ answer'[o] = holder[k]
        /\ \A p \in Orders \ {o} : answer'[p] = answer[p]
    BY <1>1, <1>5 DEF KeyTypes
  <2>3. KeyInv(o)'
    BY <1>2, <1>3, <1>5, <2>1, <2>2 DEF KeyInv
  <2>4. ASSUME NEW p \in Orders \ {o} PROVE KeyInv(p)'
    BY <1>2, <1>5, <2>1, <2>2 DEF KeyPart, KeyInv
  <2>5. QED
    BY <1>1, <1>2, <1>5, <2>1, <2>2, <2>3, <2>4 DEF KeyPart, KeyTypes
<1>6. QED
  BY <1>4, <1>5 DEF ReserveKey

\* (a request fails between two steps)
LEMMA FailKeys ==
  ASSUME KeyPart, NEW o \in Orders, FailRequest(o)
  PROVE  KeyPart'
<1>1. /\ request' \in [Orders -> Request] /\ request'[o].stage = "done"
      /\ request'[o].key = request[o].key /\ \A p \in Orders \ {o} : request'[p] = request[p]
  BY GotoType DEF FailRequest, KeyPart, RequestStage
<1>2. UNCHANGED <<events, holder, answer>>
  BY DEF FailRequest, storeVars
<1>3. KeyTypes'
  BY <1>1, <1>2 DEF KeyPart, KeyTypes
<1>4. ASSUME NEW p \in Orders PROVE KeyInv(p)'
  BY <1>1, <1>2 DEF KeyPart, KeyInv
<1>5. QED
  BY <1>3, <1>4 DEF KeyPart

\* (an event joins the history of o)
LEMMA RecordKeys ==
  ASSUME KeyTypes, NEW o \in Orders, NEW type \in EventTypes, Record(o, type)
  PROVE  /\ events' \in [Orders -> Seq(EventTypes)]
         /\ events'[o] # << >>
         /\ \A p \in Orders \ {o} : events'[p] = events[p]
<1>1. events[o] \in Seq(EventTypes)
  BY DEF KeyTypes
<1>2. Append(events[o], type) \in Seq(EventTypes) /\ Append(events[o], type) # << >>
  BY <1>1, AppendKeeps
<1>3. QED
  BY <1>2 DEF KeyTypes, Record

\* (the order is saved by the request that holds its key)
LEMMA SaveKeys ==
  ASSUME KeyPart, NEW o \in Orders, SaveOrder(o)
  PROVE  KeyPart'
<1>1. /\ request' \in [Orders -> Request] /\ request'[o].stage = "done"
      /\ request'[o].key = request[o].key /\ \A p \in Orders \ {o} : request'[p] = request[p]
  BY GotoType DEF SaveOrder, KeyPart, RequestStage
<1>2. KeyTypes /\ KeyInv(o) /\ request[o].stage = "save" /\ UNCHANGED holder
  BY DEF KeyPart, SaveOrder
<1>3. CASE Place(o) /\ answer' = [answer EXCEPT ![o] = o]
  <2>1. /\ events' \in [Orders -> Seq(EventTypes)]
        /\ \A p \in Orders \ {o} : events'[p] = events[p]
    BY <1>2, <1>3, RecordKeys DEF Place, EventTypes
  <2>2. answer' \in [Orders -> Orders \cup {NoOrder}] /\ answer'[o] = o
        /\ \A p \in Orders \ {o} : answer'[p] = answer[p]
    BY <1>2, <1>3 DEF KeyTypes
  <2>3. KeyInv(o)'
    BY <1>1, <1>2, <2>2 DEF KeyInv
  <2>4. ASSUME NEW p \in Orders \ {o} PROVE KeyInv(p)'
    BY <1>1, <1>2, <2>1, <2>2 DEF KeyPart, KeyInv
  <2>5. QED
    BY <1>1, <1>2, <2>1, <2>2, <2>3, <2>4 DEF KeyPart, KeyTypes
<1>4. CASE UNCHANGED <<events, answer>>
  <2>1. ASSUME NEW p \in Orders PROVE KeyInv(p)'
    BY <1>1, <1>2, <1>4 DEF KeyPart, KeyInv
  <2>2. QED
    BY <1>1, <1>2, <1>4, <2>1 DEF KeyPart, KeyTypes
<1>5. QED
  BY <1>3, <1>4 DEF SaveOrder, storeVars

\* (the saga decides an order that exists)
LEMMA DecideKeys ==
  ASSUME KeyPart, NEW o \in Orders, NEW decision \in Decisions, Decide(o, decision)
  PROVE  KeyPart'
<1>1. KeyTypes /\ KeyInv(o) /\ UNCHANGED <<holder, request, answer>>
  BY DEF KeyPart, Decide
<1>2. events[o] # << >>
  BY DEF Decide, MayRaise, Status
<1>3. /\ events' \in [Orders -> Seq(EventTypes)]
      /\ \A p \in Orders \ {o} : events'[p] = events[p]
  BY <1>1, RecordKeys DEF Decide, EventTypes
<1>4. KeyInv(o)'
  BY <1>1, <1>2 DEF KeyInv
<1>5. ASSUME NEW p \in Orders \ {o} PROVE KeyInv(p)'
  BY <1>1, <1>3 DEF KeyPart, KeyInv
<1>6. QED
  BY <1>1, <1>3, <1>4, <1>5 DEF KeyPart, KeyTypes

\* (every step keeps what is said of the keys)
LEMMA NextKeys ==
  ASSUME KeyPart, [Next]_vars
  PROVE  KeyPart'
<1>1. ASSUME PlacementNext PROVE KeyPart'
  BY <1>1, ReceiveKeys, ReserveKeys, SaveKeys, FailKeys DEF PlacementNext
<1>2. ASSUME NEW o \in Orders, NEW d \in Decisions, Decide(o, d) PROVE KeyPart'
  BY <1>2, DecideKeys
<1>3. CASE UNCHANGED <<events, holder, request, answer>>
  BY <1>3, KeyStays
<1>4. ASSUME NEW r \in Relays, RelayStep(r) \/ FailCycle(r)
      PROVE  UNCHANGED <<events, holder, request, answer>>
  BY <1>4 DEF RelayStep, Claim, Send, Mark, FailCycle, placementVars, storeVars
<1>5. ASSUME NEW w \in Workers,
             ProjectorStep(w) \/ StopProjector(w) \/ RestartProjector(w)
      PROVE  UNCHANGED <<events, holder, request, answer>>
  BY <1>5 DEF ProjectorStep, FetchEvent, Apply, CommitEvent, StopProjector, RestartProjector,
              placementVars, storeVars
<1>6. ASSUME NEW a \in [Partitions -> Workers], RebalanceProjectors(a)
      PROVE  UNCHANGED <<events, holder, request, answer>>
  BY <1>6 DEF RebalanceProjectors, placementVars, storeVars
<1>7. QED
  BY <1>1, <1>2, <1>3, <1>4, <1>5, <1>6 DEF Next, PlaceOrders, vars, placementVars, storeVars

-----------------------------------------------------------------------------
(* The relays.                                                             *)

RelayPart == RelayTypes /\ RelayInv

\* (what touches neither the outbox, the topic nor a relay)
LEMMA RelayStays ==
  ASSUME RelayPart, UNCHANGED <<outbox, log, relayVars>>
  PROVE  RelayPart'
BY DEF RelayPart, RelayTypes, RelayInv, Published, relayVars

\* (a row joins the outbox)
LEMMA OutboxGrows ==
  ASSUME RelayPart, NEW row \in OutboxRow, outbox' = Append(outbox, row),
         UNCHANGED <<log, relayVars>>
  PROVE  RelayPart'
<1>1. /\ outbox \in Seq(OutboxRow) /\ outbox' \in Seq(OutboxRow)
      /\ Len(outbox) \in Nat /\ Len(outbox') = Len(outbox) + 1
      /\ \A i \in 1..Len(outbox) : outbox'[i] = outbox[i]
  BY AppendKeeps DEF RelayPart, RelayTypes
<1>2. RelayTypes'
  <2>1. 1..Len(outbox) \subseteq 1..Len(outbox')
    BY <1>1
  <2>2. QED
    BY <1>1, <2>1 DEF RelayPart, RelayTypes, relayVars
<1>3. ASSUME NEW i \in 1..Len(outbox), Published(i) PROVE Published(i)'
  BY <1>1, <1>3 DEF Published
<1>4. RelayInv'
  BY <1>3 DEF RelayPart, RelayTypes, RelayInv, relayVars
<1>5. QED
  BY <1>2, <1>4 DEF RelayPart

\* (a relay locks a batch)
LEMMA ClaimRelays ==
  ASSUME RelayPart, NEW r \in Relays, Claim(r)
  PROVE  RelayPart'
<1> DEFINE S == Oldest(BatchSize, Available)
<1>1. S \subseteq 1..Len(outbox)
  BY DEF Oldest, Available
<1>2. UNCHANGED <<outbox, log, marked>>
  BY DEF Claim, placementVars, storeVars, consumerVars
<1>3. batch' = [batch EXCEPT ![r] = S] /\ unsent' = [unsent EXCEPT ![r] = S]
  BY DEF Claim
<1>4. RelayTypes'
  BY <1>1, <1>2, <1>3 DEF RelayPart, RelayTypes
<1>5. ASSUME NEW q \in Relays, NEW i \in batch'[q] \ unsent'[q] PROVE Published(i)
  BY <1>3 DEF RelayPart, RelayTypes, RelayInv
<1>6. QED
  BY <1>2, <1>4, <1>5 DEF RelayPart, RelayInv, Published

\* (a row of the batch joins the topic)
LEMMA SendRelays ==
  ASSUME RelayPart, NEW r \in Relays, Send(r)
  PROVE  RelayPart'
<1>1. PICK i \in Oldest(1, unsent[r]) :
        /\ Produce(<<outbox[i]>>)
        /\ unsent' = [unsent EXCEPT ![r] = @ \ {i}]
  BY DEF Send
<1>2. RelayTypes /\ i \in 1..Len(outbox) /\ outbox[i] \in OutboxRow
  BY <1>1 DEF RelayPart, RelayTypes, Oldest
<1>3. UNCHANGED <<outbox, marked, batch>>
  BY DEF Send, placementVars, storeVars
<1>4. /\ log' \in Seq(OutboxRow) /\ Len(log) \in Nat /\ Len(log') = Len(log) + 1
      /\ \A j \in 1..Len(log) : log'[j] = log[j]
      /\ log'[Len(log) + 1] = outbox[i]
  <2>1. log \in Seq(OutboxRow) /\ log' = log \o <<outbox[i]>>
    BY <1>1, <1>2 DEF Produce, RelayTypes
  <2>2. log' = Append(log, outbox[i])
    BY <1>2, <2>1
  <2>3. QED
    BY <1>2, <2>1, <2>2, AppendKeeps
<1>5. ASSUME NEW j \in 1..Len(outbox), Published(j) \/ j = i PROVE Published(j)'
  BY <1>3, <1>4, <1>5 DEF Published
<1>6. RelayTypes'
  BY <1>1, <1>2, <1>3, <1>4 DEF RelayTypes
<1>7. ASSUME NEW q \in Relays, NEW j \in batch'[q] \ unsent'[q] PROVE Published(j)'
  <2>1. j \in 1..Len(outbox) /\ (j = i \/ j \in batch[q] \ unsent[q])
    BY <1>1, <1>2, <1>3 DEF RelayTypes
  <2>2. QED
    BY <1>5, <2>1 DEF RelayPart, RelayInv
<1>8. ASSUME NEW j \in marked' PROVE Published(j)'
  BY <1>2, <1>3, <1>5 DEF RelayPart, RelayTypes, RelayInv
<1>9. QED
  BY <1>6, <1>7, <1>8 DEF RelayPart, RelayInv

\* (a batch all sent is marked)
LEMMA MarkRelays ==
  ASSUME RelayPart, NEW r \in Relays, Mark(r)
  PROVE  RelayPart'
<1>1. /\ unsent[r] = {} /\ marked' = marked \cup batch[r]
      /\ batch' = [batch EXCEPT ![r] = {}] /\ unsent' = [unsent EXCEPT ![r] = {}]
      /\ UNCHANGED <<outbox, log>>
  BY DEF Mark, AllSent, consumerVars
<1>2. RelayTypes'
  BY <1>1 DEF RelayPart, RelayTypes
<1>3. ASSUME NEW i \in marked' PROVE Published(i)
  BY <1>1 DEF RelayPart, RelayInv
<1>4. ASSUME NEW q \in Relays, NEW i \in batch'[q] \ unsent'[q] PROVE Published(i)
  BY <1>1 DEF RelayPart, RelayTypes, RelayInv
<1>5. QED
  BY <1>1, <1>2, <1>3, <1>4 DEF RelayPart, RelayInv, Published

\* (a batch is let go)
LEMMA FailRelays ==
  ASSUME RelayPart, NEW r \in Relays, FailCycle(r)
  PROVE  RelayPart'
<1>1. /\ UNCHANGED <<outbox, log, marked>>
      /\ batch' = [batch EXCEPT ![r] = {}] /\ unsent' = [unsent EXCEPT ![r] = {}]
  BY DEF FailCycle, placementVars, storeVars, consumerVars
<1>2. RelayTypes'
  BY <1>1 DEF RelayPart, RelayTypes
<1>3. ASSUME NEW q \in Relays, NEW i \in batch'[q] \ unsent'[q] PROVE Published(i)
  BY <1>1 DEF RelayPart, RelayTypes, RelayInv
<1>4. QED
  BY <1>1, <1>2, <1>3 DEF RelayPart, RelayInv, Published

\* (every step keeps what is said of the relays)
LEMMA NextRelays ==
  ASSUME RelayPart, [Next]_vars
  PROVE  RelayPart'
<1>1. ASSUME PlaceOrders PROVE RelayPart'
  <2>1. PICK o \in Orders :
          \/ \E k \in Keys, b \in Bodies : Receive(o, k, b)
          \/ ReserveKey(o) \/ SaveOrder(o) \/ FailRequest(o)
    BY <1>1 DEF PlaceOrders, PlacementNext
  <2>2. UNCHANGED <<log, relayVars>>
    BY <1>1 DEF PlaceOrders, consumerVars
  <2>3. UNCHANGED outbox \/ outbox' = Append(outbox, [type |-> "order.placed", order |-> o])
    BY <2>1 DEF Receive, ReserveKey, SaveOrder, FailRequest, Place, Record, storeVars
  <2>4. QED
    BY <2>2, <2>3, RelayStays, OutboxGrows DEF OutboxRow, EventTypes
<1>2. ASSUME NEW o \in Orders, NEW d \in Decisions, Decide(o, d) PROVE RelayPart'
  <2>1. outbox' = Append(outbox, [type |-> d, order |-> o]) /\ UNCHANGED <<log, relayVars>>
    BY <1>2 DEF Decide, Record, consumerVars
  <2>2. QED
    BY <2>1, OutboxGrows DEF OutboxRow, EventTypes
<1>3. ASSUME NEW r \in Relays, RelayStep(r) \/ FailCycle(r) PROVE RelayPart'
  BY <1>3, ClaimRelays, SendRelays, MarkRelays, FailRelays DEF RelayStep
<1>4. ASSUME NEW w \in Workers,
             ProjectorStep(w) \/ StopProjector(w) \/ RestartProjector(w)
      PROVE  RelayPart'
  <2>1. UNCHANGED <<outbox, log, relayVars>>
    BY <1>4 DEF ProjectorStep, FetchEvent, Apply, CommitEvent, StopProjector, RestartProjector,
                placementVars, storeVars, Fetch, FetchFrom, Handled, CommitOffset, Stop, Restart
  <2>2. QED
    BY <2>1, RelayStays
<1>5. ASSUME NEW a \in [Partitions -> Workers], RebalanceProjectors(a) PROVE RelayPart'
  <2>1. UNCHANGED <<outbox, log, relayVars>>
    BY <1>5 DEF RebalanceProjectors, placementVars, storeVars, Rebalance
  <2>2. QED
    BY <2>1, RelayStays
<1>6. CASE UNCHANGED vars
  <2>1. UNCHANGED <<outbox, log, relayVars>>
    BY <1>6 DEF vars, placementVars, storeVars, consumerVars
  <2>2. QED
    BY <2>1, RelayStays
<1>7. QED
  BY <1>1, <1>2, <1>3, <1>4, <1>5, <1>6 DEF Next

-----------------------------------------------------------------------------
(* The way to the read model.                                              *)

ReadPart == ReadTypes /\ ReadInv

\* Histories end with a decision, whatever else happens to them.
HistoriesGrow ==
  \A o \in Orders : \/ events'[o] = events[o]
                    \/ ~IsDecided(o) /\ Placed(o)'

\* (the statuses of the histories OneDecision admits)
LEMMA Histories ==
  ASSUME OneDecision, NEW o \in Orders
  PROVE  Status(events[o]) \in {"NOT_FOUND", "PENDING", "CONFIRMED", "CANCELLED"}
BY StatusFacts DEF OneDecision, Decisions

\* (what an event says stays true)
LEMMA ToldStays ==
  ASSUME HistoriesGrow, NEW event \in OutboxRow, Told(event)
  PROVE  Told(event)'
<1>1. event.order \in Orders
  BY DEF OutboxRow
<1>2. event.type \in Decisions => IsDecided(event.order)
  BY DEF Told, IsDecided, StatusOf
<1>3. QED
  BY <1>1, <1>2 DEF HistoriesGrow, Told, Placed

\* (an event joins a history and the outbox)
LEMMA RecordReads ==
  ASSUME KeyTypes, RelayTypes, ReadPart, OneDecision', HistoriesGrow,
         NEW row \in OutboxRow, outbox' = Append(outbox, row), Told(row)',
         UNCHANGED <<consumerVars, projection>>
  PROVE  ReadPart'
<1>1. /\ Len(outbox) \in Nat /\ Len(outbox') = Len(outbox) + 1
      /\ \A i \in 1..Len(outbox) : outbox'[i] = outbox[i] /\ outbox[i] \in OutboxRow
      /\ outbox'[Len(outbox) + 1] = row
  BY AppendKeeps DEF RelayTypes
<1>2. \A i \in 1..Len(outbox) : Told(outbox[i])'
  BY <1>1, ToldStays DEF ReadPart, ReadInv, Told
<1>3. \A i \in 1..Len(outbox') : Told(outbox[i])'
  BY <1>1, <1>2 DEF Told
<1>4. \A i \in 1..Len(log) : log'[i] = log[i] /\ log[i] \in OutboxRow
  BY DEF RelayTypes, consumerVars
<1>5. \A i \in 1..Len(log') : Told(log[i])'
  BY <1>4, ToldStays DEF ReadPart, ReadInv, Told, consumerVars
<1>6. ASSUME NEW o \in Orders PROVE projection'[o] \in {"NONE", "PENDING", Status(events'[o])}
  <2>1. projection[o] \in {"NONE", "PENDING", Status(events[o])} /\ projection[o] \in ProjectionStatus
    BY DEF ReadPart, ReadInv, ReadTypes
  <2>2. events'[o] = events[o] \/ Status(events[o]) \in {"NOT_FOUND", "PENDING"}
    BY Histories DEF HistoriesGrow, IsDecided, ReadPart, ReadInv
  <2>3. QED
    BY <2>1, <2>2 DEF ProjectionStatus
<1>7. ReadTypes'
  BY DEF ReadPart, ReadTypes, consumerVars
<1>8. QED
  BY <1>3, <1>5, <1>6, <1>7 DEF ReadPart, ReadInv

\* (a placement is the first event of its order)
LEMMA PlaceReads ==
  ASSUME KeyTypes, RelayTypes, ReadPart, NEW o \in Orders, Place(o),
         UNCHANGED <<consumerVars, projection>>
  PROVE  ReadPart'
<1> DEFINE row == [type |-> "order.placed", order |-> o]
<1>1. events[o] = << >> /\ events' = [events EXCEPT ![o] = Append(@, "order.placed")]
      /\ outbox' = Append(outbox, row)
  BY DEF Place, Record
<1>2. events'[o] = <<"order.placed">> /\ \A p \in Orders \ {o} : events'[p] = events[p]
  BY <1>1 DEF KeyTypes
<1>3. OneDecision'
  BY <1>2 DEF ReadPart, ReadInv, OneDecision
<1>4. HistoriesGrow
  BY <1>1, <1>2, StatusFacts DEF HistoriesGrow, IsDecided, Placed
<1>5. row \in OutboxRow /\ Told(row)'
  BY <1>2 DEF OutboxRow, EventTypes, Told, Placed, Decisions
<1>6. QED
  BY <1>1, <1>3, <1>4, <1>5, RecordReads

\* (a decision is the second and last)
LEMMA DecideReads ==
  ASSUME KeyTypes, RelayTypes, ReadPart, NEW o \in Orders, NEW d \in Decisions, Decide(o, d)
  PROVE  ReadPart'
<1> DEFINE row == [type |-> d, order |-> o]
<1>1. /\ events[o] = <<"order.placed">>
      /\ events' = [events EXCEPT ![o] = Append(@, d)]
      /\ outbox' = Append(outbox, row)
      /\ UNCHANGED <<consumerVars, projection>>
  BY PendingHistory DEF Decide, MayRaise, Record, ReadPart, ReadInv
<1>2. events'[o] = <<"order.placed", d>> /\ \A p \in Orders \ {o} : events'[p] = events[p]
  BY <1>1, DecisionAppended DEF KeyTypes
<1>3. OneDecision'
  BY <1>2 DEF ReadPart, ReadInv, OneDecision
<1>4. Status(events'[o]) = StatusOf(d)
  BY <1>2, StatusFacts DEF StatusOf, Decisions
<1>5. HistoriesGrow
  BY <1>1, <1>2, StatusFacts DEF HistoriesGrow, IsDecided, Placed
<1>6. row \in OutboxRow /\ Told(row)'
  BY <1>4 DEF OutboxRow, EventTypes, Told, Decisions
<1>7. QED
  BY <1>1, <1>3, <1>5, <1>6, RecordReads

\* (what is appended to the topic is a row of the outbox)
LEMMA SendReads ==
  ASSUME RelayTypes, ReadPart, NEW r \in Relays, Send(r)
  PROVE  ReadPart'
<1>1. PICK i \in Oldest(1, unsent[r]) : Produce(<<outbox[i]>>)
  BY DEF Send
<1>2. i \in 1..Len(outbox) /\ outbox[i] \in OutboxRow
  BY <1>1 DEF RelayTypes, Oldest
<1>3. UNCHANGED <<events, outbox, projection, loop, current, position, committed, owner>>
  BY <1>1 DEF Send, placementVars, storeVars, Produce
<1>4. /\ Len(log) \in Nat /\ Len(log') = Len(log) + 1
      /\ \A j \in 1..Len(log) : log'[j] = log[j]
      /\ log'[Len(log) + 1] = outbox[i]
  <2>1. log \in Seq(OutboxRow) /\ log' = Append(log, outbox[i])
    BY <1>1, <1>2 DEF Produce, RelayTypes
  <2>2. QED
    BY <1>2, <2>1, AppendKeeps
<1>5. \A j \in 1..Len(log') : Told(log[j])'
  BY <1>2, <1>3, <1>4 DEF ReadPart, ReadInv, Told, Placed
<1>6. \A j \in 1..Len(outbox') : Told(outbox[j])'
  BY <1>3 DEF ReadPart, ReadInv, Told, Placed
<1>7. ReadTypes'
  BY <1>3, <1>4 DEF ReadPart, ReadTypes
<1>8. QED
  BY <1>3, <1>5, <1>6, <1>7 DEF ReadPart, ReadInv, OneDecision

\* (what leaves histories, outbox and topic alone)
LEMMA ReadStays ==
  ASSUME ReadPart, ReadTypes', UNCHANGED <<events, outbox, log>>,
         \A o \in Orders : projection'[o] \in {"NONE", "PENDING", Status(events[o])}
  PROVE  ReadPart'
BY DEF ReadPart, ReadInv, OneDecision, Told, Placed

\* (the projector writes what it was told)
LEMMA ApplyReads ==
  ASSUME RelayTypes, ReadPart, NEW w \in Workers, Apply(w)
  PROVE  ReadPart'
<1> DEFINE event == InHand(w)
<1>1. /\ UNCHANGED <<events, outbox, log, current, position, committed, owner>>
      /\ loop' = [loop EXCEPT ![w] = "commit"]
      /\ loop[w] = "handle"
  BY DEF Apply, Handled, placementVars, storeVars
<1>2. /\ current[w] \in 1..Len(log)
      /\ event \in OutboxRow /\ Told(event)
  BY <1>1 DEF ReadPart, ReadTypes, ReadInv, RelayTypes, InHand
<1>3. ASSUME NEW o \in Orders
      PROVE  projection'[o] \in {"NONE", "PENDING", Status(events[o])} \cap ProjectionStatus
  <2>1. projection[o] \in {"NONE", "PENDING", Status(events[o])} \cap ProjectionStatus
    BY DEF ReadPart, ReadInv, ReadTypes
  <2>2. CASE event.order # o
    BY <2>1, <2>2 DEF Apply, ReadPart, ReadTypes
  <2>3. CASE event.order = o /\ event.type = "order.placed"
    BY <2>3 DEF Apply, ReadPart, ReadTypes, UpsertOrderPlaced, ProjectionStatus
  <2>4. CASE event.order = o /\ event.type \in Decisions
    <3>1. projection'[o] = UpdateStatus(projection[o], event.type)
      BY <2>4 DEF Apply, ReadPart, ReadTypes, Decisions
    <3>2. Status(events[o]) = StatusOf(event.type)
      BY <1>2, <2>4 DEF Told
    <3>3. QED
      BY <3>1, <3>2 DEF UpdateStatus, StatusOf, ProjectionStatus
  <2>5. QED
    BY <1>2, <2>2, <2>3, <2>4 DEF OutboxRow, EventTypes
<1>4. projection' \in [Orders -> ProjectionStatus]
  <2>1. projection' = [o \in Orders |-> projection'[o]]
    BY DEF Apply, ReadPart, ReadTypes
  <2>2. QED
    BY <1>3, <2>1
<1>5. ReadTypes'
  BY <1>1, <1>2, <1>4 DEF ReadPart, ReadTypes, LoopState
<1>6. QED
  BY <1>1, <1>3, <1>5, ReadStays

\* (the projector goes to another place of its loop)
LEMMA ProjectorReads ==
  ASSUME RelayTypes, ReadPart, NEW w \in Workers,
         ProjectorStep(w) \/ StopProjector(w) \/ RestartProjector(w)
  PROVE  ReadPart'
<1> USE DEF ReadTypes
<1>1. CASE FetchEvent(w)
  <2>1. UNCHANGED <<events, outbox, log, projection, committed, owner>>
    BY <1>1 DEF FetchEvent, Fetch, FetchFrom, placementVars, storeVars
  <2>2. PICK p \in Partitions : FetchFrom(w, p)
    BY <1>1 DEF FetchEvent, Fetch
  <2>3. PICK i \in DOMAIN log :
          /\ position' = [position EXCEPT ![p] = i]
          /\ current' = [current EXCEPT ![w] = i]
    BY <2>2 DEF FetchFrom
  <2>4. i \in 1..Len(log) /\ loop' = [loop EXCEPT ![w] = "handle"]
    BY <2>2 DEF FetchFrom, RelayTypes
  <2>5. ReadTypes'
    BY <2>1, <2>3, <2>4 DEF ReadPart, LoopState
  <2>6. QED
    BY <2>1, <2>5, ReadStays DEF ReadPart, ReadInv
<1>2. CASE CommitEvent(w)
  <2>1. UNCHANGED <<events, outbox, log, projection, position, owner>>
    BY <1>2 DEF CommitEvent, CommitOffset, placementVars, storeVars
  <2>2. /\ loop' = [loop EXCEPT ![w] = "fetch"]
        /\ current' = [current EXCEPT ![w] = 0]
        /\ committed' = [committed EXCEPT ![PartitionAt(current[w])] = current[w]]
    BY <1>2 DEF CommitEvent, CommitOffset
  <2>3. ReadTypes'
    BY <2>1, <2>2 DEF ReadPart, LoopState
  <2>4. QED
    BY <2>1, <2>3, ReadStays DEF ReadPart, ReadInv
<1>3. CASE StopProjector(w)
  <2>1. /\ UNCHANGED <<events, outbox, log, projection, committed, position, owner>>
        /\ loop' = [loop EXCEPT ![w] = "down"]
        /\ current' = [current EXCEPT ![w] = 0]
    BY <1>3 DEF StopProjector, Stop, placementVars, storeVars
  <2>2. ReadTypes'
    BY <2>1 DEF ReadPart, LoopState
  <2>3. QED
    BY <2>1, <2>2, ReadStays DEF ReadPart, ReadInv
<1>4. CASE RestartProjector(w)
  <2>1. /\ UNCHANGED <<events, outbox, log, projection, current, committed, owner>>
        /\ loop' = [loop EXCEPT ![w] = "fetch"]
        /\ position' = [p \in Partitions |->
                          IF owner[p] = w THEN committed[p] ELSE position[p]]
    BY <1>4 DEF RestartProjector, Restart, placementVars, storeVars
  <2>2. ReadTypes'
    BY <2>1 DEF ReadPart, LoopState
  <2>3. QED
    BY <2>1, <2>2, ReadStays DEF ReadPart, ReadInv
<1>5. QED
  BY <1>1, <1>2, <1>3, <1>4, ApplyReads DEF ProjectorStep

\* (the partitions change hands)
LEMMA RebalanceReads ==
  ASSUME ReadPart, NEW a \in [Partitions -> Workers], RebalanceProjectors(a)
  PROVE  ReadPart'
<1>1. /\ UNCHANGED <<events, outbox, log, projection, current, loop, committed>>
      /\ position' = committed /\ owner' = a
  BY DEF RebalanceProjectors, Rebalance, placementVars, storeVars
<1>2. ReadTypes'
  BY <1>1 DEF ReadPart, ReadTypes
<1>3. QED
  BY <1>1, <1>2, ReadStays DEF ReadPart, ReadInv

\* (every step keeps what is said of the reads)
LEMMA NextReads ==
  ASSUME KeyTypes, RelayTypes, ReadPart, [Next]_vars
  PROVE  ReadPart'
<1>1. ASSUME PlaceOrders PROVE ReadPart'
  <2>1. UNCHANGED <<consumerVars, projection>>
    BY <1>1 DEF PlaceOrders
  <2>2. \/ \E o \in Orders : Place(o)
        \/ UNCHANGED storeVars
    BY <1>1 DEF PlaceOrders, PlacementNext, Receive, ReserveKey, SaveOrder, FailRequest
  <2>3. CASE UNCHANGED storeVars
    <3>1. UNCHANGED <<events, outbox, log, projection>> /\ ReadTypes'
      BY <2>1, <2>3 DEF storeVars, consumerVars, ReadPart, ReadTypes
    <3>2. QED
      BY <3>1, ReadStays DEF ReadPart, ReadInv
  <2>4. QED
    BY <2>1, <2>2, <2>3, PlaceReads
<1>2. ASSUME NEW o \in Orders, NEW d \in Decisions, Decide(o, d) PROVE ReadPart'
  BY <1>2, DecideReads
<1>3. ASSUME NEW r \in Relays, Send(r) PROVE ReadPart'
  BY <1>3, SendReads
<1>4. CASE UNCHANGED <<events, outbox, consumerVars, projection>>
  <2>1. UNCHANGED log /\ ReadTypes'
    BY <1>4 DEF consumerVars, ReadPart, ReadTypes
  <2>2. QED
    BY <1>4, <2>1, ReadStays DEF ReadPart, ReadInv
<1>5. ASSUME NEW r \in Relays, Claim(r) \/ Mark(r) \/ FailCycle(r) PROVE ReadPart'
  BY <1>4, <1>5 DEF Claim, Mark, FailCycle, placementVars, storeVars
<1>6. ASSUME NEW w \in Workers,
             ProjectorStep(w) \/ StopProjector(w) \/ RestartProjector(w)
      PROVE  ReadPart'
  BY <1>6, ProjectorReads
<1>7. CASE UNCHANGED vars
  BY <1>4, <1>7 DEF vars, placementVars, storeVars
<1>8. QED
  BY <1>1, <1>2, <1>3, <1>5, <1>6, <1>7, RebalanceReads DEF Next, RelayStep

-----------------------------------------------------------------------------
(* The total of an order.                                                  *)

Items == Seq([quantity : Nat \ {0}, price : 0..(Half - 1)])
Amount == -Half..(Half - 1)

\* (remainders, as Wrap takes them)
LEMMA WrapFacts ==
  ASSUME NEW n \in Int
  PROVE  Wrap(n) \in Amount /\ (0 <= n /\ n < Half => Wrap(n) = n)
<1> DEFINE m == n + Half
           w == 2 * Half
<1>1. m \in Int /\ w \in Nat \ {0} /\ Half \in Nat \ {0} /\ w = Half + Half
  BY PlacementAssumption
<1>2. 0 <= n /\ n < Half => m \in Nat /\ m < w
  BY <1>1
<1>3. Wrap(n) = (m % w) - Half
  BY DEF Wrap
<1> HIDE DEF m, w
<1>4. m % w \in 0..(w - 1)
  BY <1>1
<1>5. m \in Nat /\ m < w => m % w = m
  BY <1>1
<1>6. Wrap(n) \in Amount
  BY <1>1, <1>3, <1>4 DEF Amount
<1>7. ASSUME 0 <= n, n < Half PROVE Wrap(n) = n
  <2>1. Wrap(n) = m - Half
    BY <1>2, <1>3, <1>5, <1>7
  <2>2. QED
    BY <1>1, <2>1 DEF m
<1>8. QED
  BY <1>6, <1>7

\* The two folds, as the recursions the library defines them by.
FoldsWrapped(it, items) ==
  it = [s \in SUBSET DOMAIN items |->
          IF s = {} THEN 0
          ELSE Wrap(it[s \ {Sequence!Max(s)}] + LineTotal(items[Sequence!Max(s)]))]

FoldsExactly(it, items) ==
  it = [s \in SUBSET DOMAIN items |->
          IF s = {} THEN 0
          ELSE it[s \ {Sequence!Max(s)}]
                 + items[Sequence!Max(s)].price * items[Sequence!Max(s)].quantity]

LEMMA TotalIsFold ==
  ASSUME NEW items
  PROVE  /\ Total(items) = (CHOOSE it : FoldsWrapped(it, items))[DOMAIN items]
         /\ ExactTotal(items) = (CHOOSE it : FoldsExactly(it, items))[DOMAIN items]
<1>1. Total(items) = (CHOOSE it : FoldsWrapped(it, items))[DOMAIN items]
  BY DEF Total, FoldsWrapped, Sequence!FoldLeft, Sequence!MapThenFoldSet
<1>2. ExactTotal(items) = (CHOOSE it : FoldsExactly(it, items))[DOMAIN items]
  BY DEF ExactTotal, FoldsExactly, Sequence!FoldLeft, Sequence!MapThenFoldSet
<1>3. QED
  BY <1>1, <1>2

\* (the largest element of a finite set of numbers is one of them)
LEMMA MaxFacts ==
  ASSUME NEW n \in Nat, NEW s \in SUBSET (1..n), s # {}
  PROVE  Sequence!Max(s) \in s /\ \A k \in s : Sequence!Max(s) >= k
<1> DEFINE T == {n - k : k \in s}
<1>1. T \subseteq Nat /\ T # {}
  <2>1. ASSUME NEW k \in s PROVE n - k \in Nat
    <3>1. k \in 1..n
      OBVIOUS
    <3>2. QED
      BY <3>1
  <2>2. PICK k \in s : TRUE
    OBVIOUS
  <2>3. n - k \in T
    BY <2>2
  <2>4. QED
    BY <2>1, <2>3
<1>2. PICK m \in T : \A k \in T : m <= k
  BY <1>1, Minimum
<1>3. PICK x \in s : m = n - x
  BY <1>2
<1>4. \A k \in s : x >= k
  <2>1. ASSUME NEW k \in s PROVE x >= k
    <3>1. n - k \in T /\ x \in Int /\ k \in Int
      OBVIOUS
    <3>2. n - x <= n - k
      BY <1>2, <1>3, <3>1
    <3>3. QED
      BY <3>1, <3>2
  <2>2. QED
    BY <2>1
<1>5. QED
  BY <1>4 DEF Sequence!Max

\* (the price of an item, and what it comes to in an int64)
LEMMA LineFacts ==
  ASSUME NEW items \in Items, NEW i \in DOMAIN items
  PROVE  /\ items[i].price * items[i].quantity \in Nat
         /\ LineTotal(items[i]) \in Amount
         /\ items[i].price * items[i].quantity < Half =>
              LineTotal(items[i]) = items[i].price * items[i].quantity
<1> DEFINE a == items[i].price
           b == items[i].quantity
<1>1. a \in Nat /\ b \in Nat
  <2> DEFINE Item == [quantity : Nat \ {0}, price : 0..(Half - 1)]
  <2>1. items[i] \in Item
    <3>1. items \in Seq(Item)
      BY DEF Items
    <3> HIDE DEF Item
    <3>2. i \in 1..Len(items)
      BY <3>1
    <3>3. QED
      BY <3>1, <3>2, ElementOfSeq
  <2>2. a \in 0..(Half - 1) /\ b \in Nat \ {0}
    BY <2>1
  <2>3. QED
    BY <2>2, PlacementAssumption
<1>2. LineTotal(items[i]) = Wrap(a * b)
  BY DEF LineTotal
<1> HIDE DEF a, b
<1>3. a * b \in Nat
  BY <1>1
<1>4. LineTotal(items[i]) \in Amount /\ (a * b < Half => LineTotal(items[i]) = a * b)
  BY <1>2, <1>3, WrapFacts
<1>5. QED
  BY <1>3, <1>4 DEF a, b

\* (both recursions have a solution)
LEMMA FoldsExist ==
  ASSUME NEW items \in Items
  PROVE  (\E it : FoldsWrapped(it, items)) /\ (\E it : FoldsExactly(it, items))
<1> DEFINE S == DOMAIN items
           p == [s \in SUBSET S |-> Sequence!Max(s)]
           F == [e \in S \X Int |-> Wrap(e[2] + LineTotal(items[e[1]]))]
           G == [e \in S \X Int |-> e[2] + items[e[1]].price * items[e[1]].quantity]
<1>1. S = 1..Len(items) /\ Len(items) \in Nat /\ IsFiniteSet(S)
  BY FS_Interval DEF Items
<1>2. \A s \in SUBSET S : s # {} => p[s] \in s
  BY <1>1, MaxFacts
<1>3. ASSUME NEW i \in S, NEW n \in Int
      PROVE  /\ F[<<i, n>>] = Wrap(n + LineTotal(items[i])) /\ F[<<i, n>>] \in Int
             /\ G[<<i, n>>] = n + items[i].price * items[i].quantity /\ G[<<i, n>>] \in Int
  <2>1. LineTotal(items[i]) \in Int /\ items[i].price * items[i].quantity \in Nat
    BY LineFacts, PlacementAssumption DEF Amount
  <2>2. Wrap(n + LineTotal(items[i])) \in Int
    BY <2>1, WrapFacts, PlacementAssumption DEF Amount
  <2>3. n + items[i].price * items[i].quantity \in Int
    BY <2>1
  <2>4. QED
    BY <2>2, <2>3
<1>4. \A s \in SUBSET S : s # {} => s \ {p[s]} \in SUBSET S /\ p[s] \in S /\ p[s] = Sequence!Max(s)
  BY <1>2
<1> HIDE DEF F, G, p
<1>5. \E it : FoldsWrapped(it, items)
  <2>1. PICK it \in [SUBSET S -> Int] : \A s \in SUBSET S : Unfolds(it, s, 0, F, p)
    <3>1. 0 \in Int /\ \A i \in S, k \in Int : F[<<i, k>>] \in Int
      BY <1>3
    <3> HIDE DEF S
    <3>2. QED
      BY <1>1, <1>2, <3>1, RecursionExists, ZenonT(60)
  <2>2. ASSUME NEW s \in SUBSET S
        PROVE  it[s] = IF s = {} THEN 0
                       ELSE Wrap(it[s \ {Sequence!Max(s)}] + LineTotal(items[Sequence!Max(s)]))
    <3>1. it[s] = IF s = {} THEN 0 ELSE F[<<p[s], it[s \ {p[s]}]>>]
      BY <2>1 DEF Unfolds
    <3>2. CASE s = {}
      BY <3>1, <3>2
    <3>3. CASE s # {}
      <4>1. p[s] \in S /\ p[s] = Sequence!Max(s) /\ it[s \ {p[s]}] \in Int
        BY <1>4, <2>1, <3>3
      <4>2. QED
        BY <1>3, <3>1, <3>3, <4>1
    <3>4. QED
      BY <3>2, <3>3
  <2>3. QED
    BY <2>1, <2>2 DEF FoldsWrapped
<1>6. \E it : FoldsExactly(it, items)
  <2>1. PICK it \in [SUBSET S -> Int] : \A s \in SUBSET S : Unfolds(it, s, 0, G, p)
    <3>1. 0 \in Int /\ \A i \in S, k \in Int : G[<<i, k>>] \in Int
      BY <1>3
    <3> HIDE DEF S
    <3>2. QED
      BY <1>1, <1>2, <3>1, RecursionExists, ZenonT(60)
  <2>2. ASSUME NEW s \in SUBSET S
        PROVE  it[s] = IF s = {} THEN 0
                       ELSE it[s \ {Sequence!Max(s)}]
                              + items[Sequence!Max(s)].price * items[Sequence!Max(s)].quantity
    <3>1. it[s] = IF s = {} THEN 0 ELSE G[<<p[s], it[s \ {p[s]}]>>]
      BY <2>1 DEF Unfolds
    <3>2. CASE s = {}
      BY <3>1, <3>2
    <3>3. CASE s # {}
      <4>1. p[s] \in S /\ p[s] = Sequence!Max(s) /\ it[s \ {p[s]}] \in Int
        BY <1>4, <2>1, <3>3
      <4>2. QED
        BY <1>3, <3>1, <3>3, <4>1
    <3>4. QED
      BY <3>2, <3>3
  <2>3. QED
    BY <2>1, <2>2 DEF FoldsExactly
<1>7. QED
  BY <1>5, <1>6

(***************************************************************************)
(* The total fits its width, and it is the exact one when that one does:   *)
(* amounts are not negative, so no partial sum is above the exact total    *)
(* and none of the additions on the way wraps (Money.Add).                 *)
(***************************************************************************)
LEMMA TotalFacts ==
  ASSUME NEW items \in Items
  PROVE  /\ Total(items) \in Amount
         /\ ExactTotal(items) < Half => Total(items) = ExactTotal(items) /\ Total(items) >= 0
<1> DEFINE n == Len(items)
           tot == CHOOSE it : FoldsWrapped(it, items)
           ex == CHOOSE it : FoldsExactly(it, items)
           T == {k \in Nat : k <= n =>
                   /\ ex[1..k] \in Nat /\ tot[1..k] \in Amount
                   /\ ex[1..k] < Half => tot[1..k] = ex[1..k]}
<1>1. n \in Nat /\ DOMAIN items = 1..n /\ Half \in Nat \ {0}
  BY PlacementAssumption DEF Items
<1>2. FoldsWrapped(tot, items) /\ FoldsExactly(ex, items)
  BY FoldsExist
<1> HIDE DEF tot, ex
<1>3. ASSUME NEW k \in 1..n
      PROVE  /\ tot[1..k] = Wrap(tot[1..(k - 1)] + LineTotal(items[k]))
             /\ ex[1..k] = ex[1..(k - 1)] + items[k].price * items[k].quantity
  <2>1. 1..k \in SUBSET (1..n) /\ 1..k # {} /\ k \in 1..k
    BY <1>1
  <2>2. Sequence!Max(1..k) = k
    <3>1. Sequence!Max(1..k) \in 1..k /\ Sequence!Max(1..k) >= k
      BY <1>1, <2>1, MaxFacts
    <3>2. QED
      BY <3>1
  <2>3. (1..k) \ {k} = 1..(k - 1)
    OBVIOUS
  <2>4. tot[1..k] = Wrap(tot[(1..k) \ {k}] + LineTotal(items[k]))
    BY <1>1, <1>2, <2>1, <2>2 DEF FoldsWrapped
  <2>5. ex[1..k] = ex[(1..k) \ {k}] + items[k].price * items[k].quantity
    BY <1>1, <1>2, <2>1, <2>2 DEF FoldsExactly
  <2>6. QED
    BY <2>3, <2>4, <2>5
<1>4. 0 \in T
  <2>1. 1..0 = {} /\ {} \in SUBSET DOMAIN items
    OBVIOUS
  <2>2. tot[{}] = 0 /\ ex[{}] = 0
    BY <1>2, <2>1 DEF FoldsWrapped, FoldsExactly
  <2>3. QED
    BY <1>1, <2>1, <2>2 DEF Amount
<1>5. ASSUME NEW k \in Nat, k \in T PROVE k + 1 \in T
  <2> SUFFICES ASSUME k + 1 <= n
               PROVE  /\ ex[1..(k + 1)] \in Nat /\ tot[1..(k + 1)] \in Amount
                      /\ ex[1..(k + 1)] < Half => tot[1..(k + 1)] = ex[1..(k + 1)]
    OBVIOUS
  <2> DEFINE price == items[k + 1].price * items[k + 1].quantity
             line == LineTotal(items[k + 1])
             t == tot[1..k]
             e == ex[1..k]
  <2>1. k + 1 \in 1..n /\ (k + 1) - 1 = k
    BY <1>1
  <2>2. price \in Nat /\ line \in Amount /\ (price < Half => line = price)
    BY <1>1, <2>1, LineFacts
  <2>3. e \in Nat /\ t \in Amount /\ (e < Half => t = e)
    BY <1>1, <1>5
  <2>4. tot[1..(k + 1)] = Wrap(t + line) /\ ex[1..(k + 1)] = e + price
    BY <1>3, <2>1
  <2> HIDE DEF price, line, t, e
  <2>5. t + line \in Int
    BY <1>1, <2>2, <2>3 DEF Amount
  <2>6. Wrap(t + line) \in Amount /\ (0 <= t + line /\ t + line < Half => Wrap(t + line) = t + line)
    BY <2>5, WrapFacts
  <2>7. e + price < Half => t + line = e + price /\ 0 <= t + line
    BY <1>1, <2>2, <2>3
  <2>8. e + price \in Nat
    BY <2>2, <2>3
  <2>9. QED
    BY <2>4, <2>6, <2>7, <2>8
<1>6. n \in T
  <2>1. \A k \in Nat : k \in T
    BY <1>4, <1>5, SetInduction
  <2>2. QED
    BY <1>1, <2>1
<1>7. Total(items) = tot[1..n] /\ ExactTotal(items) = ex[1..n]
  BY <1>1, TotalIsFold DEF tot, ex
<1>8. QED
  BY <1>1, <1>6, <1>7

\* (the total of a request's items)
LEMMA BodyFacts ==
  ASSUME KeyTypes, NEW o \in Orders
  PROVE  /\ request[o].body.items \in Items
         /\ Total(request[o].body.items) \in -Half..(Half - 1)
<1>1. request[o].body \in Bodies
  BY DEF KeyTypes, Request
<1>2. request[o].body.items \in Items
  BY <1>1, PlacementAssumption DEF Items
<1>3. QED
  BY <1>2, TotalFacts DEF Amount

\* (what gives no order its first event, and changes no request that has one)
LEMMA TotalStays ==
  ASSUME TotalInv, UNCHANGED total,
         \A o \in Orders : Placed(o)' => Placed(o) /\ request'[o].body = request[o].body
  PROVE  TotalInv'
BY DEF TotalInv

\* (every step keeps the totals)
LEMMA NextTotals ==
  ASSUME KeyPart, TotalInv, [Next]_vars
  PROVE  TotalInv'
<1>1. ASSUME NEW o \in Orders, Goto(o, "save") \/ Goto(o, "done")
      PROVE  \A p \in Orders : request'[p].body = request[p].body
  <2>1. CASE Goto(o, "save")
    BY <2>1 DEF KeyPart, KeyTypes, Goto, Request
  <2>2. CASE Goto(o, "done")
    BY <2>2 DEF KeyPart, KeyTypes, Goto, Request
  <2>3. QED
    BY <1>1, <2>1, <2>2
<1>2. ASSUME NEW o \in Orders, NEW k \in Keys, NEW b \in Bodies, Receive(o, k, b)
      PROVE  TotalInv'
  <2>1. UNCHANGED <<events, total>> /\ ~Placed(o)
    BY <1>2 DEF Receive, storeVars, KeyPart, KeyInv, Placed
  <2>2. \A p \in Orders \ {o} : request'[p] = request[p]
    BY <1>2 DEF Receive, KeyPart, KeyTypes
  <2>3. QED
    BY <2>1, <2>2, TotalStays DEF Placed
<1>3. ASSUME NEW o \in Orders, ReserveKey(o) PROVE TotalInv'
  <2>1. \A p \in Orders : request'[p].body = request[p].body
    BY <1>1, <1>3 DEF ReserveKey
  <2>2. UNCHANGED <<events, total>>
    BY <1>3 DEF ReserveKey, storeVars
  <2>3. QED
    BY <2>1, <2>2, TotalStays DEF Placed
<1>4. ASSUME NEW o \in Orders, FailRequest(o) PROVE TotalInv'
  <2>1. UNCHANGED <<events, total>>
    BY <1>4 DEF FailRequest, storeVars
  <2>2. QED
    BY <1>1, <1>4, <2>1, TotalStays DEF FailRequest, Placed
<1>5. ASSUME NEW o \in Orders, SaveOrder(o) PROVE TotalInv'
  <2>1. \A p \in Orders : request'[p].body = request[p].body
    BY <1>1, <1>5 DEF SaveOrder
  <2>2. CASE Place(o) /\ total' = [total EXCEPT ![o] = Total(request[o].body.items)]
    <3>1. \A p \in Orders \ {o} : events'[p] = events[p]
      BY <2>2, RecordKeys DEF Place, KeyPart, EventTypes
    <3>2. Total(request[o].body.items) \in -Half..(Half - 1)
      BY BodyFacts DEF KeyPart
    <3>3. total' \in [Orders -> -Half..(Half - 1)]
      BY <2>2, <3>2 DEF TotalInv
    <3>4. total'[o] = Total(request[o].body.items) /\ \A p \in Orders \ {o} : total'[p] = total[p]
      BY <2>2 DEF TotalInv
    <3>5. ASSUME NEW p \in Orders, Placed(p)' PROVE total'[p] = Total(request'[p].body.items)
      BY <2>1, <3>1, <3>4, <3>5 DEF TotalInv, Placed
    <3>6. QED
      BY <3>3, <3>5 DEF TotalInv
  <2>3. CASE UNCHANGED <<storeVars, total>>
    BY <2>1, <2>3, TotalStays DEF Placed, storeVars
  <2>4. QED
    BY <1>5, <2>2, <2>3 DEF SaveOrder
<1>6. ASSUME NEW o \in Orders, NEW d \in Decisions, Decide(o, d) PROVE TotalInv'
  <2>1. UNCHANGED <<request, total>> /\ Placed(o)
    BY <1>6 DEF Decide, MayRaise, Status, Placed
  <2>2. \A p \in Orders \ {o} : events'[p] = events[p]
    BY <1>6, RecordKeys DEF Decide, EventTypes, KeyPart
  <2>3. QED
    BY <2>1, <2>2, TotalStays DEF Placed
<1>7. CASE UNCHANGED <<events, request, total>>
  BY <1>7, TotalStays DEF Placed
<1>8. ASSUME NEW r \in Relays, RelayStep(r) \/ FailCycle(r)
      PROVE  UNCHANGED <<events, request, total>>
  BY <1>8 DEF RelayStep, Claim, Send, Mark, FailCycle, placementVars, storeVars
<1>9. ASSUME NEW w \in Workers,
             ProjectorStep(w) \/ StopProjector(w) \/ RestartProjector(w)
      PROVE  UNCHANGED <<events, request, total>>
  BY <1>9 DEF ProjectorStep, FetchEvent, Apply, CommitEvent, StopProjector, RestartProjector,
              placementVars, storeVars
<1>10. ASSUME NEW a \in [Partitions -> Workers], RebalanceProjectors(a)
       PROVE  UNCHANGED <<events, request, total>>
  BY <1>10 DEF RebalanceProjectors, placementVars, storeVars
<1>11. QED
  BY <1>2, <1>3, <1>4, <1>5, <1>6, <1>7, <1>8, <1>9, <1>10
     DEF Next, PlaceOrders, PlacementNext, vars, placementVars, storeVars

-----------------------------------------------------------------------------
(* The rows relays lock and mark.                                          *)

\* (rows are finitely many)
LEMMA RowsFinite ==
  ASSUME RelayTypes, NEW S \in SUBSET (1..Len(outbox))
  PROVE  /\ IsFiniteSet(S) /\ Cardinality(S) \in Nat
         /\ Cardinality(S) <= Len(outbox)
<1>1. Len(outbox) \in Nat
  BY DEF RelayTypes
<1>2. IsFiniteSet(1..Len(outbox)) /\ Cardinality(1..Len(outbox)) = Len(outbox)
  BY <1>1, FS_Interval
<1>3. QED
  BY <1>1, <1>2, FS_Subset, FS_CardinalityType

\* (every step keeps the batches apart and the count of marked rows right)
LEMMA NextDrains ==
  ASSUME RelayTypes, DrainInv, [Next]_vars
  PROVE  DrainInv'
<1>1. CASE UNCHANGED <<relayed, relayVars>>
  BY <1>1 DEF DrainInv, relayVars
<1>2. ASSUME NEW r \in Relays, Claim(r) PROVE DrainInv'
  <2> DEFINE rows == Oldest(BatchSize, Available)
  <2>1. rows \subseteq Available
    BY DEF Oldest
  <2>2. rows \cap marked = {} /\ \A q \in Relays : rows \cap batch[q] = {}
    BY <2>1 DEF Available, Locked
  <2>3. /\ batch' = [batch EXCEPT ![r] = rows] /\ unsent' = [unsent EXCEPT ![r] = rows]
        /\ UNCHANGED <<relayed, marked>>
    BY <1>2 DEF Claim, placementVars, storeVars
  <2> HIDE DEF rows
  <2>4. QED
    BY <2>2, <2>3 DEF DrainInv, RelayTypes
<1>3. ASSUME NEW r \in Relays, Send(r) PROVE DrainInv'
  <2>1. /\ UNCHANGED <<relayed, marked, batch>>
        /\ \E i : unsent' = [unsent EXCEPT ![r] = @ \ {i}]
    BY <1>3 DEF Send, placementVars, storeVars
  <2>2. QED
    BY <2>1 DEF DrainInv, RelayTypes
<1>4. ASSUME NEW r \in Relays, Mark(r) PROVE DrainInv'
  <2>1. /\ marked' = marked \cup batch[r] /\ relayed' = relayed + Cardinality(batch[r])
        /\ batch' = [batch EXCEPT ![r] = {}] /\ unsent' = [unsent EXCEPT ![r] = {}]
    BY <1>4 DEF Mark
  <2>2. relayed' = Cardinality(marked')
    <3>1. IsFiniteSet(marked) /\ IsFiniteSet(batch[r]) /\ batch[r] \cap marked = {}
      BY RowsFinite DEF RelayTypes, DrainInv
    <3>2. Cardinality(marked \cup batch[r]) =
            Cardinality(marked) + Cardinality(batch[r]) - Cardinality(marked \cap batch[r])
      BY <3>1, FS_Union
    <3>3. Cardinality(marked \cap batch[r]) = 0
      BY <3>1, FS_EmptySet
    <3>4. Cardinality(marked) \in Nat /\ Cardinality(batch[r]) \in Nat
      BY <3>1, FS_CardinalityType
    <3>5. QED
      BY <2>1, <3>2, <3>3, <3>4 DEF DrainInv
  <2>3. QED
    BY <2>1, <2>2 DEF DrainInv, RelayTypes
<1>5. ASSUME NEW r \in Relays, FailCycle(r) PROVE DrainInv'
  <2>1. /\ UNCHANGED <<relayed, marked>>
        /\ batch' = [batch EXCEPT ![r] = {}] /\ unsent' = [unsent EXCEPT ![r] = {}]
    BY <1>5 DEF FailCycle, placementVars, storeVars
  <2>2. QED
    BY <2>1 DEF DrainInv, RelayTypes
<1>6. CASE PlaceOrders
  BY <1>1, <1>6 DEF PlaceOrders, PlacementNext, Receive, ReserveKey, SaveOrder, FailRequest,
                    Place, Record, storeVars
<1>7. ASSUME NEW o \in Orders, NEW d \in Decisions, Decide(o, d) PROVE DrainInv'
  BY <1>1, <1>7 DEF Decide, Record
<1>8. ASSUME NEW w \in Workers,
             ProjectorStep(w) \/ StopProjector(w) \/ RestartProjector(w)
      PROVE  DrainInv'
  BY <1>1, <1>8 DEF ProjectorStep, FetchEvent, Apply, CommitEvent, StopProjector,
                    RestartProjector, placementVars, storeVars
<1>9. ASSUME NEW a \in [Partitions -> Workers], RebalanceProjectors(a) PROVE DrainInv'
  BY <1>1, <1>9 DEF RebalanceProjectors, placementVars, storeVars
<1>10. QED
  BY <1>1, <1>2, <1>3, <1>4, <1>5, <1>6, <1>7, <1>8, <1>9
     DEF Next, RelayStep, vars, placementVars, storeVars

\* (every step keeps the bounds)
LEMMA NextBounds ==
  ASSUME BoundTypes, [Next]_vars
  PROVE  BoundTypes'
<1> DEFINE boundVars == <<deadLetters, rebalances, relayFailures, stops>>
<1> USE DEF BoundTypes
<1>1. CASE UNCHANGED boundVars
  BY <1>1
<1>2. ASSUME NEW r \in Relays, RelayStep(r) \/ FailCycle(r) PROVE BoundTypes'
  <2>1. CASE RelayStep(r)
    BY <1>1, <2>1 DEF RelayStep, Claim, Send, Mark, Produce, consumerVars
  <2>2. CASE FailCycle(r)
    BY <2>2, OrderServiceAssumption DEF FailCycle, consumerVars
  <2>3. QED
    BY <1>2, <2>1, <2>2
<1>3. ASSUME NEW w \in Workers, ProjectorStep(w) \/ RestartProjector(w) PROVE BoundTypes'
  BY <1>1, <1>3 DEF ProjectorStep, FetchEvent, Fetch, FetchFrom, Apply, Handled, CommitEvent, CommitOffset,
                    RestartProjector, Restart
<1>4. ASSUME NEW w \in Workers, StopProjector(w) PROVE BoundTypes'
  BY <1>4, OrderServiceAssumption DEF StopProjector, Stop
<1>5. ASSUME NEW a \in [Partitions -> Workers], RebalanceProjectors(a) PROVE BoundTypes'
  BY <1>5, ConsumerAssumption DEF RebalanceProjectors, Rebalance
<1>6. QED
  BY <1>1, <1>2, <1>3, <1>4, <1>5 DEF Next, PlaceOrders, Decide, vars, consumerVars

-----------------------------------------------------------------------------
(***************************************************************************)
(* The inductive invariant: who holds which key, what of its batch each    *)
(* relay has sent, and what each order comes to.                           *)
(***************************************************************************)
THEOREM InvariantHolds == Spec => []IInv
<1>1. Init => IInv
  BY InitInv
<1>2. IInv /\ [Next]_vars => IInv'
  BY NextKeys, NextRelays, NextReads, NextTotals, NextDrains, NextBounds
     DEF IInv, KeyPart, RelayPart, ReadPart
<1>3. QED
  BY <1>1, <1>2, PTL DEF Spec

(***************************************************************************)
(* At most one order per idempotency key, and every answer names it        *)
(* (IdempotencyStore.Reserve, PlaceOrderHandler.Handle).                   *)
(***************************************************************************)
THEOREM OneOrderPerKeyAlways == Spec => []OneOrderPerKey
<1>1. IInv => OneOrderPerKey
  BY DEF IInv, KeyInv, OneOrderPerKey, Placed
<1>2. QED
  BY <1>1, InvariantHolds, PTL

(***************************************************************************)
(* While the true total fits the integer, the total stored is the true one *)
(* and the order can be loaded (Money.Add, NewMoney).                      *)
(***************************************************************************)
THEOREM TotalIsExactInRangeAlways == Spec => []TotalIsExactInRange
<1>1. ASSUME IInv PROVE TotalIsExactInRange
  <2> SUFFICES ASSUME NEW o \in Orders, Placed(o),
                      ExactTotal(request[o].body.items) < Half
               PROVE  Loadable(o) /\ total[o] = ExactTotal(request[o].body.items)
    BY DEF TotalIsExactInRange
  <2>1. request[o].body.items \in Items /\ total[o] = Total(request[o].body.items)
    BY <1>1, BodyFacts DEF IInv, TotalInv
  <2>2. QED
    BY <2>1, TotalFacts DEF Loadable
<1>2. QED
  BY <1>1, InvariantHolds, PTL

(***************************************************************************)
(* The order service keeps its types: among them, that every row marked is *)
(* counted once, so no two relays mark the same row (FOR UPDATE SKIP       *)
(* LOCKED).                                                                *)
(***************************************************************************)
THEOREM OrderServiceTypes == Spec => []TypeOK
<1>1. ASSUME IInv PROVE TypeOK
  <2>1. StoreTypeOK
    <3>1. relayed \in Nat /\ relayed <= Len(outbox) /\ Len(outbox) \in Nat
      BY <1>1, RowsFinite DEF IInv, RelayTypes, DrainInv
    <3>2. QED
      BY <1>1, <3>1 DEF IInv, StoreTypeOK, KeyTypes, RelayTypes
  <2>2. PlacementTypeOK
    BY <1>1, <2>1 DEF IInv, PlacementTypeOK, KeyTypes, TotalInv
  <2>3. ConsumerTypeOK(OutboxRow)
    BY <1>1 DEF IInv, ConsumerTypeOK, RelayTypes, ReadTypes, BoundTypes
  <2>4. QED
    BY <1>1, <2>2, <2>3 DEF IInv, TypeOK, RelayTypes, DrainInv, ReadTypes, BoundTypes
<1>2. QED
  BY <1>1, InvariantHolds, PTL

(***************************************************************************)
(* A row marked published is in the topic, whatever relays overlap or fail *)
(* (RelayStore.DrainBatch marks after the publish).                        *)
(***************************************************************************)
THEOREM MarkedIsPublishedAlways == Spec => []MarkedIsPublished
<1>1. IInv => MarkedIsPublished
  <2> SUFFICES ASSUME IInv, NEW i \in marked PROVE outbox[i] \in Sequence!ToSet(log)
    BY DEF MarkedIsPublished
  <2>1. PICK j \in 1..Len(log) : log[j] = outbox[i]
    BY DEF IInv, RelayInv, Published
  <2>2. j \in DOMAIN log
    BY DEF IInv, RelayTypes
  <2>3. QED
    BY <2>1, <2>2 DEF Sequence!ToSet
<1>2. QED
  BY <1>1, InvariantHolds, PTL

(***************************************************************************)
(* What a client reads is a status its order has or had: the events on the *)
(* way through outbox, topic and read model say nothing that did not       *)
(* happen, however often they are sent and applied (get_order.go Handle).  *)
(***************************************************************************)
THEOREM ReadsAreTrueAlways == Spec => []ReadsAreTrue
<1>1. IInv => ReadsAreTrue
  BY DEF IInv, ReadInv, ReadTypes, ReadsAreTrue, Read, ProjectionStatus
<1>2. QED
  BY <1>1, InvariantHolds, PTL

-----------------------------------------------------------------------------
(***************************************************************************)
(* One projector process: what the read model shows at the topic's end.    *)
(*                                                                         *)
(* With one process a message of a partition applied again is the last one *)
(* committed or the one after it, so what the read model shows of an order *)
(* is never more than one message away from what the committed messages of *)
(* its partition say.  With a second process, which may apply an old       *)
(* message after the new owner has gone on, it can be.                     *)
(***************************************************************************)
OneProjector == \A v, w \in Workers : v = w

PlacedRow(o) == [type |-> "order.placed", order |-> o]
PlacedBefore(o, n) == \E j \in 1..n : log[j] = PlacedRow(o)

\* A decision comes after a placement of its order.
FirstInv ==
  /\ \A i \in 1..Len(outbox) :
       outbox[i].type \in Decisions => PlacedBefore(outbox[i].order, Len(log))
  /\ \A i \in 1..Len(log) : log[i].type \in Decisions => PlacedBefore(log[i].order, i - 1)

Effect(event) == IF event.type = "order.placed" THEN "PENDING" ELSE StatusOf(event.type)

Handles(w) == loop[w] \in {"handle", "commit"}

\* The reader of the partition has delivered the message at offset i.
Delivered(i) == i <= position[PartitionAt(i)]

\* The first message of its partition the group is not past.
IsHead(i) ==
  /\ ~Passed(i)
  /\ \A j \in 1..(i - 1) : PartitionAt(j) = PartitionAt(i) => Passed(j)

\* The messages of the partition before i are passed, none after it is.
AtTheEdge(i) ==
  \A j \in 1..Len(log) :
    PartitionAt(j) = PartitionAt(i) => (j < i => Passed(j)) /\ (j > i => ~Passed(j))

\* Where a lone projector is: at most one message past what is committed, and
\* its reader at most one message behind it.
PlaceInv(w) ==
  /\ \A p \in Partitions : committed[p] <= Len(log) /\ position[p] <= Len(log)
  /\ Handles(w) => AtTheEdge(current[w])
  /\ loop[w] # "down" =>
       \A i \in 1..Len(log) : Delivered(i) => Passed(i) \/ (Handles(w) /\ current[w] = i)
  /\ loop[w] # "down" =>
       \A i \in 1..Len(log) : Passed(i) /\ ~Delivered(i) =>
         /\ AtTheEdge(i)
         /\ Handles(w) => PartitionAt(current[w]) # PartitionAt(i)

\* The read model shows of o what the last message passed says of it.
ShowsPassed(o) ==
  \A i \in 1..Len(log) :
    /\ log[i].order = o /\ Passed(i)
    /\ \A j \in (i + 1)..Len(log) : log[j].order = o => ~Passed(j)
    => projection[o] = Effect(log[i])

\* It shows what the first message not passed says.
ShowsHead(o) ==
  \E i \in 1..Len(log) : IsHead(i) /\ log[i].order = o /\ projection[o] = Effect(log[i])

ShowInv(w) ==
  /\ \A i \in 1..Len(log) : Passed(i) => projection[log[i].order] # "NONE"
  /\ \A o \in Orders : ShowsPassed(o) \/ ShowsHead(o)
  /\ loop[w] = "commit" => projection[InHand(w).order] = Effect(InHand(w))

\* (the messages of the topic)
LEMMA MessageFacts ==
  ASSUME RelayTypes, NEW i \in 1..Len(log)
  PROVE  log[i] \in OutboxRow /\ log[i].order \in Orders /\ log[i].type \in EventTypes
<1>1. log[i] \in OutboxRow
  BY DEF RelayTypes
<1>2. QED
  BY <1>1 DEF OutboxRow

\* (what is in the topic stays where it is)
LEMMA TopicGrows ==
  ASSUME RelayTypes, NEW r \in Relays, Send(r)
  PROVE  \E i \in 1..Len(outbox) :
           /\ Len(log) \in Nat /\ Len(log') = Len(log) + 1
           /\ \A j \in 1..Len(log) : log'[j] = log[j]
           /\ log'[Len(log) + 1] = outbox[i]
<1>1. PICK i \in Oldest(1, unsent[r]) : Produce(<<outbox[i]>>)
  BY DEF Send
<1>2. i \in 1..Len(outbox) /\ outbox[i] \in OutboxRow
  BY <1>1 DEF RelayTypes, Oldest
<1>3. log \in Seq(OutboxRow) /\ log' = Append(log, outbox[i])
  BY <1>1, <1>2 DEF Produce, RelayTypes
<1>4. QED
  BY <1>2, <1>3, AppendKeeps

\* (every step keeps placements first)
LEMMA NextFirst ==
  ASSUME RelayTypes, FirstInv, [Next]_vars
  PROVE  FirstInv'
<1>1. CASE UNCHANGED <<outbox, log>>
  BY <1>1 DEF FirstInv, PlacedBefore
<1>2. ASSUME NEW r \in Relays, Send(r) PROVE FirstInv'
  <2>1. PICK i \in 1..Len(outbox) :
          /\ Len(log) \in Nat /\ Len(log') = Len(log) + 1
          /\ \A j \in 1..Len(log) : log'[j] = log[j]
          /\ log'[Len(log) + 1] = outbox[i]
    BY <1>2, TopicGrows
  <2>2. \A o, n : n \in 0..Len(log) /\ PlacedBefore(o, n) => PlacedBefore(o, n)'
    BY <2>1 DEF PlacedBefore
  <2>3. \A o : PlacedBefore(o, Len(log)) => PlacedBefore(o, Len(log))'
    <3>1. ASSUME NEW o, PlacedBefore(o, Len(log)) PROVE PlacedBefore(o, Len(log))'
      <4>1. PICK j \in 1..Len(log) : log[j] = PlacedRow(o)
        BY <3>1 DEF PlacedBefore
      <4>2. j \in 1..Len(log') /\ log'[j] = PlacedRow(o)
        BY <2>1, <4>1
      <4>3. QED
        BY <4>2 DEF PlacedBefore, PlacedRow
    <3>2. QED
      BY <3>1
  <2>4. UNCHANGED outbox
    BY <1>2 DEF Send, placementVars, storeVars
  <2>5. \A k \in 1..Len(outbox') :
          outbox'[k].type \in Decisions => PlacedBefore(outbox[k].order, Len(log))'
    BY <2>3, <2>4 DEF FirstInv
  <2>6. ASSUME NEW k \in 1..Len(log'), log'[k].type \in Decisions
        PROVE  \E j \in 1..(k - 1) : log'[j] = PlacedRow(log'[k].order)
    <3>1. CASE k \in 1..Len(log)
      <4>1. PICK j \in 1..(k - 1) : log[j] = PlacedRow(log[k].order)
        BY <2>1, <2>6, <3>1 DEF FirstInv, PlacedBefore
      <4>2. j \in 1..Len(log)
        BY <2>1, <3>1
      <4>3. QED
        BY <2>1, <3>1, <4>1, <4>2
    <3>2. CASE k = Len(log) + 1
      <4>1. PICK j \in 1..Len(log) : log[j] = PlacedRow(outbox[i].order)
        BY <2>1, <2>6, <3>2 DEF FirstInv, PlacedBefore
      <4>2. k - 1 = Len(log)
        BY <2>1, <3>2
      <4>3. QED
        BY <2>1, <3>2, <4>1, <4>2
    <3>3. QED
      BY <2>1, <3>1, <3>2
  <2>7. QED
    BY <2>5, <2>6 DEF FirstInv, PlacedBefore, PlacedRow
<1>3. ASSUME NEW row \in OutboxRow, outbox' = Append(outbox, row), UNCHANGED log,
             row.type \in Decisions => PlacedBefore(row.order, Len(log))
      PROVE  FirstInv'
  <2>1. /\ Len(outbox) \in Nat /\ Len(outbox') = Len(outbox) + 1
        /\ \A i \in 1..Len(outbox) : outbox'[i] = outbox[i]
        /\ outbox'[Len(outbox) + 1] = row
    BY <1>3, AppendKeeps DEF RelayTypes
  <2>2. \A i \in 1..Len(outbox') :
          outbox'[i].type \in Decisions => PlacedBefore(outbox'[i].order, Len(log))
    BY <1>3, <2>1 DEF FirstInv
  <2>3. QED
    BY <1>3, <2>2 DEF FirstInv, PlacedBefore
<1>4. ASSUME NEW o \in Orders, NEW d \in Decisions, Decide(o, d) PROVE FirstInv'
  <2> DEFINE row == [type |-> d, order |-> o]
  <2>1. row \in OutboxRow /\ row.order = o /\ row.type = d
    BY DEF OutboxRow, EventTypes
  <2>2. outbox' = Append(outbox, row) /\ UNCHANGED log
    BY <1>4 DEF Decide, Record, consumerVars
  <2>3. PlacedBefore(o, Len(log))
    <3>1. PlacedRow(o) \in Sequence!ToSet(log)
      BY <1>4 DEF Decide, PlacedRow
    <3>2. QED
      BY <3>1 DEF Sequence!ToSet, PlacedBefore, RelayTypes
  <2> HIDE DEF row
  <2>4. QED
    BY <1>3, <2>1, <2>2, <2>3
<1>5. CASE PlaceOrders
  <2>1. UNCHANGED log /\ (UNCHANGED outbox \/ \E o \in Orders : outbox' = Append(outbox, PlacedRow(o)))
    BY <1>5 DEF PlaceOrders, PlacementNext, Receive, ReserveKey, SaveOrder, FailRequest, Place,
                Record, storeVars, consumerVars, PlacedRow
  <2>2. ASSUME NEW o \in Orders PROVE PlacedRow(o) \in OutboxRow /\ PlacedRow(o).type \notin Decisions
    BY DEF PlacedRow, OutboxRow, EventTypes, Decisions
  <2>3. QED
    BY <1>1, <1>3, <2>1, <2>2
<1>6. ASSUME NEW r \in Relays, Claim(r) \/ Mark(r) \/ FailCycle(r) PROVE FirstInv'
  BY <1>1, <1>6 DEF Claim, Mark, FailCycle, placementVars, storeVars, consumerVars
<1>7. ASSUME NEW w \in Workers,
             ProjectorStep(w) \/ StopProjector(w) \/ RestartProjector(w)
      PROVE  FirstInv'
  BY <1>1, <1>7 DEF ProjectorStep, FetchEvent, Apply, CommitEvent, StopProjector,
                    RestartProjector, placementVars, storeVars,
                    Fetch, FetchFrom, Handled, CommitOffset, Stop, Restart
<1>8. ASSUME NEW a \in [Partitions -> Workers], RebalanceProjectors(a) PROVE FirstInv'
  BY <1>1, <1>8 DEF RebalanceProjectors, placementVars, storeVars, Rebalance
<1>9. QED
  BY <1>1, <1>2, <1>4, <1>5, <1>6, <1>7, <1>8
     DEF Next, RelayStep, vars, placementVars, storeVars, consumerVars

\* (the messages about an order are in one partition)
LEMMA OnePartition ==
  ASSUME RelayTypes, NEW i \in 1..Len(log), NEW j \in 1..Len(log)
  PROVE  /\ PartitionAt(i) \in Partitions
         /\ log[i].order = log[j].order => PartitionAt(i) = PartitionAt(j)
<1>1. log[i] \in OutboxRow /\ log[j] \in OutboxRow
  BY MessageFacts
<1>2. QED
  BY <1>1, KeyAssumption DEF PartitionAt

\* (what of the topic is passed is passed while committed offsets stay)
LEMMA PassedStays ==
  ASSUME UNCHANGED <<log, committed>>
  PROVE  \A i : (Passed(i)' <=> Passed(i)) /\ PartitionAt(i)' = PartitionAt(i)
BY DEF Passed, PartitionAt

\* (a commit passes the message in hand, and no other)
LEMMA CommitPasses ==
  ASSUME RelayTypes, ReadPart, NEW w \in Workers, PlaceInv(w), CommitEvent(w)
  PROVE  /\ current[w] \in 1..Len(log) /\ current[w] <= Len(log)
         /\ \A i \in 1..Len(log) : Passed(i)' <=> Passed(i) \/ i = current[w]
         /\ \A i : PartitionAt(i)' = PartitionAt(i)
<1> DEFINE k == current[w]
           q == PartitionAt(k)
<1>1. /\ UNCHANGED log /\ loop[w] = "commit"
      /\ committed' = [committed EXCEPT ![q] = k]
  BY DEF CommitEvent, CommitOffset
<1>2. k \in 1..Len(log) /\ Len(log) \in Nat /\ k <= Len(log)
  BY <1>1 DEF ReadPart, ReadTypes, RelayTypes
<1>3. \A i : PartitionAt(i)' = PartitionAt(i)
  BY <1>1 DEF PartitionAt
<1>4. committed \in [Partitions -> Nat]
  BY DEF ReadPart, ReadTypes
<1>5. AtTheEdge(k)
  BY <1>1 DEF PlaceInv, Handles
<1>6. ASSUME NEW i \in 1..Len(log) PROVE Passed(i)' <=> Passed(i) \/ i = k
  <2>1. PartitionAt(i) \in Partitions /\ q \in Partitions
    BY <1>2, OnePartition
  <2>2. CASE PartitionAt(i) # q
    <3>1. committed'[PartitionAt(i)] = committed[PartitionAt(i)] /\ i # k
      BY <1>1, <1>4, <2>1, <2>2
    <3>2. QED
      BY <1>3, <3>1 DEF Passed
  <2>3. CASE PartitionAt(i) = q
    <3>1. Passed(i)' <=> i <= k
      BY <1>1, <1>3, <1>4, <2>1, <2>3 DEF Passed
    <3>2. (i < k => Passed(i)) /\ (i > k => ~Passed(i))
      BY <1>5, <2>3 DEF AtTheEdge
    <3>3. QED
      BY <1>2, <3>1, <3>2
  <2>4. QED
    BY <2>2, <2>3
<1>7. QED
  BY <1>2, <1>3, <1>6

\* (the projector takes the next message of a partition)
LEMMA FetchPlaces ==
  ASSUME RelayTypes, ReadPart, NEW w \in Workers, PlaceInv(w), FetchEvent(w)
  PROVE  PlaceInv(w)'
<1>1. PICK p \in Partitions : FetchFrom(w, p)
  BY DEF FetchEvent, Fetch
<1>2. PICK k \in DOMAIN log :
        /\ IsNext(k, p)
        /\ position' = [position EXCEPT ![p] = k]
        /\ current' = [current EXCEPT ![w] = k]
  BY <1>1 DEF FetchFrom
<1>3. /\ loop[w] = "fetch" /\ loop'[w] = "handle" /\ UNCHANGED <<log, committed>>
      /\ current'[w] = k /\ position'[p] = k
      /\ \A r \in Partitions : r # p => position'[r] = position[r]
      /\ Len(log) \in Nat /\ position \in [Partitions -> Nat]
      /\ PartitionAt(k) = p
      /\ k \in 1..Len(log) /\ k <= Len(log)
  BY <1>1, <1>2 DEF FetchFrom, ReadPart, ReadTypes, RelayTypes, IsNext
<1>4. \A i : (Passed(i)' <=> Passed(i)) /\ PartitionAt(i)' = PartitionAt(i)
  BY <1>3, PassedStays
<1>5. /\ \A j \in 1..Len(log) : PartitionAt(j) = p /\ j < k => j <= position[p]
      /\ position[p] < k
  <2>1. ASSUME NEW j \in 1..Len(log), PartitionAt(j) = p, j < k PROVE j <= position[p]
    <3>1. j \in 1..(k - 1)
      BY <2>1
    <3>2. QED
      BY <1>2, <2>1, <3>1 DEF IsNext
  <2>2. QED
    BY <1>2, <2>1 DEF IsNext
<1>6. \A i \in 1..Len(log) : Delivered(i) => Passed(i)
  BY <1>3 DEF PlaceInv, Handles
<1>7. \A i \in 1..Len(log) : Passed(i) /\ ~Delivered(i) => AtTheEdge(i)
  BY <1>3 DEF PlaceInv
<1>8. \A i \in 1..Len(log) : PartitionAt(i) = p => (Delivered(i) <=> i <= position[p])
  BY DEF Delivered
<1>9. AtTheEdge(k)
  <2> SUFFICES ASSUME NEW j \in 1..Len(log), PartitionAt(j) = p
               PROVE  (j < k => Passed(j)) /\ (j > k => ~Passed(j))
    BY <1>3 DEF AtTheEdge
  <2>1. j < k => Passed(j)
    BY <1>5, <1>6, <1>8
  <2>2. ASSUME j > k, Passed(j) PROVE FALSE
    <3>1. AtTheEdge(j)
      BY <1>3, <1>5, <1>7, <1>8, <2>2
    <3>2. Passed(k)
      BY <1>3, <2>2, <3>1 DEF AtTheEdge
    <3>3. AtTheEdge(k)
      BY <1>3, <1>5, <1>7, <1>8, <3>2
    <3>4. QED
      BY <1>3, <2>2, <3>3 DEF AtTheEdge
  <2>3. QED
    BY <2>1, <2>2
<1>10. \A i \in 1..Len(log) : Delivered(i)' <=>
         IF PartitionAt(i) = p THEN i <= k ELSE Delivered(i)
  <2>1. \A i \in 1..Len(log) : PartitionAt(i) \in Partitions
    BY OnePartition
  <2>2. QED
    BY <1>3, <1>4, <2>1 DEF Delivered
<1>11. \A i : AtTheEdge(i)' <=> AtTheEdge(i)
  BY <1>3, <1>4 DEF AtTheEdge
<1>12. \A r \in Partitions : committed'[r] <= Len(log') /\ position'[r] <= Len(log')
  BY <1>3 DEF PlaceInv
<1>13. \A i \in 1..Len(log) : Delivered(i)' => Passed(i)' \/ current'[w] = i
  <2>1. ASSUME NEW i \in 1..Len(log), Delivered(i)', i # k PROVE Passed(i)
    <3>1. CASE PartitionAt(i) = p
      <4>1. i < k
        BY <1>3, <1>10, <2>1, <3>1
      <4>2. QED
        BY <1>3, <1>9, <3>1, <4>1 DEF AtTheEdge
    <3>2. CASE PartitionAt(i) # p
      BY <1>6, <1>10, <2>1, <3>2
    <3>3. QED
      BY <3>1, <3>2
  <2>2. QED
    BY <1>3, <1>4, <2>1
<1>14. ASSUME NEW i \in 1..Len(log), Passed(i)', ~Delivered(i)'
       PROVE  AtTheEdge(i)' /\ PartitionAt(k)' # PartitionAt(i)'
  <2>1. PartitionAt(i) # p
    <3>1. ASSUME PartitionAt(i) = p PROVE FALSE
      <4>1. i > k
        BY <1>3, <1>10, <1>14, <3>1
      <4>2. QED
        BY <1>3, <1>4, <1>9, <1>14, <3>1, <4>1 DEF AtTheEdge
    <3>2. QED
      BY <3>1
  <2>2. QED
    BY <1>3, <1>4, <1>7, <1>10, <1>11, <1>14, <2>1
<1>15. QED
  BY <1>3, <1>9, <1>11, <1>12, <1>13, <1>14 DEF PlaceInv, Handles

\* (the projector commits)
LEMMA CommitPlaces ==
  ASSUME RelayTypes, ReadPart, NEW w \in Workers, PlaceInv(w), CommitEvent(w)
  PROVE  PlaceInv(w)'
<1>1. PICK k \in 1..Len(log) : k = current[w] /\ k <= Len(log)
  BY CommitPasses
<1>2. /\ loop[w] = "commit" /\ loop'[w] = "fetch" /\ UNCHANGED <<log, position>>
      /\ committed' = [committed EXCEPT ![PartitionAt(k)] = k]
      /\ committed \in [Partitions -> Nat]
  BY <1>1 DEF CommitEvent, CommitOffset, ReadPart, ReadTypes
<1>3. /\ \A i \in 1..Len(log) : Passed(i)' <=> Passed(i) \/ i = k
      /\ \A i : PartitionAt(i)' = PartitionAt(i)
  BY <1>1, CommitPasses
<1>4. \A i : Delivered(i)' <=> Delivered(i)
  BY <1>2, <1>3 DEF Delivered
<1>5. /\ AtTheEdge(k)
      /\ \A i \in 1..Len(log) : Delivered(i) => Passed(i) \/ k = i
      /\ \A i \in 1..Len(log) : Passed(i) /\ ~Delivered(i) =>
           AtTheEdge(i) /\ PartitionAt(k) # PartitionAt(i)
  BY <1>1, <1>2 DEF PlaceInv, Handles
<1>6. \A p \in Partitions : committed'[p] <= Len(log') /\ position'[p] <= Len(log')
  BY <1>1, <1>2 DEF PlaceInv
<1>7. AtTheEdge(k)'
  <2> SUFFICES ASSUME NEW j \in 1..Len(log), PartitionAt(j) = PartitionAt(k)
               PROVE  (j < k => Passed(j)') /\ (j > k => ~Passed(j)')
    BY <1>2, <1>3 DEF AtTheEdge
  <2>1. (j < k => Passed(j)) /\ (j > k => ~Passed(j))
    BY <1>5 DEF AtTheEdge
  <2>2. QED
    BY <1>3, <2>1
<1>8. ASSUME NEW i \in 1..Len(log), Passed(i)', ~Delivered(i)' PROVE AtTheEdge(i)'
  <2>1. CASE i = k
    BY <1>7, <2>1
  <2>2. CASE i # k
    <3>1. AtTheEdge(i) /\ PartitionAt(k) # PartitionAt(i)
      BY <1>3, <1>4, <1>5, <1>8, <2>2
    <3>2. ASSUME NEW j \in 1..Len(log), PartitionAt(j) = PartitionAt(i)
          PROVE  j # k /\ (j < i => Passed(j)) /\ (j > i => ~Passed(j))
      BY <3>1, <3>2 DEF AtTheEdge
    <3>3. \A j \in 1..Len(log) : PartitionAt(j) = PartitionAt(i) =>
            (j < i => Passed(j)') /\ (j > i => ~Passed(j)')
      BY <1>3, <3>2
    <3>4. QED
      BY <1>2, <1>3, <3>3 DEF AtTheEdge
  <2>3. QED
    BY <2>1, <2>2
<1>9. \A i \in 1..Len(log) : Delivered(i)' => Passed(i)'
  BY <1>3, <1>4, <1>5
<1>10. QED
  BY <1>2, <1>6, <1>8, <1>9 DEF PlaceInv, Handles

\* (the readers go back to the committed offsets)
LEMMA ResetPlaces ==
  ASSUME RelayTypes, ReadPart, NEW w \in Workers, PlaceInv(w),
         UNCHANGED <<log, committed, current>>, position' = committed,
         Handles(w)' => Handles(w)
  PROVE  PlaceInv(w)'
<1>1. \A i : (Passed(i)' <=> Passed(i)) /\ PartitionAt(i)' = PartitionAt(i)
  BY PassedStays
<1>2. \A i : Delivered(i)' <=> Passed(i)
  BY <1>1 DEF Delivered, Passed
<1>3. \A i : AtTheEdge(i)' <=> AtTheEdge(i)
  BY <1>1 DEF AtTheEdge
<1>4. Handles(w)' => AtTheEdge(current[w])
  BY DEF PlaceInv
<1>5. \A p \in Partitions : committed'[p] <= Len(log') /\ position'[p] <= Len(log')
  BY DEF PlaceInv
<1>6. QED
  BY <1>1, <1>2, <1>3, <1>4, <1>5 DEF PlaceInv

\* (every step of the loop keeps the projector's place)
LEMMA LoopPlaces ==
  ASSUME OneProjector, RelayTypes, ReadPart, NEW w \in Workers, PlaceInv(w),
         \/ ProjectorStep(w) \/ StopProjector(w) \/ RestartProjector(w)
         \/ \E a \in [Partitions -> Workers] : RebalanceProjectors(a)
  PROVE  PlaceInv(w)'
<1>1. CASE Apply(w)
  <2>1. /\ UNCHANGED <<log, committed, position, current>>
        /\ loop[w] = "handle" /\ loop'[w] = "commit"
    BY <1>1 DEF Apply, Handled, ReadPart, ReadTypes
  <2>2. \A i : /\ (Passed(i)' <=> Passed(i)) /\ PartitionAt(i)' = PartitionAt(i)
               /\ (Delivered(i)' <=> Delivered(i)) /\ (AtTheEdge(i)' <=> AtTheEdge(i))
    BY <2>1 DEF Passed, PartitionAt, Delivered, AtTheEdge
  <2>3. QED
    BY <2>1, <2>2 DEF PlaceInv, Handles
<1>2. CASE StopProjector(w)
  <2>1. UNCHANGED <<log, committed, position>> /\ loop'[w] = "down"
    BY <1>2 DEF StopProjector, Stop, ReadPart, ReadTypes
  <2>2. QED
    BY <2>1 DEF PlaceInv, Handles
<1>3. CASE RestartProjector(w)
  <2>1. /\ UNCHANGED <<log, committed, current>> /\ loop'[w] = "fetch"
        /\ position' = [p \in Partitions |-> IF owner[p] = w THEN committed[p] ELSE position[p]]
    BY <1>3 DEF RestartProjector, Restart, ReadPart, ReadTypes
  <2>2. owner \in [Partitions -> Workers] /\ committed \in [Partitions -> Nat]
    BY DEF ReadPart, ReadTypes
  <2>3. \A p \in Partitions : owner[p] = w
    BY <2>2 DEF OneProjector
  <2>4. position' = committed
    BY <2>1, <2>2, <2>3
  <2>5. QED
    BY <2>1, <2>4, ResetPlaces DEF Handles
<1>4. ASSUME NEW a \in [Partitions -> Workers], RebalanceProjectors(a) PROVE PlaceInv(w)'
  <2>1. UNCHANGED <<log, committed, current, loop>> /\ position' = committed
    BY <1>4 DEF RebalanceProjectors, Rebalance
  <2>2. QED
    BY <2>1, ResetPlaces DEF Handles
<1>5. QED
  BY <1>1, <1>2, <1>3, <1>4, FetchPlaces, CommitPlaces DEF ProjectorStep

\* (what the projector makes of the event in hand)
LEMMA ApplyEffect ==
  ASSUME RelayTypes, ReadPart, FirstInv, NEW w \in Workers, PlaceInv(w), ShowInv(w), Apply(w)
  PROVE  /\ InHand(w) = log[current[w]] /\ current[w] \in 1..Len(log)
         /\ InHand(w).order \in Orders
         /\ projection'[InHand(w).order] = Effect(InHand(w))
         /\ Effect(InHand(w)) # "NONE"
         /\ \A o \in Orders : o # InHand(w).order => projection'[o] = projection[o]
<1> DEFINE event == InHand(w)
           o == event.order
           k == current[w]
<1>1. event = log[k] /\ k \in 1..Len(log) /\ event \in OutboxRow /\ AtTheEdge(k)
  BY DEF Apply, ReadPart, ReadTypes, RelayTypes, InHand, PlaceInv, Handles
<1>2. o \in Orders /\ event.type \in EventTypes
  BY <1>1 DEF OutboxRow
<1>3. projection' = [projection EXCEPT ![o] =
                       IF event.type = "order.placed" THEN UpsertOrderPlaced(@)
                       ELSE UpdateStatus(@, event.type)]
  BY DEF Apply
<1>4. ASSUME event.type \in Decisions PROVE projection[o] # "NONE"
  <2>1. PICK j \in 1..(k - 1) : log[j] = PlacedRow(o)
    BY <1>1, <1>4 DEF FirstInv, PlacedBefore
  <2>2. Len(log) \in Nat
    BY DEF RelayTypes
  <2>3. j \in 1..Len(log) /\ j < k
    BY <1>1, <2>1, <2>2
  <2>4. log[j].order = o
    BY <2>1 DEF PlacedRow
  <2>5. PartitionAt(j) = PartitionAt(k)
    BY <1>1, <2>3, <2>4, OnePartition
  <2>6. Passed(j)
    BY <1>1, <2>3, <2>5 DEF AtTheEdge
  <2>7. QED
    BY <2>3, <2>4, <2>6 DEF ShowInv
<1>5. Effect(event) # "NONE"
  BY DEF Effect, StatusOf
<1> HIDE DEF event
<1>6. projection \in [Orders -> ProjectionStatus]
  BY DEF ReadPart, ReadTypes
<1>7. projection'[o] = Effect(event)
  <2>1. CASE event.type = "order.placed"
    BY <1>2, <1>3, <1>6, <2>1 DEF UpsertOrderPlaced, Effect
  <2>2. CASE event.type \in Decisions
    BY <1>2, <1>3, <1>4, <1>6, <2>2 DEF UpdateStatus, Effect, Decisions
  <2>3. QED
    BY <1>2, <2>1, <2>2 DEF EventTypes
<1>8. \A p \in Orders : p # o => projection'[p] = projection[p]
  BY <1>3, <1>6
<1>9. QED
  BY <1>1, <1>2, <1>5, <1>7, <1>8 DEF event

\* (what is shown of the message at the edge is what its order is to show)
LEMMA EdgeIsShown ==
  ASSUME RelayTypes, UNCHANGED log, NEW k \in 1..Len(log), AtTheEdge(k)',
         NEW o, log[k].order = o, projection'[o] = Effect(log[k])
  PROVE  /\ Passed(k)' => ShowsPassed(o)'
         /\ ~Passed(k)' => ShowsHead(o)'
<1>1. /\ Len(log) \in Nat
      /\ \A i : Effect(log'[i]) = Effect(log[i]) /\ PartitionAt(i)' = PartitionAt(i)
  BY DEF RelayTypes, PartitionAt
<1>2. \A j \in 1..Len(log) :
        PartitionAt(j) = PartitionAt(k) => (j < k => Passed(j)') /\ (j > k => ~Passed(j)')
  BY <1>1 DEF AtTheEdge
<1>3. ASSUME Passed(k)', NEW i \in 1..Len(log), log[i].order = o, Passed(i)',
             \A j \in (i + 1)..Len(log) : log[j].order = o => ~Passed(j)'
      PROVE  i = k
  <2>1. PartitionAt(i) = PartitionAt(k)
    BY <1>3, OnePartition
  <2>2. ~(i > k)
    BY <1>2, <1>3, <2>1
  <2>3. ~(i < k)
    <3>1. i < k => k \in (i + 1)..Len(log)
      BY <1>1
    <3>2. QED
      BY <1>3, <3>1
  <2>4. QED
    BY <1>1, <2>2, <2>3
<1>4. ASSUME Passed(k)' PROVE ShowsPassed(o)'
  BY <1>1, <1>3, <1>4 DEF ShowsPassed, Effect
<1>5. ASSUME ~Passed(k)' PROVE ShowsHead(o)'
  <2>1. \A j \in 1..(k - 1) : j \in 1..Len(log) /\ j < k
    BY <1>1
  <2>2. IsHead(k)'
    BY <1>1, <1>2, <1>5, <2>1 DEF IsHead
  <2>3. QED
    BY <1>1, <2>2 DEF ShowsHead, Effect
<1>6. QED
  BY <1>4, <1>5

\* (an event is applied)
LEMMA ApplyShows ==
  ASSUME RelayTypes, ReadPart, FirstInv, NEW w \in Workers, PlaceInv(w), ShowInv(w), Apply(w)
  PROVE  ShowInv(w)'
<1>1. PICK o \in Orders, k \in 1..Len(log) : o = InHand(w).order /\ k = current[w]
  BY ApplyEffect
<1>2. /\ log[k].order = o /\ InHand(w) = log[k]
      /\ projection'[o] = Effect(log[k]) /\ projection'[o] # "NONE"
      /\ \A p \in Orders : p # o => projection'[p] = projection[p]
  BY <1>1, ApplyEffect
<1>3. UNCHANGED <<log, committed, position, current>> /\ loop[w] = "handle"
  BY DEF Apply, Handled
<1>4. \A i : (Passed(i)' <=> Passed(i)) /\ (IsHead(i)' <=> IsHead(i))
  BY <1>3 DEF Passed, PartitionAt, IsHead
<1>5. ASSUME NEW i \in 1..Len(log'), Passed(i)' PROVE projection'[log'[i].order] # "NONE"
  <2>1. log[i].order \in Orders /\ projection[log[i].order] # "NONE"
    BY <1>3, <1>4, <1>5, MessageFacts DEF ShowInv
  <2>2. QED
    BY <1>2, <1>3, <2>1
<1>6. ASSUME NEW p \in Orders, p # o PROVE ShowsPassed(p)' \/ ShowsHead(p)'
  <2>1. ShowsPassed(p) \/ ShowsHead(p)
    BY DEF ShowInv
  <2>2. \A i : Effect(log'[i]) = Effect(log[i])
    BY <1>3
  <2>3. CASE ShowsPassed(p)
    BY <1>2, <1>3, <1>4, <1>6, <2>2, <2>3 DEF ShowsPassed, Effect
  <2>4. CASE ShowsHead(p)
    BY <1>2, <1>3, <1>4, <1>6, <2>2, <2>4 DEF ShowsHead, Effect
  <2>5. QED
    BY <2>1, <2>3, <2>4
<1>7. ShowsPassed(o)' \/ ShowsHead(o)'
  <2>1. AtTheEdge(k)
    BY <1>1, <1>3 DEF PlaceInv, Handles
  <2>2. AtTheEdge(k)'
    BY <1>3, <2>1 DEF AtTheEdge, Passed, PartitionAt
  <2>3. QED
    BY <1>2, <1>3, <2>2, EdgeIsShown
<1>8. InHand(w)' = InHand(w) /\ projection'[InHand(w)'.order] = Effect(InHand(w))
  BY <1>1, <1>2, <1>3 DEF InHand
<1>9. QED
  BY <1>3, <1>5, <1>6, <1>7, <1>8 DEF ShowInv, Effect

\* (a commit changes what is passed of the message in hand only)
LEMMA CommitShows ==
  ASSUME RelayTypes, ReadPart, NEW w \in Workers, PlaceInv(w), ShowInv(w), CommitEvent(w)
  PROVE  ShowInv(w)'
<1>1. PICK k \in 1..Len(log) : k = current[w]
  BY CommitPasses
<1>2. UNCHANGED <<log, projection>> /\ loop[w] = "commit" /\ loop'[w] = "fetch"
  BY DEF CommitEvent, CommitOffset, ReadPart, ReadTypes
<1>3. /\ \A i \in 1..Len(log) : Passed(i)' <=> Passed(i) \/ i = k
      /\ \A i : PartitionAt(i)' = PartitionAt(i)
      /\ Len(log) \in Nat
  BY <1>1, CommitPasses DEF RelayTypes
<1>4. PICK o \in Orders : o = log[k].order
  BY MessageFacts
<1>5. projection[o] = Effect(log[k]) /\ Effect(log[k]) # "NONE"
  BY <1>1, <1>2, <1>4 DEF ShowInv, InHand, Effect, StatusOf
<1>6. AtTheEdge(k)
  BY <1>1, <1>2 DEF PlaceInv, Handles
<1>7. AtTheEdge(k)'
  BY <1>2, <1>3, <1>6 DEF AtTheEdge
<1>8. ShowsPassed(o)'
  BY <1>2, <1>3, <1>4, <1>5, <1>7, EdgeIsShown
<1>9. ASSUME NEW p \in Orders, p # o PROVE ShowsPassed(p)' \/ ShowsHead(p)'
  <2>1. \A i \in 1..Len(log) : log[i].order = p => i # k
    BY <1>4, <1>9
  <2>2. \A i : Effect(log'[i]) = Effect(log[i])
    BY <1>2
  <2>3. CASE ShowsPassed(p)
    <3>1. ASSUME NEW i \in 1..Len(log), log[i].order = p, Passed(i)',
                 \A j \in (i + 1)..Len(log) : log[j].order = p => ~Passed(j)'
          PROVE  projection[p] = Effect(log[i])
      <4>1. \A j \in (i + 1)..Len(log) : j \in 1..Len(log)
        OBVIOUS
      <4>2. QED
        BY <1>3, <2>1, <2>3, <3>1, <4>1 DEF ShowsPassed
    <3>2. QED
      BY <1>2, <2>2, <3>1 DEF ShowsPassed, Effect
  <2>4. CASE ShowsHead(p)
    <3>1. PICK i \in 1..Len(log) : IsHead(i) /\ log[i].order = p /\ projection[p] = Effect(log[i])
      BY <2>4 DEF ShowsHead
    <3>2. ~Passed(i)'
      BY <1>3, <2>1, <3>1 DEF IsHead
    <3>3. \A j \in 1..(i - 1) : j \in 1..Len(log)
      BY <1>3
    <3>4. IsHead(i)'
      BY <1>3, <3>1, <3>2, <3>3 DEF IsHead
    <3>5. QED
      BY <1>2, <2>2, <3>1, <3>4 DEF ShowsHead, Effect
  <2>5. QED
    BY <2>3, <2>4 DEF ShowInv
<1>10. \A i \in 1..Len(log') : Passed(i)' => projection'[log'[i].order] # "NONE"
  BY <1>2, <1>3, <1>4, <1>5 DEF ShowInv
<1>11. QED
  BY <1>2, <1>8, <1>9, <1>10 DEF ShowInv

\* (every step of the loop keeps what the read model shows)
LEMMA LoopShows ==
  ASSUME RelayTypes, ReadPart, FirstInv, NEW w \in Workers, PlaceInv(w), ShowInv(w),
         \/ ProjectorStep(w) \/ StopProjector(w) \/ RestartProjector(w)
         \/ \E a \in [Partitions -> Workers] : RebalanceProjectors(a)
  PROVE  ShowInv(w)'
<1>1. ASSUME UNCHANGED <<log, committed, projection>>,
             loop'[w] = "commit" => loop[w] = "commit" /\ current'[w] = current[w]
      PROVE  ShowInv(w)'
  <2>1. \A i : (Passed(i)' <=> Passed(i)) /\ (IsHead(i)' <=> IsHead(i))
    BY <1>1 DEF Passed, PartitionAt, IsHead
  <2>2. \A i : Effect(log'[i]) = Effect(log[i])
    BY <1>1
  <2>3. \A o : (ShowsPassed(o)' <=> ShowsPassed(o)) /\ (ShowsHead(o)' <=> ShowsHead(o))
    BY <1>1, <2>1, <2>2 DEF ShowsPassed, ShowsHead, Effect
  <2>4. loop'[w] = "commit" => projection'[InHand(w)'.order] = Effect(InHand(w))'
    BY <1>1 DEF ShowInv, InHand, Effect
  <2>5. QED
    BY <1>1, <2>1, <2>3, <2>4 DEF ShowInv
<1>2. CASE FetchEvent(w)
  BY <1>1, <1>2 DEF FetchEvent, Fetch, FetchFrom, ReadPart, ReadTypes
<1>3. CASE StopProjector(w)
  BY <1>1, <1>3 DEF StopProjector, Stop, ReadPart, ReadTypes
<1>4. CASE RestartProjector(w)
  BY <1>1, <1>4 DEF RestartProjector, Restart, ReadPart, ReadTypes
<1>5. ASSUME NEW a \in [Partitions -> Workers], RebalanceProjectors(a) PROVE ShowInv(w)'
  BY <1>1, <1>5 DEF RebalanceProjectors, Rebalance
<1>6. QED
  BY <1>2, <1>3, <1>4, <1>5, ApplyShows, CommitShows DEF ProjectorStep

\* (the topic grows under the projector's hands, or nothing of it moves)
LEMMA TopicShows ==
  ASSUME RelayTypes, ReadPart, NEW w \in Workers, PlaceInv(w), ShowInv(w),
         UNCHANGED <<committed, position, current, loop, projection>>,
         Len(log') \in Nat, Len(log') >= Len(log), \A i \in 1..Len(log) : log'[i] = log[i],
         \A i \in 1..Len(log') : log'[i] \in OutboxRow
  PROVE  PlaceInv(w)' /\ ShowInv(w)'
<1>1. /\ Len(log) \in Nat /\ \A i \in 1..Len(log) : i \in 1..Len(log')
      /\ committed \in [Partitions -> Nat] /\ position \in [Partitions -> Nat]
  BY DEF ReadPart, ReadTypes, RelayTypes
<1>2. ASSUME NEW i \in 1..Len(log)
      PROVE  /\ (Passed(i)' <=> Passed(i)) /\ PartitionAt(i)' = PartitionAt(i)
             /\ (Delivered(i)' <=> Delivered(i))
  BY DEF Passed, PartitionAt, Delivered
<1>3. ASSUME NEW i \in 1..Len(log'), i \notin 1..Len(log)
      PROVE  i > Len(log) /\ ~Passed(i)' /\ ~Delivered(i)'
  <2>1. PartitionAt(i)' \in Partitions
    <3>1. log'[i] \in OutboxRow
      BY <1>3
    <3>2. QED
      BY <3>1, KeyAssumption DEF PartitionAt
  <2>2. i > Len(log) /\ i \in Nat
    BY <1>1, <1>3
  <2>3. /\ committed[PartitionAt(i)'] <= Len(log) /\ committed[PartitionAt(i)'] \in Nat
        /\ position[PartitionAt(i)'] <= Len(log) /\ position[PartitionAt(i)'] \in Nat
    BY <1>1, <2>1 DEF PlaceInv
  <2>4. QED
    BY <1>1, <2>2, <2>3 DEF Passed, Delivered
<1>4. ASSUME NEW i \in 1..Len(log), AtTheEdge(i) PROVE AtTheEdge(i)'
  <2>1. ASSUME NEW j \in 1..Len(log'), PartitionAt(j)' = PartitionAt(i)'
        PROVE  (j < i => Passed(j)') /\ (j > i => ~Passed(j)')
    <3>1. CASE j \in 1..Len(log)
      BY <1>2, <1>4, <2>1, <3>1 DEF AtTheEdge
    <3>2. CASE j \notin 1..Len(log)
      <4>1. j > Len(log) /\ ~Passed(j)'
        BY <1>3, <3>2
      <4>2. QED
        BY <1>1, <4>1
    <3>3. QED
      BY <3>1, <3>2
  <2>2. QED
    BY <2>1 DEF AtTheEdge
<1>5. Handles(w) => current[w] \in 1..Len(log)
  BY DEF Handles, ReadPart, ReadTypes
<1>6. PlaceInv(w)'
  <2>1. \A p \in Partitions : committed'[p] <= Len(log') /\ position'[p] <= Len(log')
    BY <1>1 DEF PlaceInv
  <2>2. Handles(w)' => AtTheEdge(current[w])'
    BY <1>4, <1>5 DEF PlaceInv, Handles
  <2>3. ASSUME loop[w] # "down", NEW i \in 1..Len(log'), Delivered(i)'
        PROVE  Passed(i)' \/ (Handles(w)' /\ current[w]' = i)
    <3>1. i \in 1..Len(log)
      BY <1>3, <2>3
    <3>2. QED
      BY <1>2, <2>3, <3>1 DEF PlaceInv, Handles
  <2>4. ASSUME loop[w] # "down", NEW i \in 1..Len(log'), Passed(i)', ~Delivered(i)'
        PROVE  /\ AtTheEdge(i)'
               /\ Handles(w)' => PartitionAt(current[w])' # PartitionAt(i)'
    <3>1. i \in 1..Len(log)
      BY <1>3, <2>4
    <3>2. AtTheEdge(i) /\ (Handles(w) => PartitionAt(current[w]) # PartitionAt(i))
      BY <1>2, <2>4, <3>1 DEF PlaceInv
    <3>3. Handles(w) => PartitionAt(current[w])' = PartitionAt(current[w])
      BY <1>5 DEF PartitionAt
    <3>4. QED
      BY <1>2, <1>4, <3>1, <3>2, <3>3 DEF Handles
  <2>5. QED
    BY <2>1, <2>2, <2>3, <2>4 DEF PlaceInv
<1>7. ASSUME NEW o, ShowsPassed(o) PROVE ShowsPassed(o)'
  <2>1. ASSUME NEW i \in 1..Len(log'), log'[i].order = o, Passed(i)',
               \A j \in (i + 1)..Len(log') : log'[j].order = o => ~Passed(j)'
        PROVE  projection'[o] = Effect(log'[i])
    <3>1. i \in 1..Len(log) /\ \A j \in (i + 1)..Len(log) : j \in (i + 1)..Len(log') /\ j \in 1..Len(log)
      BY <1>1, <1>3, <2>1
    <3>2. \A j \in (i + 1)..Len(log) : log[j].order = o => ~Passed(j)
      BY <1>2, <2>1, <3>1
    <3>3. projection[o] = Effect(log[i])
      BY <1>2, <1>7, <2>1, <3>1, <3>2 DEF ShowsPassed
    <3>4. QED
      BY <3>1, <3>3 DEF Effect
  <2>2. QED
    BY <2>1 DEF ShowsPassed, Effect
<1>8. ASSUME NEW o, ShowsHead(o) PROVE ShowsHead(o)'
  <2>1. PICK i \in 1..Len(log) : IsHead(i) /\ log[i].order = o /\ projection[o] = Effect(log[i])
    BY <1>8 DEF ShowsHead
  <2>2. \A j \in 1..(i - 1) : j \in 1..Len(log)
    BY <1>1
  <2>3. IsHead(i)'
    BY <1>2, <2>1, <2>2 DEF IsHead
  <2>4. i \in 1..Len(log') /\ log'[i] = log[i]
    BY <1>1
  <2>5. QED
    BY <2>1, <2>3, <2>4 DEF ShowsHead, Effect
<1>9. ASSUME NEW i \in 1..Len(log'), Passed(i)' PROVE projection'[log'[i].order] # "NONE"
  <2>1. i \in 1..Len(log)
    BY <1>3, <1>9
  <2>2. QED
    BY <1>2, <1>9, <2>1 DEF ShowInv
<1>10. loop'[w] = "commit" => projection'[InHand(w)'.order] = Effect(InHand(w))'
  BY <1>5 DEF ShowInv, InHand, Handles, Effect
<1>11. QED
  BY <1>6, <1>7, <1>8, <1>9, <1>10 DEF ShowInv

\* (every step of a service with one projector keeps what it knows)
LEMMA NextShows ==
  ASSUME OneProjector, RelayTypes, ReadPart, FirstInv, NEW w \in Workers,
         PlaceInv(w), ShowInv(w), [Next]_vars
  PROVE  PlaceInv(w)' /\ ShowInv(w)'
<1> DEFINE Goal == PlaceInv(w)' /\ ShowInv(w)'
<1>1. ASSUME UNCHANGED <<consumerVars, projection>> PROVE Goal
  <2>1. /\ Len(log) \in Nat /\ \A i \in 1..Len(log) : log[i] \in OutboxRow
        /\ UNCHANGED <<log, committed, position, current, loop, projection>>
    BY <1>1 DEF consumerVars, RelayTypes
  <2>2. QED
    BY <2>1, TopicShows
<1>2. ASSUME NEW r \in Relays, Send(r) PROVE Goal
  <2>1. PICK i \in 1..Len(outbox) :
          /\ Len(log) \in Nat /\ Len(log') = Len(log) + 1
          /\ \A j \in 1..Len(log) : log'[j] = log[j]
          /\ log'[Len(log) + 1] = outbox[i]
    BY <1>2, TopicGrows
  <2>2. UNCHANGED <<committed, position, current, loop, projection>>
    BY <1>2 DEF Send, Produce
  <2>3. Len(log') \in Nat /\ Len(log') >= Len(log)
    BY <2>1
  <2>4. \A j \in 1..Len(log') : log'[j] \in OutboxRow
    BY <2>1 DEF RelayTypes
  <2>5. QED
    BY <2>1, <2>2, <2>3, <2>4, TopicShows
<1>3. ASSUME NEW v \in Workers, ProjectorStep(v) \/ StopProjector(v) \/ RestartProjector(v)
      PROVE  Goal
  <2>1. v = w
    BY DEF OneProjector
  <2>2. QED
    BY <1>3, <2>1, LoopPlaces, LoopShows
<1>4. ASSUME NEW a \in [Partitions -> Workers], RebalanceProjectors(a) PROVE Goal
  BY <1>4, LoopPlaces, LoopShows
<1>5. ASSUME NEW r \in Relays, Claim(r) \/ Mark(r) \/ FailCycle(r) PROVE Goal
  BY <1>1, <1>5 DEF Claim, Mark, FailCycle
<1>6. CASE PlaceOrders
  BY <1>1, <1>6 DEF PlaceOrders
<1>7. ASSUME NEW o \in Orders, NEW d \in Decisions, Decide(o, d) PROVE Goal
  BY <1>1, <1>7 DEF Decide
<1>8. CASE UNCHANGED vars
  BY <1>1, <1>8 DEF vars
<1>9. QED
  BY <1>2, <1>3, <1>4, <1>5, <1>6, <1>7, <1>8 DEF Next, RelayStep

\* (LastInLog is the type of the last message about o)
LEMMA LastFacts ==
  ASSUME RelayTypes, NEW o, NEW m \in 1..Len(log), log[m].order = o
  PROVE  \E i \in 1..Len(log) :
           /\ log[i].order = o /\ \A j \in (i + 1)..Len(log) : log[j].order # o
           /\ LastInLog(o) = log[i].type
<1> DEFINE n == Len(log)
           back == Sequence!Reverse(log)
           I == {k \in 1..Len(back) : back[k].order = o}
<1>1. n \in Nat /\ back = [k \in 1..n |-> log[(n - k) + 1]]
  BY DEF RelayTypes, Sequence!Reverse
<1>2. Len(back) = n /\ \A k \in 1..n : back[k] = log[(n - k) + 1]
  <2> HIDE DEF n
  <2>1. QED
    BY <1>1
<1> HIDE DEF n, back
<1>3. I \subseteq Nat /\ I # {}
  <2>1. (n - m) + 1 \in 1..n /\ (n - ((n - m) + 1)) + 1 = m
    BY <1>1 DEF n
  <2>2. (n - m) + 1 \in I
    BY <1>2, <2>1
  <2>3. I \subseteq Nat
    BY <1>1, <1>2
  <2>4. QED
    BY <2>2, <2>3
<1>4. PICK k \in I : \A l \in I : k <= l
  BY <1>3, Minimum
<1>5. Sequence!Min(I) \in I /\ \A l \in I : Sequence!Min(I) <= l
  BY <1>4 DEF Sequence!Min
<1> DEFINE x == Sequence!Min(I)
           i == (n - x) + 1
<1>6. LastInLog(o) = back[x].type
  BY <1>3 DEF LastInLog, Sequence!SelectInSeq, back
<1> HIDE DEF x
<1>7. x \in 1..n /\ back[x].order = o /\ i \in 1..n /\ back[x] = log[i]
  <2>1. x \in 1..n /\ back[x].order = o
    BY <1>2, <1>5 DEF x
  <2>2. QED
    BY <1>1, <1>2, <2>1
<1>8. ASSUME NEW j \in (i + 1)..n PROVE log[j].order # o
  <2>1. (n - j) + 1 \in 1..n /\ (n - j) + 1 < x /\ (n - ((n - j) + 1)) + 1 = j
    BY <1>1, <1>7
  <2>2. ASSUME (n - j) + 1 \in I PROVE FALSE
    <3>1. x <= (n - j) + 1
      BY <1>5, <2>2 DEF x
    <3>2. QED
      BY <1>1, <1>7, <2>1, <3>1
  <2>3. back[(n - j) + 1] = log[j]
    BY <1>2, <2>1
  <2>4. QED
    BY <1>2, <2>1, <2>2, <2>3
<1>9. QED
  BY <1>6, <1>7, <1>8 DEF n

(***************************************************************************)
(* When the one projector has read a partition to its end, the read model  *)
(* shows the status of every order of it whose last event comes last in    *)
(* the topic, whatever was sent or applied twice before (projector.go Run, *)
(* projection_store.go UpsertOrderPlaced).                                 *)
(***************************************************************************)
THEOREM CaughtUpIsCurrentAlways ==
  ASSUME OneProjector
  PROVE  Spec => []CaughtUpIsCurrent
<1> DEFINE Inv == FirstInv /\ \A w \in Workers : PlaceInv(w) /\ ShowInv(w)
<1>1. Init => Inv
  <2> SUFFICES ASSUME Init PROVE Inv
    OBVIOUS
  <2>1. /\ log = << >> /\ outbox = << >>
        /\ committed = [p \in Partitions |-> 0] /\ position = [p \in Partitions |-> 0]
        /\ \A w \in Workers : loop[w] = "fetch"
    BY DEF Init, PlacementInit, StoreInit, ConsumerInit
  <2>2. FirstInv
    BY <2>1 DEF FirstInv
  <2>3. \A w \in Workers : PlaceInv(w)
    BY <2>1 DEF PlaceInv, Handles
  <2>4. \A w \in Workers : ShowInv(w)
    BY <2>1 DEF ShowInv, ShowsPassed
  <2>5. QED
    BY <2>2, <2>3, <2>4
<1>2. IInv /\ Inv /\ [Next]_vars => Inv'
  BY NextFirst, NextShows DEF IInv, ReadPart
<1>3. ASSUME IInv, Inv PROVE CaughtUpIsCurrent
  <2> SUFFICES ASSUME NEW e \in Sequence!ToSet(log), NEW o, o = e.order,
                      CaughtUp(PartitionOf[e]), LastInLog(o) = events[o][Len(events[o])]
               PROVE  projection[o] = Status(events[o])
    BY DEF CaughtUpIsCurrent
  <2>0. PICK m \in 1..Len(log) : e = log[m] /\ PartitionOf[e] = PartitionAt(m)
    BY <1>3 DEF Sequence!ToSet, IInv, RelayTypes, PartitionAt
  <2>1. PICK i \in 1..Len(log) :
          /\ log[i].order = o /\ \A j \in (i + 1)..Len(log) : log[j].order # o
          /\ LastInLog(o) = log[i].type
    BY <1>3, <2>0, LastFacts DEF IInv
  <2>2. o \in Orders /\ log[i].type \in EventTypes /\ Told(log[i])
    BY <1>3, <2>1, MessageFacts DEF IInv, ReadInv
  <2>3. PICK w \in Workers : ShowInv(w)
    BY <1>3, ConsumerAssumption
  <2>4. \A j \in 1..Len(log) : log[j].order = o => Passed(j)
    <3>1. ASSUME NEW j \in 1..Len(log), log[j].order = o PROVE Passed(j)
      <4>1. PartitionAt(j) = PartitionAt(m)
        BY <1>3, <2>0, <3>1, OnePartition DEF IInv
      <4>2. j \in DOMAIN log
        BY <1>3 DEF IInv, RelayTypes
      <4>3. QED
        BY <2>0, <4>1, <4>2 DEF CaughtUp
    <3>2. QED
      BY <3>1
  <2>5. ShowsPassed(o)
    BY <2>2, <2>3, <2>4 DEF ShowInv, ShowsHead, IsHead
  <2>6. projection[o] = Effect(log[i])
    BY <2>1, <2>4, <2>5 DEF ShowsPassed
  <2>7. CASE log[i].type = "order.placed"
    BY <2>1, <2>2, <2>6, <2>7 DEF Told, Placed, Status, Effect
  <2>8. CASE log[i].type \in Decisions
    BY <2>1, <2>2, <2>6, <2>8 DEF Told, Effect, Decisions
  <2>9. QED
    BY <2>2, <2>7, <2>8 DEF EventTypes
<1>4. QED
  BY <1>1, <1>2, <1>3, InvariantHolds, PTL DEF Spec
=============================================================================
