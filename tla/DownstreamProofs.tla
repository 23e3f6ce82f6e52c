-------------------------- MODULE DownstreamProofs --------------------------
(***************************************************************************)
(* Theorems about Downstream for any orders, workers, clerks, mailers and  *)
(* bounds: no shipment event runs ahead of its shipment, and no customer   *)
(* is notified of one event twice.                                         *)
(*                                                                         *)
(* The first rests on the version of a shipment saying its status, so that *)
(* a request whose version still matches finds the status it has read.     *)
(* The second rests on the row being inserted by one worker only, who      *)
(* alone sends, and at most once before it lets go of the message.         *)
(* Further: which confirmed orders are announced at what a group has       *)
(* consumed, that no move is published twice, and that every notification  *)
(* lost is accounted for by a stop of its worker.                          *)
(***************************************************************************)
EXTENDS Downstream, SequenceTheorems, FiniteSetTheorems, TLAPS

-----------------------------------------------------------------------------
(* Shipments: the inductive invariant.                                     *)

ShipmentTypes ==
  /\ feed \in Seq(Message)
  /\ log \in Seq(Message)
  /\ committed \in [Partitions -> Nat]
  /\ position \in [Partitions -> Nat]
  /\ owner \in [Partitions -> Workers]
  /\ current \in [Workers -> Nat]
  /\ loop \in [Workers -> LoopState]
  /\ step \in [Workers -> {"load", "insert", "publish"}]
  /\ loaded \in [Workers -> ShipmentStatus]
  /\ shipments \in [Orders -> [status : ShipmentStatus, version : Nat]]
  /\ clerk \in [Clerks -> [at : {"update", "publish"}, order : Orders,
                           move : DOMAIN Transition, version : Nat] \cup {Idle}]

\* The version tells the status, but for a row that does not exist.
VersionOf(status) ==
  CASE status \in {"NONE", "CREATED"} -> 0
    [] status = "DISPATCHED" -> 1
    [] status = "DELIVERED" -> 2

Opened(o) == shipments[o].status # "NONE"

\* A consumer that holds a shipment knows it was opened.
ConsumerInv(w) ==
  /\ loop[w] = "handle" => current[w] \in 1..Len(log)
  /\ loaded[w] # "NONE" =>
       /\ Confirmation(w)
       /\ InHand(w).order \in Orders
       /\ Opened(InHand(w).order)

\* A request about to write has read the status its move starts from, one
\* about to publish has brought the shipment there.
ClerkInv(c) ==
  /\ clerk[c].at = "update" =>
       /\ clerk[c].version = VersionOf(Transition[clerk[c].move].from)
       /\ Opened(clerk[c].order)
  /\ clerk[c].at = "publish" =>
       Transition[clerk[c].move].event \in Reached(shipments[clerk[c].order].status)

Backed(e) ==
  e.order \in Orders /\ e.type \in ShipmentEvents => e.type \in Reached(shipments[e.order].status)

ShipmentInv ==
  /\ ShipmentTypes
  /\ \A o \in Orders : shipments[o].version = VersionOf(shipments[o].status)
  /\ \A w \in Workers : ConsumerInv(w)
  /\ \A c \in Clerks : ClerkInv(c)
  /\ \A i \in 1..Len(feed) : Backed(feed[i])

shipmentVars ==
  <<feed, log, committed, position, owner, current, loop, step, loaded, shipments, clerk>>

-----------------------------------------------------------------------------
\* (sequences that grow keep what they have)
LEMMA AppendKeeps ==
  ASSUME NEW S, NEW s \in Seq(S), NEW x \in S
  PROVE  /\ Append(s, x) \in Seq(S)
         /\ Len(s) \in Nat
         /\ Len(Append(s, x)) = Len(s) + 1
         /\ \A i \in 1..Len(s) : Append(s, x)[i] = s[i]
         /\ Append(s, x)[Len(s) + 1] = x
BY SMT

\* (the two moves)
LEMMA TransitionFacts ==
  ASSUME NEW move \in DOMAIN Transition
  PROVE  /\ Transition[move].from \in {"CREATED", "DISPATCHED"}
         /\ Transition[move].to \in ShipmentStatus \ {"NONE"}
         /\ Transition[move].event \in ShipmentEvents
         /\ Transition[move].event \in Reached(Transition[move].to)
         /\ Reached(Transition[move].from) \subseteq Reached(Transition[move].to)
         /\ VersionOf(Transition[move].to) = VersionOf(Transition[move].from) + 1
BY DEF Transition, ShipmentStatus, ShipmentEvents, Reached, VersionOf

\* (the invariant holds at first)
LEMMA ShipmentInit == Init => ShipmentInv
BY DEF Init, FulfillmentInit, ConsumerInit, ShipmentInv, ShipmentTypes, NoShipment, Idle,
       VersionOf, ConsumerInv, ClerkInv, ShipmentStatus, LoopState

\* (an event joins the feed)
LEMMA FeedGrows ==
  ASSUME ShipmentInv, NEW type \in OrderEvents \cup ShipmentEvents,
         NEW o \in Orders \cup {Unparsable},
         o \in Orders /\ type \in ShipmentEvents => type \in Reached(shipments[o].status),
         Publish(type, o), UNCHANGED shipments
  PROVE  feed' \in Seq(Message) /\ \A i \in 1..Len(feed') : Backed(feed[i])'
<1> DEFINE e == [type |-> type, order |-> o]
<1>1. e \in Message /\ feed \in Seq(Message) /\ feed' = Append(feed, e)
  BY DEF Message, ShipmentInv, ShipmentTypes, Publish
<1>2. /\ feed' \in Seq(Message) /\ Len(feed) \in Nat /\ Len(feed') = Len(feed) + 1
      /\ \A i \in 1..Len(feed) : feed'[i] = feed[i]
      /\ feed'[Len(feed) + 1] = e
  BY <1>1, AppendKeeps
<1>3. ASSUME NEW i \in 1..Len(feed') PROVE Backed(feed[i])'
  <2>1. CASE i \in 1..Len(feed)
    BY <1>2, <2>1 DEF ShipmentInv, Backed
  <2>2. CASE i = Len(feed) + 1
    BY <1>2, <2>2 DEF Backed
  <2>3. QED
    BY <1>2, <2>1, <2>2
<1>4. QED
  BY <1>2, <1>3

\* (an order event joins both topics)
LEMMA OrderEventInv ==
  ASSUME ShipmentInv, NEW type \in OrderEvents, NEW o \in Orders \cup {Unparsable},
         OrderEvent(type, o)
  PROVE  ShipmentInv'
<1>1. /\ log' = Append(log, [type |-> type, order |-> o]) /\ Publish(type, o)
      /\ UNCHANGED <<committed, position, owner, current, loop, step, loaded, shipments, clerk>>
  <2>1. log \in Seq(Message) /\ [type |-> type, order |-> o] \in Message
    BY DEF ShipmentInv, ShipmentTypes, Message
  <2>2. log \o <<[type |-> type, order |-> o]>> = Append(log, [type |-> type, order |-> o])
    BY <2>1
  <2>3. QED
    BY <2>2 DEF OrderEvent, Produce, Publish
<1>2. /\ log' \in Seq(Message) /\ Len(log) \in Nat /\ Len(log') = Len(log) + 1
      /\ \A i \in 1..Len(log) : log'[i] = log[i]
  BY <1>1, AppendKeeps DEF ShipmentInv, ShipmentTypes, Message
<1>3. feed' \in Seq(Message) /\ \A i \in 1..Len(feed') : Backed(feed[i])'
  BY <1>1, FeedGrows DEF OrderEvents, ShipmentEvents
<1>4. \A w \in Workers : ConsumerInv(w)'
  BY <1>1, <1>2 DEF ShipmentInv, ConsumerInv, Opened, Confirmation, InHand
<1>5. \A c \in Clerks : ClerkInv(c)'
  BY <1>1 DEF ShipmentInv, ClerkInv, Opened
<1>6. QED
  BY <1>1, <1>2, <1>3, <1>4, <1>5 DEF ShipmentInv, ShipmentTypes

(***************************************************************************)
(* The frame of a consumer's step: the worker alone changes, shipments and *)
(* feed are proved to fit, and other workers hold what they held.          *)
(***************************************************************************)
LEMMA ConsumerFrame ==
  ASSUME ShipmentInv, NEW w \in Workers,
         ShipmentTypes', ConsumerInv(w)',
         UNCHANGED <<log, clerk, shipments>>,
         \A v \in Workers \ {w} :
           loop'[v] = loop[v] /\ current'[v] = current[v] /\ loaded'[v] = loaded[v],
         \A i \in 1..Len(feed') : Backed(feed[i])'
  PROVE  ShipmentInv'
<1>1. \A v \in Workers : ConsumerInv(v)'
  BY DEF ShipmentInv, ConsumerInv, Opened, Confirmation, InHand
<1>2. \A c \in Clerks : ClerkInv(c)'
  BY DEF ShipmentInv, ClerkInv, Opened
<1>3. QED
  BY <1>1, <1>2 DEF ShipmentInv

\* (a step of a fulfillment worker, its failures included)
LEMMA ConsumerStepInv ==
  ASSUME ShipmentInv, NEW w \in Workers,
         ConsumerStep(w) \/ StopConsumer(w) \/ RefuseCommit(w) \/ RestartConsumer(w)
  PROVE  ShipmentInv'
<1>1. /\ ShipmentTypes /\ ConsumerInv(w)
      /\ \A i \in 1..Len(feed) : Backed(feed[i])
  BY DEF ShipmentInv
<1> USE DEF InHand
<1>2. CASE FetchEvent(w)
  <2>1. PICK p \in Partitions : FetchFrom(w, p)
    BY <1>2 DEF FetchEvent, Fetch
  <2>0. DOMAIN log = 1..Len(log)
    BY <1>1, LenProperties DEF ShipmentTypes
  <2>2. PICK i \in 1..Len(log) :
          /\ position' = [position EXCEPT ![p] = i]
          /\ current' = [current EXCEPT ![w] = i]
    BY <2>0, <2>1 DEF FetchFrom
  <2>3. /\ loop[w] = "fetch"
        /\ loop' = [loop EXCEPT ![w] = "handle"]
        /\ UNCHANGED <<log, committed, owner, feed, shipments, step, loaded, clerk>>
    BY <1>2, <2>1 DEF FetchEvent, FetchFrom
  <2>4. loaded[w] = "NONE"
    BY <1>1, <2>3 DEF ConsumerInv, Confirmation
  <2>5. ShipmentTypes'
    BY <1>1, <2>2, <2>3 DEF ShipmentTypes, LoopState
  <2>6. current'[w] = i
    BY <1>1, <2>2 DEF ShipmentTypes
  <2>7. ConsumerInv(w)'
    BY <2>3, <2>4, <2>6 DEF ConsumerInv
  <2>8. QED
    BY <1>1, <2>2, <2>3, <2>5, <2>7, ConsumerFrame DEF Backed, ShipmentTypes
<1>3. CASE Ignore(w) \/ PublishDeadLetter(w)
  <2>1. /\ loop[w] = "handle" /\ loop' = [loop EXCEPT ![w] = "commit"]
        /\ UNCHANGED <<log, committed, position, owner, current, feed, shipments, step, loaded, clerk>>
    BY <1>3 DEF Ignore, PublishDeadLetter, Handled, DeadLetter, Confirmation
  <2>2. loaded[w] = "NONE"
    BY <1>1, <1>3, FulfillmentAssumption
    DEF ConsumerInv, Confirmation, Ignore, PublishDeadLetter
  <2>3. ShipmentTypes' /\ ConsumerInv(w)'
    BY <1>1, <2>1, <2>2 DEF ShipmentTypes, LoopState, ConsumerInv
  <2>4. QED
    BY <1>1, <2>1, <2>3, ConsumerFrame DEF Backed, ShipmentTypes
<1>4. CASE Load(w)
  <2> DEFINE o == InHand(w).order
  <2>1. /\ Confirmation(w) /\ o \in Orders
        /\ loaded' = [loaded EXCEPT ![w] = shipments[o].status]
        /\ step' = [step EXCEPT ![w] = IF shipments[o] = NoShipment THEN "insert" ELSE "publish"]
        /\ UNCHANGED <<log, committed, position, owner, current, loop, feed, shipments, clerk>>
    BY <1>4 DEF Load, At, consumerVars
  <2>2. ShipmentTypes'
    BY <1>1, <2>1 DEF ShipmentTypes
  <2>3. ConsumerInv(w)'
    BY <1>1, <2>1 DEF ConsumerInv, Opened, ShipmentTypes, Confirmation
  <2>4. QED
    BY <1>1, <2>1, <2>2, <2>3, ConsumerFrame DEF Backed, ShipmentTypes
<1>5. CASE Insert(w)
  <2> DEFINE o == InHand(w).order
  <2>1. /\ Confirmation(w) /\ o \in Orders
        /\ UNCHANGED <<log, committed, position, owner, current, loop, feed, clerk>>
    BY <1>5 DEF Insert, At, consumerVars
  <2>2. CASE /\ shipments[o] # NoShipment
             /\ step' = [step EXCEPT ![w] = "load"]
             /\ UNCHANGED <<shipments, loaded>>
    <3>1. ShipmentTypes' /\ ConsumerInv(w)'
      BY <1>1, <2>1, <2>2 DEF ShipmentTypes, ConsumerInv, Opened, Confirmation
    <3>2. QED
      BY <1>1, <2>1, <2>2, <3>1, ConsumerFrame DEF Backed, ShipmentTypes
  <2>3. CASE /\ shipments[o] = NoShipment
             /\ shipments' = [shipments EXCEPT ![o] = [status |-> "CREATED", version |-> 0]]
             /\ loaded' = [loaded EXCEPT ![w] = "CREATED"]
             /\ step' = [step EXCEPT ![w] = "publish"]
    <3>1. ShipmentTypes'
      BY <1>1, <2>1, <2>3 DEF ShipmentTypes, ShipmentStatus
    <3>2. /\ shipments'[o].status = "CREATED" /\ shipments'[o].version = 0
          /\ shipments[o].status = "NONE"
          /\ \A p \in Orders \ {o} : shipments'[p] = shipments[p]
      BY <1>1, <2>1, <2>3 DEF ShipmentTypes, NoShipment
    <3>3. Reached("NONE") = {}
      BY DEF Reached
    <3>4. \A p \in Orders : shipments'[p].version = VersionOf(shipments'[p].status)
      BY <3>2 DEF ShipmentInv, VersionOf
    <3>5. ASSUME NEW v \in Workers PROVE ConsumerInv(v)'
      <4>1. ConsumerInv(v)
        BY DEF ShipmentInv
      <4>2. CASE v = w
        BY <1>1, <2>1, <2>3, <3>2, <4>2 DEF ConsumerInv, Opened, Confirmation, ShipmentTypes
      <4>3. CASE v # w
        BY <1>1, <2>1, <2>3, <3>2, <4>1, <4>3
        DEF ConsumerInv, Opened, Confirmation, ShipmentTypes
      <4>4. QED
        BY <4>2, <4>3
    <3>6. ASSUME NEW c \in Clerks PROVE ClerkInv(c)'
      <4>1. ClerkInv(c) /\ clerk' = clerk
        BY <2>1 DEF ShipmentInv
      <4>2. clerk[c].at \in {"update", "publish"} => clerk[c].order \in Orders
        BY <1>1 DEF ShipmentTypes, Idle
      <4>3. QED
        BY <3>2, <3>3, <4>1, <4>2 DEF ClerkInv, Opened
    <3>7. \A i \in 1..Len(feed') : Backed(feed[i])'
      BY <1>1, <2>1, <3>2, <3>3 DEF Backed
    <3>8. QED
      BY <3>1, <3>4, <3>5, <3>6, <3>7 DEF ShipmentInv
  <2>4. QED
    BY <1>5, <2>2, <2>3 DEF Insert
<1>6. CASE PublishCreated(w)
  <2> DEFINE o == InHand(w).order
  <2>1. /\ o \in Orders
        /\ loop' = [loop EXCEPT ![w] = "commit"]
        /\ step' = [step EXCEPT ![w] = "load"]
        /\ loaded' = [loaded EXCEPT ![w] = "NONE"]
        /\ UNCHANGED <<log, committed, position, owner, current, shipments, clerk>>
    BY <1>6 DEF PublishCreated, At, Handled, ForgetShipment
  <2>2. feed' \in Seq(Message) /\ \A i \in 1..Len(feed') : Backed(feed[i])'
    <3>1. CASE loaded[w] = "CREATED" /\ Publish("shipment.created", o)
      <4>1. Opened(o)
        BY <1>1, <3>1 DEF ConsumerInv
      <4>2. shipments[o].status \in {"CREATED", "DISPATCHED", "DELIVERED"}
        BY <1>1, <2>1, <4>1 DEF Opened, ShipmentTypes, ShipmentStatus
      <4>3. "shipment.created" \in Reached(shipments[o].status)
        BY <4>2 DEF Reached, ShipmentEvents
      <4>4. QED
        BY <2>1, <3>1, <4>3, FeedGrows DEF ShipmentEvents
    <3>2. CASE UNCHANGED feed
      BY <1>1, <2>1, <3>2 DEF Backed, ShipmentTypes
    <3>3. QED
      BY <1>6, <3>1, <3>2 DEF PublishCreated, Republishes
  <2>3. ShipmentTypes' /\ ConsumerInv(w)'
    BY <1>1, <2>1, <2>2 DEF ShipmentTypes, LoopState, ConsumerInv, ShipmentStatus
  <2>4. QED
    BY <1>1, <2>1, <2>2, <2>3, ConsumerFrame DEF ShipmentTypes
<1>7. CASE CommitEvent(w)
  <2>1. /\ loop[w] = "commit"
        /\ committed' = [committed EXCEPT ![PartitionAt(current[w])] = current[w]]
        /\ current' = [current EXCEPT ![w] = 0]
        /\ loop' = [loop EXCEPT ![w] = "fetch"]
        /\ UNCHANGED <<log, position, owner, feed, shipments, step, loaded, clerk>>
    BY <1>7 DEF CommitEvent, CommitOffset
  <2>2. loaded[w] = "NONE"
    BY <1>1, <2>1 DEF ConsumerInv, Confirmation
  <2>3. ShipmentTypes' /\ ConsumerInv(w)'
    BY <1>1, <2>1, <2>2 DEF ShipmentTypes, LoopState, ConsumerInv
  <2>4. QED
    BY <1>1, <2>1, <2>3, ConsumerFrame DEF Backed, ShipmentTypes
<1>8. CASE StopConsumer(w) \/ RefuseCommit(w)
  <2>1. /\ loop' = [loop EXCEPT ![w] = "down"] /\ current' = [current EXCEPT ![w] = 0]
        /\ UNCHANGED <<log, committed, position, owner, feed, shipments, clerk>>
    BY <1>8 DEF StopConsumer, RefuseCommit, CommitRefused, Stop
  <2>2. \/ step' = [step EXCEPT ![w] = "load"] /\ loaded' = [loaded EXCEPT ![w] = "NONE"]
        \/ UNCHANGED <<step, loaded>> /\ loop[w] = "commit"
    BY <1>8 DEF StopConsumer, RefuseCommit, CommitRefused, ForgetShipment
  <2>3. loaded'[w] = "NONE"
    BY <1>1, <2>2 DEF ConsumerInv, Confirmation, ShipmentTypes
  <2>4. ShipmentTypes' /\ ConsumerInv(w)'
    <3>1. ShipmentTypes'
      <4>1. loop' \in [Workers -> LoopState] /\ current' \in [Workers -> Nat]
        BY <1>1, <2>1 DEF ShipmentTypes, LoopState
      <4>2. /\ step' \in [Workers -> {"load", "insert", "publish"}]
            /\ loaded' \in [Workers -> ShipmentStatus]
        BY <1>1, <2>2 DEF ShipmentTypes, ShipmentStatus
      <4>3. QED
        BY <1>1, <2>1, <4>1, <4>2 DEF ShipmentTypes
    <3>2. loop'[w] = "down" /\ current'[w] = 0
      BY <1>1, <2>1 DEF ShipmentTypes
    <3>3. ConsumerInv(w)'
      BY <1>1, <2>1, <2>2, <2>3, <3>2 DEF ConsumerInv, ShipmentTypes
    <3>4. QED
      BY <3>1, <3>3
  <2>5. QED
    BY <1>1, <2>1, <2>2, <2>4, ConsumerFrame DEF Backed, ShipmentTypes
<1>9. CASE RestartConsumer(w)
  <2>1. /\ position' = [p \in Partitions |-> IF owner[p] = w THEN committed[p] ELSE position[p]]
        /\ UNCHANGED <<log, committed, owner, current, feed, shipments, step, loaded, clerk>>
        /\ loop[w] = "down" /\ loop' = [loop EXCEPT ![w] = "fetch"]
    BY <1>9 DEF RestartConsumer, Restart
  <2>2. ShipmentTypes' /\ ConsumerInv(w)'
    BY <1>1, <2>1 DEF ShipmentTypes, LoopState, ConsumerInv, Confirmation, Opened
  <2>3. QED
    BY <1>1, <2>1, <2>2, ConsumerFrame DEF Backed, ShipmentTypes
<1>10. QED
  BY <1>2, <1>3, <1>4, <1>5, <1>6, <1>7, <1>8, <1>9 DEF ConsumerStep

\* (the partitions change hands, the workers go on with what they hold)
LEMMA RebalanceInv ==
  ASSUME ShipmentInv, NEW assignment \in [Partitions -> Workers],
         RebalanceConsumers(assignment)
  PROVE  ShipmentInv'
<1>1. ShipmentTypes'
  BY DEF ShipmentInv, ShipmentTypes, RebalanceConsumers, Rebalance
<1>2. \A w \in Workers : ConsumerInv(w)'
  BY DEF ShipmentInv, RebalanceConsumers, Rebalance, ConsumerInv, Opened, Confirmation, InHand
<1>3. \A c \in Clerks : ClerkInv(c)'
  BY DEF ShipmentInv, RebalanceConsumers, ClerkInv, Opened
<1>4. QED
  BY <1>1, <1>2, <1>3 DEF ShipmentInv, RebalanceConsumers, Backed

-----------------------------------------------------------------------------
(* The requests.                                                           *)

\* (a request between two steps)
LEMMA RequestType ==
  ASSUME ShipmentInv, NEW c \in Clerks, clerk[c] # Idle
  PROVE  clerk[c] \in [at : {"update", "publish"}, order : Orders,
                       move : DOMAIN Transition, version : Nat]
BY DEF ShipmentInv, ShipmentTypes

(***************************************************************************)
(* The frame of a request's step that leaves the shipments alone.          *)
(***************************************************************************)
LEMMA ClerkFrame ==
  ASSUME ShipmentInv, NEW c \in Clerks,
         ShipmentTypes', ClerkInv(c)',
         UNCHANGED <<log, current, loop, loaded, shipments>>,
         \A d \in Clerks \ {c} : clerk'[d] = clerk[d],
         \A i \in 1..Len(feed') : Backed(feed[i])'
  PROVE  ShipmentInv'
<1>1. \A w \in Workers : ConsumerInv(w)'
  BY DEF ShipmentInv, ConsumerInv, Opened, Confirmation, InHand
<1>2. \A d \in Clerks : ClerkInv(d)'
  BY DEF ShipmentInv, ClerkInv, Opened
<1>3. QED
  BY <1>1, <1>2 DEF ShipmentInv

\* (a request ends)
LEMMA RequestEnds ==
  ASSUME ShipmentInv, NEW c \in Clerks,
         clerk' = [clerk EXCEPT ![c] = Idle],
         UNCHANGED <<consumerVars, shipments, step, loaded>>,
         feed' \in Seq(Message), \A i \in 1..Len(feed') : Backed(feed[i])'
  PROVE  ShipmentInv'
<1>1. ShipmentTypes'
  BY DEF ShipmentInv, ShipmentTypes, consumerVars
<1>2. ClerkInv(c)'
  BY DEF ShipmentInv, ShipmentTypes, ClerkInv, Idle
<1>3. QED
  BY <1>1, <1>2, ClerkFrame DEF consumerVars, ShipmentInv, ShipmentTypes

\* (a request reads what its move starts from)
LEMMA AskInv ==
  ASSUME ShipmentInv, NEW c \in Clerks, NEW move \in DOMAIN Transition, NEW o \in Orders,
         Ask(c, move, o)
  PROVE  ShipmentInv'
<1>1. /\ clerk' = [clerk EXCEPT ![c] =
             [at |-> "update", order |-> o, move |-> move, version |-> shipments[o].version]]
      /\ shipments[o].status = Transition[move].from
      /\ UNCHANGED <<log, committed, position, owner, current, loop, feed, shipments, step, loaded>>
  BY DEF Ask, consumerVars
<1>2. ShipmentTypes'
  BY <1>1 DEF ShipmentInv, ShipmentTypes
<1>3. ClerkInv(c)'
  BY <1>1, TransitionFacts DEF ShipmentInv, ShipmentTypes, ClerkInv, Opened
<1>4. \A i \in 1..Len(feed') : Backed(feed[i])'
  BY <1>1 DEF ShipmentInv, Backed
<1>5. QED
  BY <1>1, <1>2, <1>3, <1>4, ClerkFrame DEF ShipmentInv, ShipmentTypes

\* (the version of an open shipment is that of one status only)
LEMMA VersionTells ==
  ASSUME NEW a \in ShipmentStatus \ {"NONE"}, NEW b \in ShipmentStatus \ {"NONE"},
         VersionOf(a) = VersionOf(b)
  PROVE  a = b
BY DEF VersionOf, ShipmentStatus

\* (a request whose version still matches finds the status it has read)
LEMMA MatchTells ==
  ASSUME ShipmentInv, NEW c \in Clerks, clerk[c].at = "update", RowMatches(c)
  PROVE  /\ clerk[c].order \in Orders /\ clerk[c].move \in DOMAIN Transition
         /\ shipments[clerk[c].order].status = Transition[clerk[c].move].from
<1> DEFINE o == clerk[c].order
           t == Transition[clerk[c].move]
<1>1. o \in Orders /\ clerk[c].move \in DOMAIN Transition
  BY RequestType DEF Idle
<1>2. /\ shipments[o].version = VersionOf(shipments[o].status)
      /\ clerk[c].version = VersionOf(t.from)
      /\ shipments[o].version = clerk[c].version
      /\ shipments[o].status \in ShipmentStatus \ {"NONE"}
  BY <1>1 DEF ShipmentInv, ShipmentTypes, ClerkInv, Opened, RowMatches
<1>3. t.from \in ShipmentStatus \ {"NONE"}
  BY <1>1, TransitionFacts DEF ShipmentStatus
<1>4. QED
  BY <1>1, <1>2, <1>3, VersionTells

(***************************************************************************)
(* The UPDATE: where the version matches, the status is the one the        *)
(* request has read, and the shipment only moves forward.                  *)
(***************************************************************************)
LEMMA UpdateInv ==
  ASSUME ShipmentInv, NEW c \in Clerks, Update(c)
  PROVE  ShipmentInv'
<1> DEFINE o == clerk[c].order
           t == Transition[clerk[c].move]
<1>1. clerk[c].at = "update" /\ clerk[c] # Idle
  BY DEF Update, Idle
<1>2. clerk[c] \in [at : {"update", "publish"}, order : Orders,
                    move : DOMAIN Transition, version : Nat]
  BY <1>1, RequestType
<1>3. o \in Orders /\ clerk[c].move \in DOMAIN Transition
  BY <1>2
<1>4. UNCHANGED <<log, committed, position, owner, current, loop, feed, step, loaded>>
  BY DEF Update, consumerVars
<1>5. CASE ~RowMatches(c)
  <2>1. clerk' = [clerk EXCEPT ![c] = Idle] /\ UNCHANGED shipments
    BY <1>5 DEF Update
  <2>2. \A i \in 1..Len(feed') : Backed(feed[i])'
    BY <1>4, <2>1 DEF ShipmentInv, Backed
  <2>3. feed' \in Seq(Message)
    BY <1>4 DEF ShipmentInv, ShipmentTypes
  <2>4. QED
    BY <2>1, <2>2, <2>3, RequestEnds DEF Update
<1>6. CASE RowMatches(c)
  <2>1. /\ shipments' = [shipments EXCEPT ![o] = [status |-> t.to, version |-> @.version + 1]]
        /\ clerk' = [clerk EXCEPT ![c].at = "publish"]
    BY <1>6 DEF Update
  <2>2. shipments[o].status = t.from
    BY <1>1, <1>6, MatchTells
  <2>3. /\ t.to \in ShipmentStatus \ {"NONE"} /\ t.event \in Reached(t.to)
        /\ Reached(t.from) \subseteq Reached(t.to)
        /\ VersionOf(t.to) = VersionOf(t.from) + 1
    BY <1>3, TransitionFacts
  <2>4. /\ shipments'[o].status = t.to /\ shipments'[o].version = shipments[o].version + 1
        /\ \A p \in Orders \ {o} : shipments'[p] = shipments[p]
        /\ shipments' \in [Orders -> [status : ShipmentStatus, version : Nat]]
    BY <1>3, <2>1, <2>3 DEF ShipmentInv, ShipmentTypes
  <2>5. clerk' \in [Clerks -> [at : {"update", "publish"}, order : Orders,
                              move : DOMAIN Transition, version : Nat] \cup {Idle}]
        /\ clerk'[c] = [clerk[c] EXCEPT !.at = "publish"]
        /\ \A d \in Clerks \ {c} : clerk'[d] = clerk[d]
    BY <1>2, <2>1 DEF ShipmentInv, ShipmentTypes
  <2>6. ShipmentTypes'
    BY <1>4, <2>4, <2>5 DEF ShipmentInv, ShipmentTypes
  <2>7. \A p \in Orders : shipments'[p].version = VersionOf(shipments'[p].status)
    BY <1>3, <2>2, <2>3, <2>4 DEF ShipmentInv
  <2>8. \A p \in Orders : /\ Opened(p) => Opened(p)'
                         /\ Reached(shipments[p].status) \subseteq Reached(shipments'[p].status)
    BY <1>3, <2>2, <2>3, <2>4 DEF Opened
  <2>9. \A w \in Workers : ConsumerInv(w)'
    BY <1>4, <2>8 DEF ShipmentInv, ConsumerInv, Confirmation, InHand
  <2>10. ASSUME NEW d \in Clerks PROVE ClerkInv(d)'
    <3>1. ClerkInv(d)
      BY DEF ShipmentInv
    <3>2. CASE d = c
      <4>1. clerk'[c].at = "publish" /\ clerk'[c].order = o /\ clerk'[c].move = clerk[c].move
        BY <1>2, <2>5
      <4>2. QED
        BY <2>3, <2>4, <3>2, <4>1 DEF ClerkInv
    <3>3. CASE d # c
      <4>1. clerk'[d] = clerk[d]
        BY <2>5, <3>3
      <4>2. clerk[d].at \in {"update", "publish"} => clerk[d].order \in Orders
        BY DEF ShipmentInv, ShipmentTypes, Idle
      <4>3. QED
        BY <2>8, <3>1, <4>1, <4>2 DEF ClerkInv
    <3>4. QED
      BY <3>2, <3>3
  <2>11. \A i \in 1..Len(feed') : Backed(feed[i])'
    BY <1>4, <2>8 DEF ShipmentInv, Backed
  <2>12. QED
    BY <2>6, <2>7, <2>9, <2>10, <2>11 DEF ShipmentInv
<1>7. QED
  BY <1>5, <1>6

\* (the request publishes what it has written)
LEMMA PublishMoveInv ==
  ASSUME ShipmentInv, NEW c \in Clerks, PublishMove(c)
  PROVE  ShipmentInv'
<1> DEFINE o == clerk[c].order
           t == Transition[clerk[c].move]
<1>1. /\ clerk[c].at = "publish" /\ clerk[c] # Idle
      /\ Publish(t.event, o) /\ clerk' = [clerk EXCEPT ![c] = Idle]
      /\ UNCHANGED <<consumerVars, shipments, step, loaded>>
  BY DEF PublishMove, Idle
<1>2. o \in Orders /\ clerk[c].move \in DOMAIN Transition
  BY <1>1, RequestType
<1>3. t.event \in ShipmentEvents /\ t.event \in Reached(shipments[o].status)
  BY <1>1, <1>2, TransitionFacts DEF ShipmentInv, ClerkInv
<1>4. feed' \in Seq(Message) /\ \A i \in 1..Len(feed') : Backed(feed[i])'
  BY <1>1, <1>2, <1>3, FeedGrows
<1>5. QED
  BY <1>1, <1>4, RequestEnds

\* (a request fails between two steps)
LEMMA FailRequestInv ==
  ASSUME ShipmentInv, NEW c \in Clerks, FailRequest(c)
  PROVE  ShipmentInv'
<1>1. /\ clerk' = [clerk EXCEPT ![c] = Idle]
      /\ UNCHANGED <<consumerVars, feed, shipments, step, loaded>>
  BY DEF FailRequest
<1>2. feed' \in Seq(Message) /\ \A i \in 1..Len(feed') : Backed(feed[i])'
  BY <1>1 DEF ShipmentInv, ShipmentTypes, Backed
<1>3. QED
  BY <1>1, <1>2, RequestEnds

-----------------------------------------------------------------------------
\* (the notification service reads the feed only)
LEMMA MailFrame == Mail!NotificationNext => UNCHANGED feed
BY DEF Mail!NotificationNext, Mail!WorkerStep, Mail!FetchMessage, Mail!RenderFails,
       Mail!RecordIfNew, Mail!Send, Mail!CommitMessage, Mail!StopWorker,
       Mail!RestartWorker, Mail!RebalanceWorkers, Mail!Fetch, Mail!FetchFrom, Mail!Handled,
       Mail!DeadLetter, Mail!CommitOffset, Mail!Stop, Mail!Restart, Mail!Rebalance,
       Mail!consumerVars

\* (nothing the invariant is about has changed)
LEMMA ShipmentStutter == ShipmentInv /\ UNCHANGED shipmentVars => ShipmentInv'
BY DEF ShipmentInv, ShipmentTypes, shipmentVars, ConsumerInv, ClerkInv, Backed, Opened,
       Confirmation, InHand

\* (every step keeps the invariant)
LEMMA NextShipments == ShipmentInv /\ [Next]_vars => ShipmentInv'
<1> SUFFICES ASSUME ShipmentInv, [Next]_vars PROVE ShipmentInv'
  OBVIOUS
<1>1. CASE FulfillmentNext
  <2>1. CASE \E type \in OrderEvents, o \in Orders \cup {Unparsable} : OrderEvent(type, o)
    BY <2>1, OrderEventInv
  <2>2. CASE \E w \in Workers :
               \/ ConsumerStep(w) \/ StopConsumer(w) \/ RefuseCommit(w)
               \/ RestartConsumer(w)
    BY <2>2, ConsumerStepInv
  <2>6. CASE \E assignment \in [Partitions -> Workers] : RebalanceConsumers(assignment)
    BY <2>6, RebalanceInv
  <2>3. CASE \E c \in Clerks, move \in DOMAIN Transition, o \in Orders : Ask(c, move, o)
    BY <2>3, AskInv
  <2>4. CASE \E c \in Clerks : RequestStep(c) \/ FailRequest(c)
    BY <2>4, UpdateInv, PublishMoveInv, FailRequestInv DEF RequestStep
  <2>5. QED
    BY <1>1, <2>1, <2>2, <2>3, <2>4, <2>6 DEF FulfillmentNext
<1>2. CASE /\ Mail!NotificationNext
           /\ UNCHANGED <<consumerVars, shipments, step, loaded, clerk, failures>>
  BY <1>2, MailFrame, ShipmentStutter DEF shipmentVars, consumerVars
<1>3. CASE UNCHANGED vars
  BY <1>3, ShipmentStutter DEF shipmentVars, vars, fulfillmentVars, consumerVars
<1>4. QED
  BY <1>1, <1>2, <1>3 DEF Next

(***************************************************************************)
(* Whatever fails, restarts or races between the write of a shipment and   *)
(* the publish of its event, an event in the topic tells of a state the    *)
(* shipment has reached.                                                   *)
(***************************************************************************)
THEOREM ShipmentEventsBackedAlways == Spec => []ShipmentEventsBacked
<1>1. ShipmentInv => ShipmentEventsBacked
  <2> SUFFICES ASSUME ShipmentInv, NEW o \in Orders, NEW type \in ShipmentEvents,
                      NEW i \in DOMAIN feed, feed[i] = [type |-> type, order |-> o]
               PROVE  type \in Reached(shipments[o].status)
    BY DEF ShipmentEventsBacked, InTopic
  <2>1. i \in 1..Len(feed)
    BY DEF ShipmentInv, ShipmentTypes
  <2>2. Backed(feed[i]) /\ feed[i].type = type /\ feed[i].order = o
    BY <2>1 DEF ShipmentInv
  <2>3. QED
    BY <2>2 DEF Backed
<1>2. QED
  BY <1>1, ShipmentInit, NextShipments, PTL DEF Spec

\* (the topics only grow)
LEMMA FeedKeeps ==
  ASSUME ShipmentInv, FulfillmentNext
  PROVE  Len(feed') >= Len(feed) /\ \A i \in 1..Len(feed) : feed'[i] = feed[i]
<1>1. feed \in Seq(Message)
  BY DEF ShipmentInv, ShipmentTypes
<1>2. feed' = feed \/ \E e \in Message : feed' = Append(feed, e)
  <2>1. CASE \E type \in OrderEvents, o \in Orders \cup {Unparsable} : OrderEvent(type, o)
    BY <2>1 DEF OrderEvent, Message
  <2>2. CASE \E w \in Workers :
               \/ ConsumerStep(w) \/ StopConsumer(w) \/ RefuseCommit(w)
               \/ RestartConsumer(w)
    <3> PICK w \in Workers :
               \/ ConsumerStep(w) \/ StopConsumer(w) \/ RefuseCommit(w)
               \/ RestartConsumer(w)
      BY <2>2
    <3>1. CASE PublishCreated(w)
      BY <3>1 DEF PublishCreated, Publish, Message, At, ShipmentEvents
    <3>2. CASE ~PublishCreated(w)
      BY <3>2 DEF ConsumerStep, FetchEvent, Ignore, PublishDeadLetter, Load, Insert,
                  CommitEvent, StopConsumer, RefuseCommit, RestartConsumer
    <3>3. QED
      BY <3>1, <3>2
  <2>6. CASE \E assignment \in [Partitions -> Workers] : RebalanceConsumers(assignment)
    BY <2>6 DEF RebalanceConsumers
  <2>3. CASE \E c \in Clerks, move \in DOMAIN Transition, o \in Orders : Ask(c, move, o)
    BY <2>3 DEF Ask
  <2>4. CASE \E c \in Clerks : RequestStep(c) \/ FailRequest(c)
    <3> PICK c \in Clerks : RequestStep(c) \/ FailRequest(c)
      BY <2>4
    <3>1. CASE PublishMove(c)
      <4>1. clerk[c] # Idle
        BY <3>1 DEF PublishMove, Idle
      <4>2. clerk[c].order \in Orders /\ clerk[c].move \in DOMAIN Transition
        BY <4>1, RequestType
      <4>3. Transition[clerk[c].move].event \in ShipmentEvents
        BY <4>2, TransitionFacts
      <4>4. QED
        BY <3>1, <4>2, <4>3 DEF PublishMove, Publish, Message
    <3>2. CASE Update(c) \/ FailRequest(c)
      BY <3>2 DEF Update, FailRequest
    <3>3. QED
      BY <3>1, <3>2 DEF RequestStep
  <2>5. QED
    BY <2>1, <2>2, <2>3, <2>4, <2>6 DEF FulfillmentNext
<1>3. QED
  BY <1>1, <1>2, AppendKeeps

\* (the topic the consumers read only grows)
LEMMA LogKeeps ==
  ASSUME ShipmentInv, FulfillmentNext
  PROVE  Len(log') >= Len(log) /\ \A i \in 1..Len(log) : log'[i] = log[i]
<1>1. CASE \E type \in OrderEvents, o \in Orders \cup {Unparsable} : OrderEvent(type, o)
  BY <1>1 DEF OrderEvent, Produce, ShipmentInv, ShipmentTypes
<1>2. CASE log' = log
  BY <1>2 DEF ShipmentInv, ShipmentTypes
<1>3. QED
  BY <1>1, <1>2
  DEF FulfillmentNext, ConsumerStep, FetchEvent, Fetch, FetchFrom, Ignore, PublishDeadLetter,
      Handled, DeadLetter, Load, Insert, PublishCreated, CommitEvent, CommitOffset,
      StopConsumer, RefuseCommit, CommitRefused, Stop, RestartConsumer, Restart,
      RebalanceConsumers, Rebalance, Ask, RequestStep, Update, PublishMove, FailRequest, consumerVars

\* (a shipment stays open, and does not come back to its first status)
LEMMA ShipmentsMoveOn ==
  ASSUME ShipmentInv, FulfillmentNext, NEW o \in Orders, Opened(o)
  PROVE  Opened(o)' /\ (shipments[o].status # "CREATED" => shipments'[o].status # "CREATED")
<1>1. shipments \in [Orders -> [status : ShipmentStatus, version : Nat]]
  BY DEF ShipmentInv, ShipmentTypes
<1>2. CASE \E w \in Workers : Insert(w)
  <2>1. shipments'[o] = shipments[o]
    BY <1>1, <1>2 DEF Insert, Opened, NoShipment
  <2>2. QED
    BY <2>1 DEF Opened
<1>3. CASE \E c \in Clerks : Update(c)
  <2>1. PICK c \in Clerks : Update(c)
    BY <1>3
  <2>2. clerk[c].order \in Orders /\ clerk[c].move \in DOMAIN Transition
    BY <2>1, RequestType DEF Update, Idle
  <2>3. Transition[clerk[c].move].to \notin {"NONE", "CREATED"}
    BY <2>2 DEF Transition
  <2>4. \/ shipments'[o] = shipments[o]
        \/ shipments'[o].status = Transition[clerk[c].move].to
    BY <1>1, <2>1, <2>2 DEF Update
  <2>5. QED
    BY <2>3, <2>4 DEF Opened
<1>4. CASE shipments' = shipments
  BY <1>4 DEF Opened
<1>5. QED
  BY <1>2, <1>3, <1>4
  DEF FulfillmentNext, ConsumerStep, OrderEvent, FetchEvent, Ignore, PublishDeadLetter, Load,
      PublishCreated, CommitEvent, StopConsumer, RefuseCommit, RestartConsumer,
      RebalanceConsumers, Ask, RequestStep, PublishMove, FailRequest

-----------------------------------------------------------------------------
(* Confirmations: what the group knows of the messages it is past.         *)

\* Nothing is left to do for a message: of a confirmation, the shipment is
\* there, and announced unless it has moved on.
Announced(e) ==
  e.type = "order.confirmed" /\ e.order \in Orders =>
    /\ Opened(e.order)
    /\ shipments[e.order].status = "CREATED" => InTopic(feed, "shipment.created", e.order)

\* A worker has no message behind it, in the partition of the one in hand, with
\* anything left to do; at its publish it holds the shipment as it is, or as it
\* was before a move.
Consumed(w) ==
  /\ loop[w] \in {"handle", "commit"} =>
       /\ current[w] \in 1..Len(log)
       /\ \A i \in 1..(current[w] - 1) :
            PartitionAt(i) = PartitionAt(current[w]) => Announced(log[i])
  /\ loop[w] = "commit" => Announced(log[current[w]])
  /\ step[w] # "load" => Confirmation(w) /\ InHand(w).order \in Orders
  /\ step[w] = "publish" =>
       /\ Opened(InHand(w).order)
       /\ loaded[w] # "CREATED" => shipments[InHand(w).order].status # "CREATED"

\* Nor do the messages of p its owner has read, but for one in hand.
Delivered(p) ==
  /\ position[p] <= Len(log)
  /\ loop[owner[p]] # "down" =>
       \A i \in 1..position[p] :
         PartitionAt(i) = p =>
           \/ Announced(log[i])
           \/ loop[owner[p]] = "handle" /\ i = current[owner[p]]

CommittedConsumed ==
  \A p \in Partitions :
    /\ committed[p] <= Len(log)
    /\ \A i \in 1..committed[p] : PartitionAt(i) = p => Announced(log[i])

ConsumedInv ==
  /\ CommittedConsumed
  /\ \A p \in Partitions : Delivered(p)
  /\ \A w \in Workers : Consumed(w)

\* w stops, or lets go of the message in hand only when it is done with.
LetsGo(w) ==
  \/ loop'[w] = "down"
  \/ /\ loop[w] # "down"
     /\ loop[w] = "handle" =>
          current'[w] = current[w] /\ (Announced(log[current[w]])' \/ loop'[w] = "handle")

\* (the log holds messages, each in a partition)
LEMMA MessagesTyped ==
  ASSUME ShipmentTypes, NEW i \in 1..Len(log)
  PROVE  log[i] \in Message /\ PartitionAt(i) \in Partitions
<1>1. log[i] \in Message
  BY ElementOfSeq DEF ShipmentTypes
<1>2. QED
  BY <1>1, KeyAssumption DEF PartitionAt

\* (lengths and offsets are numbers, and the log only grows)
LEMMA OffsetsTyped ==
  ASSUME ShipmentInv, ShipmentInv', FulfillmentNext
  PROVE  /\ Len(log) \in Nat /\ Len(log') \in Nat /\ Len(log') >= Len(log)
         /\ \A i \in 1..Len(log) : log'[i] = log[i] /\ PartitionAt(i)' = PartitionAt(i)
<1>1. Len(log) \in Nat /\ Len(log') \in Nat
  BY LenProperties DEF ShipmentInv, ShipmentTypes
<1>2. QED
  BY <1>1, LogKeeps DEF PartitionAt

\* (what has been done stays done)
LEMMA AnnouncedKept ==
  ASSUME ShipmentInv, ShipmentInv', FulfillmentNext,
         NEW i \in 1..Len(log), Announced(log[i])
  PROVE  Announced(log[i])'
<1>1. log'[i] = log[i]
  BY LogKeeps
<1>2. CASE log[i].type = "order.confirmed" /\ log[i].order \in Orders
  <2> DEFINE o == log[i].order
  <2>1. /\ Opened(o)
        /\ shipments[o].status = "CREATED" => InTopic(feed, "shipment.created", o)
    BY <1>2 DEF Announced
  <2>2. Opened(o)' /\ (shipments'[o].status = "CREATED" => shipments[o].status = "CREATED")
    BY <1>2, <2>1, <1>1, ShipmentsMoveOn
  <2>3. InTopic(feed, "shipment.created", o) => InTopic(feed', "shipment.created", o)
    <3>1. feed \in Seq(Message) /\ feed' \in Seq(Message)
      BY DEF ShipmentInv, ShipmentTypes
    <3>2. QED
      BY <3>1, FeedKeeps DEF InTopic
  <2>4. QED
    BY <1>1, <1>2, <2>1, <2>2, <2>3 DEF Announced, Opened
<1>3. CASE ~(log[i].type = "order.confirmed" /\ log[i].order \in Orders)
  BY <1>1, <1>3 DEF Announced
<1>4. QED
  BY <1>2, <1>3

\* (no row, no shipment)
LEMMA OpenedTells ==
  ASSUME ShipmentInv, NEW o \in Orders
  PROVE  shipments[o] = NoShipment <=> ~Opened(o)
<1>1. /\ shipments[o] \in [status : ShipmentStatus, version : Nat]
      /\ shipments[o].version = VersionOf(shipments[o].status)
  BY DEF ShipmentInv, ShipmentTypes
<1>2. CASE shipments[o].status = "NONE"
  <2>1. shipments[o].version = 0
    BY <1>1, <1>2 DEF VersionOf
  <2>2. QED
    BY <1>1, <1>2, <2>1 DEF NoShipment, Opened
<1>3. CASE shipments[o].status # "NONE"
  BY <1>3 DEF NoShipment, Opened
<1>4. QED
  BY <1>2, <1>3

\* (a worker that does not move keeps what it knows)
LEMMA ConsumedKept ==
  ASSUME ShipmentInv, ShipmentInv', FulfillmentNext, NEW w \in Workers, Consumed(w),
         current'[w] = current[w], loop'[w] = loop[w],
         step'[w] = step[w], loaded'[w] = loaded[w]
  PROVE  Consumed(w)'
<1>1. /\ Len(log) \in Nat /\ Len(log') \in Nat /\ Len(log') >= Len(log)
      /\ \A i \in 1..Len(log) : log'[i] = log[i] /\ PartitionAt(i)' = PartitionAt(i)
      /\ current[w] \in Nat
  BY OffsetsTyped DEF ShipmentInv, ShipmentTypes
<1>2. \A i \in 1..Len(log) : Announced(log[i]) => Announced(log[i])'
  BY AnnouncedKept
<1>3. ASSUME loop[w] \in {"handle", "commit"}
      PROVE  /\ current'[w] \in 1..Len(log')
             /\ PartitionAt(current[w])' = PartitionAt(current[w])
             /\ \A i \in 1..(current[w] - 1) :
                  PartitionAt(i)' = PartitionAt(current[w]) => Announced(log[i])'
  <2>1. /\ current[w] \in 1..Len(log)
        /\ \A i \in 1..(current[w] - 1) :
             PartitionAt(i) = PartitionAt(current[w]) => Announced(log[i])
    BY <1>3 DEF Consumed
  <2>2. current[w] \in 1..Len(log') /\ \A i \in 1..(current[w] - 1) : i \in 1..Len(log)
    BY <1>1, <2>1
  <2>3. PartitionAt(current[w])' = PartitionAt(current[w])
    BY <1>1, <2>1 DEF PartitionAt
  <2>4. QED
    BY <1>1, <1>2, <2>1, <2>2, <2>3
<1>4. loop'[w] = "commit" => Announced(log[current[w]])'
  <2> SUFFICES ASSUME loop[w] = "commit" PROVE Announced(log[current[w]])'
    OBVIOUS
  <2>1. current[w] \in 1..Len(log) /\ Announced(log[current[w]])
    BY DEF Consumed
  <2>2. QED
    BY <1>2, <2>1 DEF Announced
<1>5. step'[w] # "load" =>
        Confirmation(w)' /\ InHand(w)' = InHand(w) /\ InHand(w).order \in Orders
  BY <1>1 DEF Consumed, Confirmation, InHand
<1>6. step'[w] = "publish" =>
        /\ Opened(InHand(w).order)'
        /\ loaded'[w] # "CREATED" => shipments'[InHand(w)'.order].status # "CREATED"
  BY <1>5, ShipmentsMoveOn DEF Consumed, Opened
<1>7. loop'[w] \in {"handle", "commit"} =>
        /\ current'[w] \in 1..Len(log')
        /\ \A i \in 1..(current'[w] - 1) :
             PartitionAt(i)' = PartitionAt(current[w])' => Announced(log[i])'
  BY <1>3
<1>8. QED
  BY <1>4, <1>5, <1>6, <1>7 DEF Consumed

\* (nor does a partition whose owner does not lose the message in hand)
LEMMA DeliveredKept ==
  ASSUME ShipmentInv, ShipmentInv', FulfillmentNext, NEW p \in Partitions, Delivered(p),
         owner'[p] = owner[p], position'[p] = position[p], LetsGo(owner[p])
  PROVE  Delivered(p)'
<1>1. /\ Len(log) \in Nat /\ Len(log') \in Nat /\ Len(log') >= Len(log)
      /\ \A i \in 1..Len(log) : log'[i] = log[i] /\ PartitionAt(i)' = PartitionAt(i)
      /\ position[p] \in Nat /\ position[p] <= Len(log)
  BY OffsetsTyped DEF ShipmentInv, ShipmentTypes, Delivered
<1>2. ASSUME loop'[owner[p]] # "down", NEW i \in 1..position[p], PartitionAt(i)' = p
      PROVE  Announced(log[i])' \/ (loop'[owner[p]] = "handle" /\ i = current'[owner[p]])
  <2>1. i \in 1..Len(log)
    BY <1>1
  <2>2. Announced(log[i]) \/ (loop[owner[p]] = "handle" /\ i = current[owner[p]])
    BY <1>1, <1>2, <2>1 DEF Delivered, LetsGo
  <2>3. CASE Announced(log[i])
    BY <2>1, <2>3, AnnouncedKept
  <2>4. CASE loop[owner[p]] = "handle" /\ i = current[owner[p]]
    <3>1. /\ current'[owner[p]] = i
          /\ Announced(log[current[owner[p]]])' \/ loop'[owner[p]] = "handle"
      BY <1>2, <2>4 DEF LetsGo
    <3>2. QED
      BY <2>4, <3>1 DEF Announced
  <2>5. QED
    BY <2>2, <2>3, <2>4
<1>3. QED
  BY <1>1, <1>2 DEF Delivered

\* (a confirmation is done with when its shipment was announced or moved on)
LEMMA PublishCreatedAnnounces ==
  ASSUME ShipmentInv, NEW w \in Workers, Consumed(w), PublishCreated(w)
  PROVE  Announced(log[current[w]])'
<1> DEFINE o == InHand(w).order
<1>1. /\ o \in Orders /\ step[w] = "publish" /\ UNCHANGED <<shipments, log, current>>
      /\ \/ loaded[w] = "CREATED" /\ Publish("shipment.created", o)
         \/ loaded[w] # "CREATED" /\ UNCHANGED feed
  BY DEF PublishCreated, At, Handled, Republishes
<1>2. Opened(o) /\ (loaded[w] # "CREATED" => shipments[o].status # "CREATED")
  BY <1>1 DEF Consumed
<1>3. CASE loaded[w] = "CREATED" /\ Publish("shipment.created", o)
  <2>1. InTopic(feed', "shipment.created", o)
    <3>1. feed \in Seq(Message) /\ feed' = Append(feed, [type |-> "shipment.created", order |-> o])
      BY <1>3 DEF ShipmentInv, ShipmentTypes, Publish
    <3>2. [type |-> "shipment.created", order |-> o] \in Message
      BY <1>1 DEF Message, ShipmentEvents
    <3>3. /\ Len(feed') = Len(feed) + 1 /\ Len(feed) \in Nat /\ feed' \in Seq(Message)
          /\ feed'[Len(feed) + 1] = [type |-> "shipment.created", order |-> o]
      BY <3>1, <3>2, AppendKeeps
    <3>4. Len(feed) + 1 \in DOMAIN feed'
      BY <3>3
    <3>5. QED
      BY <3>3, <3>4 DEF InTopic
  <2>2. QED
    BY <1>1, <1>2, <2>1 DEF Announced, Opened, InHand
<1>4. CASE loaded[w] # "CREATED"
  BY <1>1, <1>2, <1>4 DEF Announced, Opened, InHand
<1>5. QED
  BY <1>1, <1>3, <1>4

\* (a worker that has handled its message may commit it)
LEMMA HandledConsumed ==
  ASSUME ShipmentInv, ShipmentInv', FulfillmentNext, NEW w \in Workers, Consumed(w),
         loop[w] = "handle", loop'[w] = "commit", step'[w] = "load",
         UNCHANGED <<log, current>>, Announced(log[current[w]])'
  PROVE  Consumed(w)' /\ LetsGo(w)
<1>1. /\ Len(log) \in Nat /\ current[w] \in 1..Len(log)
      /\ \A i \in 1..(current[w] - 1) :
           PartitionAt(i) = PartitionAt(current[w]) => Announced(log[i])
  BY OffsetsTyped DEF Consumed
<1>2. \A i \in 1..(current[w] - 1) : i \in 1..Len(log)
  BY <1>1
<1>3. \A i \in 1..(current[w] - 1) :
        PartitionAt(i) = PartitionAt(current[w]) => Announced(log[i])'
  BY <1>1, <1>2, AnnouncedKept
<1>4. \A i \in 1..(current[w] - 1) :
        PartitionAt(i)' = PartitionAt(current[w])' => Announced(log[i])'
  BY <1>3 DEF PartitionAt
<1>5. QED
  BY <1>1, <1>4 DEF Consumed, LetsGo

\* (the message fetched is the first of its partition not delivered yet)
LEMMA FetchConsumed ==
  ASSUME ShipmentInv, ShipmentInv', ConsumedInv, FulfillmentNext,
         NEW w \in Workers, NEW p \in Partitions, FetchFrom(w, p), UNCHANGED step
  PROVE  /\ Consumed(w)' /\ LetsGo(w) /\ Delivered(p)'
         /\ owner' = owner /\ \A q \in Partitions \ {p} : position'[q] = position[q]
<1>1. /\ ShipmentTypes /\ Consumed(w) /\ Delivered(p)
      /\ Len(log) \in Nat /\ DOMAIN log = 1..Len(log)
  BY LenProperties DEF ShipmentInv, ShipmentTypes, ConsumedInv
<1>2. PICK i \in 1..Len(log) :
        /\ IsNext(i, p)
        /\ position' = [position EXCEPT ![p] = i]
        /\ current' = [current EXCEPT ![w] = i]
  BY <1>1 DEF FetchFrom
<1>3. /\ loop[w] = "fetch" /\ owner[p] = w /\ UNCHANGED <<log, owner>>
      /\ loop' = [loop EXCEPT ![w] = "handle"]
  BY DEF FetchFrom
<1>4. /\ position'[p] = i /\ current'[w] = i /\ loop'[w] = "handle"
      /\ position[p] \in Nat
      /\ \A q \in Partitions \ {p} : position'[q] = position[q]
  BY <1>1, <1>2, <1>3 DEF ShipmentTypes
<1>5. ASSUME NEW j \in 1..(i - 1), PartitionAt(j) = p
      PROVE  Announced(log[j])'
  <2>1. j \in 1..Len(log)
    BY <1>1
  <2>2. j \in 1..position[p]
    BY <1>2, <1>4, <1>5, <2>1 DEF IsNext
  <2>3. Announced(log[j])
    BY <1>1, <1>3, <1>5, <2>2 DEF Delivered
  <2>4. QED
    BY <2>1, <2>3, AnnouncedKept
<1>6. PartitionAt(i) = p
  BY <1>2 DEF IsNext
<1>7. \A j : PartitionAt(j)' = PartitionAt(j)
  BY <1>3 DEF PartitionAt
<1>8. step'[w] = "load"
  BY <1>1, <1>3 DEF Consumed, Confirmation, ShipmentTypes
<1>9. PartitionAt(current[w])' = p
  BY <1>3, <1>4, <1>6 DEF PartitionAt
<1>10. Consumed(w)'
  <2>1. current'[w] \in 1..Len(log')
    BY <1>3, <1>4
  <2>2. \A j \in 1..(current'[w] - 1) : PartitionAt(j)' = PartitionAt(current[w])' => Announced(log[j])'
    BY <1>4, <1>5, <1>7, <1>9
  <2>3. QED
    BY <1>4, <1>8, <2>1, <2>2 DEF Consumed
<1>11. Delivered(p)'
  <2>1. \A j \in 1..i : j = i \/ j \in 1..(i - 1)
    BY <1>1
  <2>2. \A j \in 1..i : PartitionAt(j)' = p => j = i \/ Announced(log[j])'
    BY <1>5, <1>7, <2>1
  <2>3. QED
    BY <1>1, <1>3, <1>4, <2>2 DEF Delivered
<1>12. QED
  BY <1>3, <1>4, <1>10, <1>11 DEF LetsGo

\* (a step of a consumer, its failures included, on what it knows itself)
LEMMA ConsumerStepConsumed ==
  ASSUME ShipmentInv, ShipmentInv', ConsumedInv, NEW w \in Workers,
         ConsumerStep(w) \/ StopConsumer(w) \/ RefuseCommit(w)
  PROVE  Consumed(w)' /\ LetsGo(w)
<1>1. Consumed(w) /\ ShipmentTypes /\ FulfillmentNext
  BY DEF ConsumedInv, ShipmentInv, FulfillmentNext
<1>2. \A i \in 1..Len(log) : Announced(log[i]) => Announced(log[i])'
  BY <1>1, AnnouncedKept
<1>3. /\ Len(log) \in Nat
      /\ current \in [Workers -> Nat]
      /\ loop \in [Workers -> LoopState]
      /\ step \in [Workers -> {"load", "insert", "publish"}]
      /\ loaded \in [Workers -> ShipmentStatus]
  BY <1>1 DEF ShipmentTypes
<1>4. CASE FetchEvent(w)
  <2>1. PICK p \in Partitions : FetchFrom(w, p)
    BY <1>4 DEF FetchEvent, Fetch
  <2>2. UNCHANGED step
    BY <1>4 DEF FetchEvent
  <2>3. QED
    BY <1>1, <2>1, <2>2, FetchConsumed
<1>5. CASE Ignore(w) \/ PublishDeadLetter(w) \/ PublishCreated(w)
  <2>1. /\ loop[w] = "handle" /\ loop' = [loop EXCEPT ![w] = "commit"]
        /\ UNCHANGED <<log, current>>
    BY <1>5 DEF Ignore, PublishDeadLetter, PublishCreated, At, Handled, DeadLetter, Confirmation
  <2>2. step'[w] = "load"
    <3>1. CASE PublishCreated(w)
      BY <1>3, <3>1 DEF PublishCreated, ForgetShipment
    <3>2. CASE Ignore(w) \/ PublishDeadLetter(w)
      BY <1>1, <1>3, <3>2, FulfillmentAssumption
      DEF Ignore, PublishDeadLetter, Consumed, Confirmation
    <3>3. QED
      BY <1>5, <3>1, <3>2
  <2>3. Announced(log[current[w]])'
    <3>1. CASE PublishCreated(w)
      BY <1>1, <3>1, PublishCreatedAnnounces
    <3>2. CASE Ignore(w) \/ PublishDeadLetter(w)
      BY <2>1, <3>2, FulfillmentAssumption
      DEF Announced, Ignore, PublishDeadLetter, InHand
    <3>3. QED
      BY <1>5, <3>1, <3>2
  <2>4. loop'[w] = "commit"
    BY <1>3, <2>1
  <2>5. QED
    BY <1>1, <2>1, <2>2, <2>3, <2>4, HandledConsumed
<1>6. CASE Load(w) \/ Insert(w)
  <2> DEFINE o == InHand(w).order
  <2>1. /\ Confirmation(w) /\ o \in Orders /\ UNCHANGED <<log, current, loop>>
    BY <1>6 DEF Load, Insert, At, consumerVars
  <2>2. Confirmation(w)' /\ InHand(w)' = InHand(w)
    BY <2>1 DEF Confirmation, InHand
  <2>3. step'[w] = "publish" =>
          Opened(o)' /\ (loaded'[w] # "CREATED" => shipments'[o].status # "CREATED")
    <3>1. shipments[o] = NoShipment <=> ~Opened(o)
      BY <2>1, OpenedTells
    <3>2. CASE Load(w)
      <4>1. /\ loaded'[w] = shipments[o].status /\ UNCHANGED shipments
            /\ step'[w] = IF shipments[o] = NoShipment THEN "insert" ELSE "publish"
        BY <1>3, <3>2 DEF Load, At
      <4>2. QED
        BY <2>2, <3>1, <4>1 DEF Opened
    <3>3. CASE Insert(w)
      <4>1. CASE shipments[o] = NoShipment
        <5>1. /\ loaded' = [loaded EXCEPT ![w] = "CREATED"]
              /\ shipments' = [shipments EXCEPT ![o] = [status |-> "CREATED", version |-> 0]]
          BY <3>3, <4>1 DEF Insert
        <5>2. shipments'[o].status = "CREATED"
          BY <1>1, <2>1, <5>1 DEF ShipmentTypes
        <5>3. loaded'[w] = "CREATED"
          BY <1>3, <5>1
        <5>4. QED
          BY <2>2, <5>2, <5>3 DEF Opened
      <4>2. CASE shipments[o] # NoShipment
        BY <1>3, <3>3, <4>2 DEF Insert
      <4>3. QED
        BY <4>1, <4>2
    <3>4. QED
      BY <1>6, <3>2, <3>3
  <2>4. /\ loop'[w] = "handle" /\ loop[w] = "handle"
        /\ current'[w] \in 1..Len(log')
        /\ \A i \in 1..(current'[w] - 1) :
             PartitionAt(i)' = PartitionAt(current[w])' => Announced(log[i])'
    <3>1. loop[w] = "handle"
      BY <2>1 DEF Confirmation
    <3>2. /\ current[w] \in 1..Len(log)
          /\ \A i \in 1..(current[w] - 1) :
               PartitionAt(i) = PartitionAt(current[w]) => Announced(log[i])
      BY <1>1, <3>1 DEF Consumed
    <3>3. \A i \in 1..(current[w] - 1) : i \in 1..Len(log)
      BY <1>3, <3>2
    <3>4. \A i \in 1..(current[w] - 1) :
            PartitionAt(i) = PartitionAt(current[w]) => Announced(log[i])'
      BY <1>2, <3>2, <3>3
    <3>5. QED
      BY <2>1, <3>1, <3>2, <3>4 DEF PartitionAt
  <2>5. LetsGo(w)
    BY <2>1, <2>4 DEF LetsGo
  <2>6. QED
    BY <2>1, <2>2, <2>3, <2>4, <2>5 DEF Consumed, Opened
<1>7. CASE CommitEvent(w)
  <2>1. /\ loop[w] = "commit" /\ current' = [current EXCEPT ![w] = 0]
        /\ loop' = [loop EXCEPT ![w] = "fetch"] /\ UNCHANGED <<log, step>>
    BY <1>7 DEF CommitEvent, CommitOffset
  <2>2. step[w] = "load"
    BY <1>1, <1>3, <2>1 DEF Consumed, Confirmation
  <2>3. QED
    BY <1>1, <1>3, <2>1, <2>2 DEF Consumed, LetsGo
<1>8. CASE StopConsumer(w) \/ RefuseCommit(w)
  <2>1. loop' = [loop EXCEPT ![w] = "down"]
    BY <1>8 DEF StopConsumer, RefuseCommit, CommitRefused, Stop
  <2>2. step'[w] = "load"
    BY <1>1, <1>3, <1>8
    DEF StopConsumer, RefuseCommit, CommitRefused, ForgetShipment, Consumed, Confirmation
  <2>3. QED
    BY <1>1, <1>3, <2>1, <2>2 DEF Consumed, LetsGo
<1>9. QED
  BY <1>4, <1>5, <1>6, <1>7, <1>8, <1>1 DEF ConsumerStep

\* (a restarted worker has nothing in hand)
LEMMA RestartConsumed ==
  ASSUME ShipmentInv, NEW w \in Workers, Consumed(w), RestartConsumer(w)
  PROVE  Consumed(w)'
<1>1. loop[w] = "down" /\ loop'[w] = "fetch" /\ step' = step
  BY DEF RestartConsumer, Restart, ShipmentInv, ShipmentTypes
<1>2. step[w] = "load"
  BY <1>1 DEF Consumed, Confirmation
<1>3. QED
  BY <1>1, <1>2 DEF Consumed

\* (what the group has committed, after any step of the service)
LEMMA CommittedKept ==
  ASSUME ShipmentInv, ShipmentInv', ConsumedInv, FulfillmentNext
  PROVE  CommittedConsumed'
<1> SUFFICES ASSUME NEW p \in Partitions
             PROVE  /\ committed'[p] <= Len(log')
                    /\ \A i \in 1..committed'[p] : PartitionAt(i)' = p => Announced(log[i])'
  BY DEF CommittedConsumed
<1>1. /\ Len(log) \in Nat /\ Len(log') \in Nat /\ Len(log') >= Len(log)
      /\ \A i \in 1..Len(log) : log'[i] = log[i] /\ PartitionAt(i)' = PartitionAt(i)
      /\ committed \in [Partitions -> Nat] /\ current \in [Workers -> Nat]
  BY OffsetsTyped DEF ShipmentInv, ShipmentTypes
<1>2. \A i \in 1..Len(log) : Announced(log[i]) => Announced(log[i])'
  BY AnnouncedKept
<1>3. CASE committed'[p] = committed[p]
  <2>1. /\ committed[p] \in Nat /\ committed[p] <= Len(log)
        /\ \A i \in 1..committed[p] : PartitionAt(i) = p => Announced(log[i])
    BY <1>1 DEF ConsumedInv, CommittedConsumed
  <2>2. committed[p] <= Len(log') /\ \A i \in 1..committed[p] : i \in 1..Len(log)
    BY <1>1, <2>1
  <2>3. QED
    BY <1>1, <1>2, <1>3, <2>1, <2>2
<1>4. CASE \E w \in Workers : CommitEvent(w)
  <2>1. PICK w \in Workers : CommitEvent(w)
    BY <1>4
  <2>2. /\ loop[w] = "commit" /\ Consumed(w)
        /\ committed' = [committed EXCEPT ![PartitionAt(current[w])] = current[w]]
    BY <2>1 DEF CommitEvent, CommitOffset, ConsumedInv
  <2>3. CASE p = PartitionAt(current[w])
    <3>1. committed'[p] = current[w]
      BY <1>1, <2>2, <2>3
    <3>2. /\ current[w] \in 1..Len(log) /\ Announced(log[current[w]])
          /\ \A i \in 1..(current[w] - 1) : PartitionAt(i) = p => Announced(log[i])
      BY <2>2, <2>3 DEF Consumed
    <3>3. \A i \in 1..current[w] :
            i \in 1..Len(log) /\ (i = current[w] \/ i \in 1..(current[w] - 1))
      BY <1>1, <3>2
    <3>4. \A i \in 1..current[w] : PartitionAt(i) = p => Announced(log[i])
      BY <3>2, <3>3
    <3>5. current[w] <= Len(log')
      BY <1>1, <3>2
    <3>6. QED
      BY <1>1, <1>2, <3>1, <3>3, <3>4, <3>5
  <2>4. CASE p # PartitionAt(current[w])
    <3>1. committed'[p] = committed[p]
      BY <1>1, <2>2, <2>4
    <3>2. QED
      BY <1>3, <3>1
  <2>5. QED
    BY <2>3, <2>4
<1>5. committed' = committed \/ \E w \in Workers : CommitEvent(w)
  BY DEF FulfillmentNext, ConsumerStep, OrderEvent, Produce, FetchEvent, Fetch, FetchFrom, Ignore,
      Handled, PublishDeadLetter, DeadLetter, Load, Insert, PublishCreated, StopConsumer,
      RefuseCommit, CommitRefused, Stop, RestartConsumer, Restart, RebalanceConsumers, Rebalance,
      Ask, RequestStep, Update, PublishMove, FailRequest, consumerVars
<1>6. QED
  BY <1>3, <1>4, <1>5

\* (a step of one worker, or of nobody, leaves the others where they are)
LEMMA OthersStand ==
  ASSUME ShipmentInv, FulfillmentNext, NEW v \in Workers,
         ~(ConsumerStep(v) \/ StopConsumer(v) \/ RefuseCommit(v) \/ RestartConsumer(v))
  PROVE  /\ current'[v] = current[v] /\ loop'[v] = loop[v]
         /\ step'[v] = step[v] /\ loaded'[v] = loaded[v]
<1>1. ShipmentTypes
  BY DEF ShipmentInv
<1>2. CASE \E w \in Workers :
             ConsumerStep(w) \/ StopConsumer(w) \/ RefuseCommit(w) \/ RestartConsumer(w)
  <2>1. PICK w \in Workers :
             ConsumerStep(w) \/ StopConsumer(w) \/ RefuseCommit(w) \/ RestartConsumer(w)
    BY <1>2
  <2>2. v # w
    BY <2>1
  <2>3. CASE FetchEvent(w)
    <3>1. PICK p \in Partitions : FetchFrom(w, p)
      BY <2>3 DEF FetchEvent, Fetch
    <3>2. PICK i : current' = [current EXCEPT ![w] = i]
      BY <3>1 DEF FetchFrom
    <3>3. loop' = [loop EXCEPT ![w] = "handle"] /\ UNCHANGED <<step, loaded>>
      BY <2>3, <3>1 DEF FetchEvent, FetchFrom
    <3>4. QED
      BY <1>1, <2>2, <3>2, <3>3 DEF ShipmentTypes
  <2>4. CASE ConsumerStep(w) /\ ~FetchEvent(w)
    BY <1>1, <2>2, <2>4
    DEF ShipmentTypes, ConsumerStep, Ignore, Handled, PublishDeadLetter,
        DeadLetter, Load, Insert, PublishCreated, ForgetShipment, CommitEvent, CommitOffset,
        consumerVars
  <2>5. CASE StopConsumer(w) \/ RefuseCommit(w) \/ RestartConsumer(w)
    BY <1>1, <2>2, <2>5
    DEF ShipmentTypes, StopConsumer, ForgetShipment, RefuseCommit, CommitRefused, Stop,
        RestartConsumer, Restart
  <2>6. QED
    BY <2>1, <2>3, <2>4, <2>5
<1>3. CASE ~\E w \in Workers :
              ConsumerStep(w) \/ StopConsumer(w) \/ RefuseCommit(w) \/ RestartConsumer(w)
  BY <1>3
  DEF FulfillmentNext, OrderEvent, Produce, RebalanceConsumers, Rebalance, Ask, RequestStep,
      Update, PublishMove, FailRequest, consumerVars
<1>4. QED
  BY <1>2, <1>3

\* (what a partition's owner has read, after any step of the service)
LEMMA DeliveredNext ==
  ASSUME ShipmentInv, ShipmentInv', ConsumedInv, FulfillmentNext, NEW p \in Partitions
  PROVE  Delivered(p)'
<1>1. /\ CommittedConsumed' /\ Delivered(p) /\ ShipmentTypes
      /\ owner[p] \in Workers
  BY CommittedKept DEF ConsumedInv, ShipmentInv, ShipmentTypes
<1>2. CASE position'[p] = committed[p] /\ committed' = committed
  BY <1>1, <1>2 DEF CommittedConsumed, Delivered
<1>3. CASE \E w \in Workers : FetchFrom(w, p) /\ UNCHANGED step
  BY <1>3, FetchConsumed
<1>4. CASE /\ owner'[p] = owner[p] /\ position'[p] = position[p]
           /\ ~RestartConsumer(owner[p])
  <2>1. LetsGo(owner[p])
    <3>1. CASE ConsumerStep(owner[p]) \/ StopConsumer(owner[p]) \/ RefuseCommit(owner[p])
      BY <1>1, <3>1, ConsumerStepConsumed
    <3>2. CASE ~(ConsumerStep(owner[p]) \/ StopConsumer(owner[p]) \/ RefuseCommit(owner[p]))
      <4>1. current'[owner[p]] = current[owner[p]] /\ loop'[owner[p]] = loop[owner[p]]
        BY <1>1, <1>4, <3>2, OthersStand
      <4>2. QED
        BY <4>1 DEF LetsGo
    <3>3. QED
      BY <3>1, <3>2
  <2>2. QED
    BY <1>1, <1>4, <2>1, DeliveredKept
<1>5. CASE \E w \in Workers : FetchEvent(w)
  <2>1. PICK w \in Workers : FetchEvent(w)
    BY <1>5
  <2>2. PICK q \in Partitions : FetchFrom(w, q) /\ UNCHANGED step
    BY <2>1 DEF FetchEvent, Fetch
  <2>3. CASE q = p
    BY <1>3, <2>2, <2>3
  <2>4. CASE q # p
    <3>1. owner'[p] = owner[p] /\ position'[p] = position[p]
      BY <2>2, <2>4, FetchConsumed
    <3>2. ~RestartConsumer(owner[p])
      <4>1. loop' = [loop EXCEPT ![w] = "handle"] /\ loop[w] = "fetch"
        BY <2>2 DEF FetchFrom
      <4>2. QED
        BY <1>1, <4>1 DEF RestartConsumer, Restart, ShipmentTypes
    <3>3. QED
      BY <1>4, <3>1, <3>2
  <2>5. QED
    BY <2>3, <2>4
<1>6. CASE \E w \in Workers : RestartConsumer(w)
  <2>1. PICK w \in Workers : RestartConsumer(w)
    BY <1>6
  <2>2. /\ owner' = owner /\ committed' = committed
        /\ position'[p] = IF owner[p] = w THEN committed[p] ELSE position[p]
        /\ loop' = [loop EXCEPT ![w] = "fetch"] /\ loop[w] = "down"
    BY <2>1 DEF RestartConsumer, Restart
  <2>3. CASE owner[p] = w
    BY <1>2, <2>2, <2>3
  <2>4. CASE owner[p] # w
    <3>1. ~RestartConsumer(owner[p])
      BY <1>1, <2>2, <2>4 DEF RestartConsumer, Restart, ShipmentTypes
    <3>2. QED
      BY <1>4, <2>2, <2>4, <3>1
  <2>5. QED
    BY <2>3, <2>4
<1>7. CASE \E assignment \in [Partitions -> Workers] : RebalanceConsumers(assignment)
  BY <1>2, <1>7 DEF RebalanceConsumers, Rebalance
<1>8. CASE UNCHANGED <<owner, position>> /\ ~\E w \in Workers : RestartConsumer(w)
  BY <1>1, <1>4, <1>8
<1>9. \/ \E w \in Workers : FetchEvent(w) \/ RestartConsumer(w)
      \/ \E assignment \in [Partitions -> Workers] : RebalanceConsumers(assignment)
      \/ UNCHANGED <<owner, position>>
  BY DEF FulfillmentNext, ConsumerStep, OrderEvent, Produce, Ignore, Handled, PublishDeadLetter,
      DeadLetter, Load, Insert, PublishCreated, CommitEvent, CommitOffset, StopConsumer,
      RefuseCommit, CommitRefused, Stop, Ask, RequestStep, Update, PublishMove, FailRequest,
      consumerVars
<1>10. QED
  BY <1>5, <1>6, <1>7, <1>8, <1>9

\* (every step keeps what the group knows)
LEMMA NextConsumed == ShipmentInv /\ ConsumedInv /\ [Next]_vars => ConsumedInv'
<1> SUFFICES ASSUME ShipmentInv, ConsumedInv, [Next]_vars PROVE ConsumedInv'
  OBVIOUS
<1>1. ShipmentInv'
  BY NextShipments
<1>2. CASE FulfillmentNext
  <2>1. CommittedConsumed' /\ \A p \in Partitions : Delivered(p)'
    BY <1>1, <1>2, CommittedKept, DeliveredNext
  <2>2. ASSUME NEW w \in Workers PROVE Consumed(w)'
    <3>1. Consumed(w)
      BY DEF ConsumedInv
    <3>2. CASE ConsumerStep(w) \/ StopConsumer(w) \/ RefuseCommit(w)
      BY <1>1, <3>2, ConsumerStepConsumed
    <3>3. CASE RestartConsumer(w)
      BY <3>1, <3>3, RestartConsumed
    <3>4. CASE ~(ConsumerStep(w) \/ StopConsumer(w) \/ RefuseCommit(w) \/ RestartConsumer(w))
      BY <1>1, <1>2, <3>1, <3>4, OthersStand, ConsumedKept
    <3>5. QED
      BY <3>2, <3>3, <3>4
  <2>3. QED
    BY <2>1, <2>2 DEF ConsumedInv
<1>3. CASE UNCHANGED shipmentVars
  <2>1. CommittedConsumed'
    BY <1>3 DEF shipmentVars, ConsumedInv, CommittedConsumed, Announced, Opened, PartitionAt
  <2>2. \A p \in Partitions : Delivered(p)'
    BY <1>3 DEF shipmentVars, ConsumedInv, Delivered, Announced, Opened, PartitionAt
  <2>3. \A w \in Workers : Consumed(w)'
    BY <1>3
    DEF shipmentVars, ConsumedInv, Consumed, Announced, Opened, Confirmation, InHand, PartitionAt
  <2>4. QED
    BY <2>1, <2>2, <2>3 DEF ConsumedInv
<1>4. QED
  BY <1>2, <1>3, MailFrame
  DEF Next, vars, fulfillmentVars, shipmentVars, consumerVars

(***************************************************************************)
(* Whatever crashes, is rebalanced, is delivered again or races with a     *)
(* request: once the group is past a confirmation, the order has its       *)
(* shipment, and shipment.created is out unless the shipment has moved on. *)
(***************************************************************************)
THEOREM CreatedAnnouncedWhileOpenAlways == Spec => []CreatedAnnouncedWhileOpen
<1>1. Init => ConsumedInv
  BY DEF Init, FulfillmentInit, ConsumerInit, ConsumedInv, CommittedConsumed, Delivered, Consumed
<1>2. ShipmentInv /\ ConsumedInv => CreatedAnnouncedWhileOpen
  <2> SUFFICES ASSUME ShipmentInv, ConsumedInv, NEW o \in Orders, NEW i \in DOMAIN log,
                      log[i] = [type |-> "order.confirmed", order |-> o], Passed(i)
               PROVE  Announced(log[i])
    BY DEF CreatedAnnouncedWhileOpen, PastConfirmation, Announced, Opened, NoShipment
  <2>1. i \in 1..Len(log) /\ PartitionAt(i) \in Partitions
    BY MessagesTyped, LenProperties DEF ShipmentInv, ShipmentTypes
  <2>2. i \in 1..committed[PartitionAt(i)]
    BY <2>1 DEF Passed, ShipmentInv, ShipmentTypes
  <2>3. QED
    BY <2>1, <2>2 DEF ConsumedInv, CommittedConsumed
<1>3. QED
  BY <1>1, <1>2, ShipmentInit, NextShipments, NextConsumed, PTL DEF Spec

-----------------------------------------------------------------------------
(* Moves: who announces them.                                              *)

IsMove(e) == e.type \in {"shipment.dispatched", "shipment.delivered"} /\ e.order \in Orders

Publishing(c) == clerk[c].at = "publish"
ToPublish(c) == [type |-> Transition[clerk[c].move].event, order |-> clerk[c].order]

\* No move is in the topic twice, none that a request is about to publish is
\* there already, and no two requests are about to publish the same.
MovesInv ==
  /\ \A i, j \in 1..Len(feed) : IsMove(feed[i]) /\ feed[i] = feed[j] => i = j
  /\ \A c \in Clerks : Publishing(c) => \A i \in 1..Len(feed) : feed[i] # ToPublish(c)
  /\ \A c, d \in Clerks :
       Publishing(c) /\ Publishing(d) /\ ToPublish(c) = ToPublish(d) => c = d

\* (what a request about to publish holds)
LEMMA ToPublishFacts ==
  ASSUME ShipmentInv, NEW c \in Clerks, Publishing(c)
  PROVE  /\ clerk[c].order \in Orders /\ clerk[c].move \in DOMAIN Transition
         /\ ToPublish(c) \in Message /\ IsMove(ToPublish(c))
<1>1. clerk[c].order \in Orders /\ clerk[c].move \in DOMAIN Transition
  BY RequestType DEF Publishing, Idle
<1>2. QED
  BY <1>1 DEF ToPublish, Message, IsMove, Transition, ShipmentEvents

\* (an event that is no move joins the feed, or none; the requests go on or end)
LEMMA MovesKept ==
  ASSUME ShipmentInv, MovesInv,
         feed' = feed \/ \E e \in Message : ~IsMove(e) /\ feed' = Append(feed, e),
         \A c \in Clerks : Publishing(c)' => clerk'[c] = clerk[c]
  PROVE  MovesInv'
<1>1. feed \in Seq(Message) /\ Len(feed) \in Nat
  BY DEF ShipmentInv, ShipmentTypes
<1>2. \A c \in Clerks : Publishing(c)' => Publishing(c) /\ ToPublish(c)' = ToPublish(c)
  BY DEF Publishing, ToPublish
<1>3. \A c \in Clerks : Publishing(c) => IsMove(ToPublish(c))
  BY ToPublishFacts
<1>4. CASE feed' = feed
  BY <1>2, <1>4 DEF MovesInv, IsMove
<1>5. CASE \E e \in Message : ~IsMove(e) /\ feed' = Append(feed, e)
  <2>1. PICK e \in Message : ~IsMove(e) /\ feed' = Append(feed, e)
    BY <1>5
  <2>2. /\ Len(feed') = Len(feed) + 1
        /\ \A i \in 1..Len(feed) : feed'[i] = feed[i]
        /\ feed'[Len(feed) + 1] = e
    BY <1>1, <2>1, AppendKeeps
  <2>3. \A i \in 1..Len(feed') : i \in 1..Len(feed) \/ feed'[i] = e
    BY <1>1, <2>2
  <2>4. \A i, j \in 1..Len(feed') : IsMove(feed'[i]) /\ feed'[i] = feed'[j] => i = j
    BY <2>1, <2>2, <2>3 DEF MovesInv
  <2>5. \A c \in Clerks : Publishing(c) => \A i \in 1..Len(feed') : feed'[i] # ToPublish(c)
    BY <1>3, <2>1, <2>2, <2>3 DEF MovesInv
  <2>6. QED
    BY <1>2, <2>4, <2>5 DEF MovesInv, IsMove
<1>6. QED
  BY <1>4, <1>5

(***************************************************************************)
(* The UPDATE that matches: the status it moves from has not reached the   *)
(* event, so that nobody has published it or is about to.                  *)
(***************************************************************************)
LEMMA UpdateMoves ==
  ASSUME ShipmentInv, MovesInv, NEW c \in Clerks, Update(c), RowMatches(c)
  PROVE  MovesInv'
<1> DEFINE o == clerk[c].order
           t == Transition[clerk[c].move]
           e == [type |-> t.event, order |-> o]
<1>1. /\ clerk[c].at = "update" /\ feed' = feed
      /\ clerk' = [clerk EXCEPT ![c].at = "publish"]
  BY DEF Update
<1>2. o \in Orders /\ clerk[c].move \in DOMAIN Transition /\ shipments[o].status = t.from
  BY <1>1, MatchTells
<1>3. t.event \in ShipmentEvents /\ t.event \notin Reached(t.from)
  BY <1>2 DEF Transition, ShipmentEvents, Reached
<1>4. \A i \in 1..Len(feed) : feed[i] # e
  BY <1>2, <1>3 DEF ShipmentInv, Backed
<1>5. \A d \in Clerks : Publishing(d) => ToPublish(d) # e
  <2> SUFFICES ASSUME NEW d \in Clerks, Publishing(d), ToPublish(d) = e PROVE FALSE
    OBVIOUS
  <2>1. Transition[clerk[d].move].event = t.event /\ clerk[d].order = o
    BY DEF ToPublish
  <2>2. t.event \in Reached(shipments[o].status)
    BY <2>1 DEF ShipmentInv, ClerkInv, Publishing
  <2>3. QED
    BY <1>2, <1>3, <2>2
<1>6. /\ ToPublish(c)' = e
      /\ \A d \in Clerks \ {c} : Publishing(d)' <=> Publishing(d)
      /\ \A d \in Clerks \ {c} : ToPublish(d)' = ToPublish(d)
  <2>1. clerk[c] \in [at : {"update", "publish"}, order : Orders,
                      move : DOMAIN Transition, version : Nat]
    BY <1>1, RequestType DEF Idle
  <2>2. clerk'[c] = [clerk[c] EXCEPT !.at = "publish"] /\ \A d \in Clerks \ {c} : clerk'[d] = clerk[d]
    BY <1>1 DEF ShipmentInv, ShipmentTypes
  <2>3. clerk'[c].order = o /\ clerk'[c].move = clerk[c].move
    BY <2>1, <2>2
  <2>4. QED
    BY <2>2, <2>3 DEF ToPublish, Publishing
<1>7. \A i, j \in 1..Len(feed') : IsMove(feed[i])' /\ feed'[i] = feed'[j] => i = j
  BY <1>1 DEF MovesInv, IsMove
<1>8. ASSUME NEW d \in Clerks, Publishing(d)'
      PROVE  \A i \in 1..Len(feed') : feed'[i] # ToPublish(d)'
  BY <1>1, <1>4, <1>6, <1>8 DEF MovesInv
<1>9. ASSUME NEW d \in Clerks, NEW b \in Clerks, Publishing(d)', Publishing(b)',
             ToPublish(d)' = ToPublish(b)'
      PROVE  d = b
  BY <1>5, <1>6, <1>9 DEF MovesInv
<1>10. QED
  BY <1>7, <1>8, <1>9 DEF MovesInv

\* (a request publishes its move, for the first time)
LEMMA PublishMoves ==
  ASSUME ShipmentInv, MovesInv, NEW c \in Clerks, PublishMove(c)
  PROVE  MovesInv'
<1> DEFINE e == ToPublish(c)
<1>1. Publishing(c) /\ feed' = Append(feed, e) /\ clerk' = [clerk EXCEPT ![c] = Idle]
  BY DEF PublishMove, Publish, Publishing, ToPublish
<1>2. feed \in Seq(Message) /\ e \in Message /\ IsMove(e)
  BY <1>1, ToPublishFacts DEF ShipmentInv, ShipmentTypes
<1>3. /\ Len(feed) \in Nat /\ Len(feed') = Len(feed) + 1
      /\ \A i \in 1..Len(feed) : feed'[i] = feed[i]
      /\ feed'[Len(feed) + 1] = e
  BY <1>1, <1>2, AppendKeeps
<1>4. \A i \in 1..Len(feed') : i \in 1..Len(feed) \/ i = Len(feed) + 1
  BY <1>3
<1>5. \A i \in 1..Len(feed) : feed[i] # e
  BY <1>1 DEF MovesInv
<1>6. \A i, j \in 1..Len(feed') : IsMove(feed'[i]) /\ feed'[i] = feed'[j] => i = j
  BY <1>3, <1>4, <1>5 DEF MovesInv
<1>7. ~Publishing(c)' /\ \A d \in Clerks \ {c} : clerk'[d] = clerk[d]
  BY <1>1 DEF ShipmentInv, ShipmentTypes, Publishing, Idle
<1>8. \A d \in Clerks : Publishing(d)' => d # c /\ Publishing(d) /\ ToPublish(d)' = ToPublish(d)
  BY <1>7 DEF Publishing, ToPublish
<1>9. ASSUME NEW d \in Clerks, Publishing(d)'
      PROVE  \A i \in 1..Len(feed') : feed'[i] # ToPublish(d)'
  BY <1>1, <1>3, <1>4, <1>8, <1>9 DEF MovesInv
<1>10. QED
  BY <1>6, <1>8, <1>9 DEF MovesInv, IsMove

\* (every step keeps moves announced once)
LEMMA NextMoves == ShipmentInv /\ MovesInv /\ [Next]_vars => MovesInv'
<1> SUFFICES ASSUME ShipmentInv, MovesInv, [Next]_vars PROVE MovesInv'
  OBVIOUS
<1>1. CASE \E type \in OrderEvents, o \in Orders \cup {Unparsable} : OrderEvent(type, o)
  <2>1. PICK type \in OrderEvents, o \in Orders \cup {Unparsable} : OrderEvent(type, o)
    BY <1>1
  <2>2. /\ feed' = Append(feed, [type |-> type, order |-> o]) /\ clerk' = clerk
        /\ [type |-> type, order |-> o] \in Message /\ ~IsMove([type |-> type, order |-> o])
    BY <2>1 DEF OrderEvent, Message, IsMove, OrderEvents
  <2>3. QED
    BY <2>2, MovesKept DEF Publishing
<1>2. CASE \E w \in Workers : PublishCreated(w)
  <2>1. PICK w \in Workers : PublishCreated(w)
    BY <1>2
  <2> DEFINE e == [type |-> "shipment.created", order |-> InHand(w).order]
  <2>2. clerk' = clerk /\ (feed' = feed \/ feed' = Append(feed, e)) /\ InHand(w).order \in Orders
    BY <2>1 DEF PublishCreated, Publish, At
  <2>3. e \in Message /\ ~IsMove(e)
    BY <2>2 DEF Message, ShipmentEvents, IsMove
  <2>4. QED
    BY <2>2, <2>3, MovesKept DEF Publishing
<1>3. CASE \E c \in Clerks, move \in DOMAIN Transition, o \in Orders : Ask(c, move, o)
  <2>1. PICK c \in Clerks, move \in DOMAIN Transition, o \in Orders : Ask(c, move, o)
    BY <1>3
  <2>2. /\ feed' = feed /\ clerk'[c].at = "update"
        /\ \A d \in Clerks \ {c} : clerk'[d] = clerk[d]
    BY <2>1 DEF Ask, ShipmentInv, ShipmentTypes
  <2>3. QED
    BY <2>2, MovesKept DEF Publishing
<1>4. CASE \E c \in Clerks : Update(c)
  <2>1. PICK c \in Clerks : Update(c)
    BY <1>4
  <2>2. CASE ~RowMatches(c)
    <3>1. feed' = feed /\ clerk' = [clerk EXCEPT ![c] = Idle]
      BY <2>1, <2>2 DEF Update
    <3>2. clerk'[c] = Idle /\ \A d \in Clerks \ {c} : clerk'[d] = clerk[d]
      BY <3>1 DEF ShipmentInv, ShipmentTypes
    <3>3. QED
      BY <3>1, <3>2, MovesKept DEF Publishing, Idle
  <2>3. QED
    BY <2>1, <2>2, UpdateMoves
<1>5. CASE \E c \in Clerks : PublishMove(c)
  BY <1>5, PublishMoves
<1>6. CASE \E c \in Clerks : FailRequest(c)
  <2>1. PICK c \in Clerks : FailRequest(c)
    BY <1>6
  <2>2. feed' = feed /\ clerk'[c] = Idle /\ \A d \in Clerks \ {c} : clerk'[d] = clerk[d]
    BY <2>1 DEF FailRequest, ShipmentInv, ShipmentTypes
  <2>3. QED
    BY <2>2, MovesKept DEF Publishing, Idle
<1>7. CASE UNCHANGED <<feed, clerk>>
  BY <1>7, MovesKept DEF Publishing
<1>8. QED
  BY <1>1, <1>2, <1>3, <1>4, <1>5, <1>6, <1>7, MailFrame
  DEF Next, FulfillmentNext, ConsumerStep, FetchEvent, Ignore, PublishDeadLetter, Load, Insert,
      CommitEvent, StopConsumer, RefuseCommit, RestartConsumer, RebalanceConsumers, RequestStep,
      vars, fulfillmentVars

(***************************************************************************)
(* Of the requests that dispatch or deliver a shipment at once, with any   *)
(* number of them and any failures between, one announces the move.        *)
(***************************************************************************)
THEOREM MovesAnnouncedOnceAlways == Spec => []MovesAnnouncedOnce
<1>1. Init => MovesInv
  BY DEF Init, FulfillmentInit, MovesInv, Publishing, Idle
<1>2. ShipmentInv /\ MovesInv => MovesAnnouncedOnce
  <2> SUFFICES ASSUME ShipmentInv, MovesInv, NEW o \in Orders,
                      NEW type \in {"shipment.dispatched", "shipment.delivered"}
               PROVE  CountIn(feed, type, o) <= 1
    BY DEF MovesAnnouncedOnce
  <2> DEFINE e == [type |-> type, order |-> o]
             S == {i \in DOMAIN feed : feed[i] = e}
  <2>1. DOMAIN feed = 1..Len(feed)
    BY DEF ShipmentInv, ShipmentTypes
  <2>2. \A i, j \in S : i = j
    BY <2>1 DEF MovesInv, IsMove
  <2>3. S = {} \/ \E i : S = {i}
    BY <2>2
  <2>4. Cardinality(S) = 0 \/ Cardinality(S) = 1
    BY <2>3, FS_EmptySet, FS_Singleton
  <2>5. QED
    BY <2>4 DEF CountIn
<1>3. QED
  BY <1>1, <1>2, ShipmentInit, NextShipments, NextMoves, PTL DEF Spec

-----------------------------------------------------------------------------
(* Notifications: the inductive invariant.                                 *)

MailTypes ==
  /\ mailCommitted \in [MailPartitions -> Nat]
  /\ mailPosition \in [MailPartitions -> Nat]
  /\ mailOwner \in [MailPartitions -> Mailers]
  /\ mailCurrent \in [Mailers -> Nat]
  /\ mailLoop \in [Mailers -> LoopState]
  /\ sending \in [Mailers -> BOOLEAN]

\* A worker about to send has recorded the message, and nobody has sent it.
SenderInv(w) ==
  /\ mailLoop[w] = "handle" => mailCurrent[w] \in 1..Len(feed)
  /\ sending[w] => /\ mailLoop[w] = "handle"
                   /\ Mail!InHand(w).order \in Orders
                   /\ Mail!InHand(w) \in recorded
                   /\ Mail!InHand(w) \notin DOMAIN sent

\* Two workers about to send hold different messages.
SendersDiffer ==
  \A v, w \in Mailers : sending[v] /\ sending[w] /\ v # w => Mail!InHand(v) # Mail!InHand(w)

SentInv == DOMAIN sent \subseteq recorded /\ \A k \in DOMAIN sent : sent[k] = 1

MailInv ==
  /\ MailTypes
  /\ \A w \in Mailers : SenderInv(w)
  /\ SendersDiffer
  /\ SentInv

\* (the invariant holds at first)
LEMMA MailInit == Init => MailInv
BY DEF Init, FulfillmentInit, Mail!NotificationInit, Mail!ConsumerInit, MailInv, MailTypes,
       SenderInv, SendersDiffer, SentInv, LoopState

\* (the feed grows under the workers' hands)
LEMMA MailKept ==
  ASSUME ShipmentInv, MailInv, UNCHANGED mailVars,
         Len(feed') >= Len(feed), \A i \in 1..Len(feed) : feed'[i] = feed[i], Len(feed') \in Nat
  PROVE  MailInv'
<1>1. Len(feed) \in Nat
  BY DEF ShipmentInv, ShipmentTypes
<1>2. MailTypes' /\ SentInv'
  BY DEF MailInv, MailTypes, SentInv, mailVars
<1>3. \A w \in Mailers : mailLoop[w] = "handle" => Mail!InHand(w)' = Mail!InHand(w)
  BY DEF MailInv, SenderInv, Mail!InHand, mailVars
<1>4. \A w \in Mailers : SenderInv(w)'
  BY <1>1, <1>3 DEF MailInv, SenderInv, mailVars, MailTypes
<1>5. SendersDiffer'
  BY <1>3 DEF MailInv, SenderInv, SendersDiffer, mailVars
<1>6. QED
  BY <1>2, <1>4, <1>5 DEF MailInv

(***************************************************************************)
(* The frame of a step after which its worker is not about to send.        *)
(***************************************************************************)
LEMMA MailFrameQuiet ==
  ASSUME MailInv, NEW w \in Mailers, MailTypes', SenderInv(w)', ~sending'[w],
         UNCHANGED <<feed, recorded, sent>>,
         \A v \in Mailers \ {w} : /\ mailLoop'[v] = mailLoop[v]
                                 /\ mailCurrent'[v] = mailCurrent[v]
                                 /\ sending'[v] = sending[v]
  PROVE  MailInv'
<1>1. \A v \in Mailers : SenderInv(v)'
  BY DEF MailInv, SenderInv, Mail!InHand
<1>2. SendersDiffer' /\ SentInv'
  BY DEF MailInv, SendersDiffer, SentInv, Mail!InHand
<1>3. QED
  BY <1>1, <1>2 DEF MailInv

\* (a step of a notification worker, its failures included)
LEMMA MailStepInv ==
  ASSUME ShipmentInv, MailInv, NEW w \in Mailers,
         \/ Mail!WorkerStep(w) \/ Mail!StopWorker(w)
         \/ Mail!RestartWorker(w)
  PROVE  MailInv'
<1>1. /\ MailTypes /\ SenderInv(w) /\ Len(feed) \in Nat
      /\ DOMAIN feed = 1..Len(feed)
  BY LenProperties DEF MailInv, ShipmentInv, ShipmentTypes
<1>2. CASE Mail!FetchMessage(w)
  <2>1. PICK p \in MailPartitions : Mail!FetchFrom(w, p)
    BY <1>2 DEF Mail!FetchMessage, Mail!Fetch
  <2>2. PICK i \in 1..Len(feed) :
          /\ mailPosition' = [mailPosition EXCEPT ![p] = i]
          /\ mailCurrent' = [mailCurrent EXCEPT ![w] = i]
    BY <1>1, <2>1 DEF Mail!FetchFrom
  <2>3. /\ mailLoop[w] = "fetch" /\ mailLoop' = [mailLoop EXCEPT ![w] = "handle"]
        /\ UNCHANGED <<feed, mailCommitted, mailOwner, recorded, sent, sending>>
    BY <1>2, <2>1 DEF Mail!FetchMessage, Mail!FetchFrom
  <2>4. ~sending'[w] /\ MailTypes'
    BY <1>1, <2>2, <2>3 DEF MailTypes, SenderInv, LoopState
  <2>5. mailCurrent'[w] = i
    BY <1>1, <2>2 DEF MailTypes
  <2>6. SenderInv(w)'
    BY <2>3, <2>4, <2>5 DEF SenderInv
  <2>7. QED
    BY <1>1, <2>2, <2>3, <2>4, <2>6, MailFrameQuiet DEF MailTypes
<1>3. CASE Mail!RenderFails(w) \/ (Mail!RecordIfNew(w) /\ ~Mail!IsNew(Mail!InHand(w)))
  <2>1. /\ mailLoop' = [mailLoop EXCEPT ![w] = "commit"]
        /\ UNCHANGED <<feed, mailCommitted, mailPosition, mailOwner, mailCurrent, recorded, sent, sending>>
    BY <1>3 DEF Mail!RenderFails, Mail!RecordIfNew, Mail!Handled, Mail!DeadLetter
  <2>2. ~sending[w]
    BY <1>1, <1>3 DEF Mail!RenderFails, Mail!RecordIfNew, SenderInv
  <2>3. MailTypes' /\ SenderInv(w)' /\ ~sending'[w]
    BY <1>1, <2>1, <2>2 DEF MailTypes, SenderInv, LoopState
  <2>4. QED
    BY <1>1, <2>1, <2>3, MailFrameQuiet DEF MailTypes
<1>4. CASE Mail!RecordIfNew(w) /\ Mail!IsNew(Mail!InHand(w))
  <2> DEFINE k == Mail!InHand(w)
  <2>1. /\ mailLoop[w] = "handle" /\ ~sending[w] /\ k \notin recorded /\ k.order \in Orders
        /\ recorded' = recorded \cup {k}
        /\ sending' = [sending EXCEPT ![w] = TRUE]
        /\ UNCHANGED <<feed, mailCommitted, mailPosition, mailOwner, mailCurrent, mailLoop, sent>>
    BY <1>4 DEF Mail!RecordIfNew, Mail!IsNew, Mail!consumerVars
  <2>2. \A v \in Mailers : Mail!InHand(v)' = Mail!InHand(v)
    BY <2>1 DEF Mail!InHand
  <2>3. MailTypes' /\ SentInv'
    BY <1>1, <2>1 DEF MailInv, MailTypes, SentInv
  <2>4. \A v \in Mailers : SenderInv(v)'
    BY <1>1, <2>1, <2>2 DEF MailInv, SenderInv, SentInv, MailTypes
  <2>5. SendersDiffer'
    BY <1>1, <2>1, <2>2 DEF MailInv, SenderInv, SendersDiffer, MailTypes
  <2>6. QED
    BY <2>3, <2>4, <2>5 DEF MailInv
<1>5. CASE Mail!Send(w)
  <2> DEFINE k == Mail!InHand(w)
  <2>1. /\ mailLoop[w] = "handle" /\ sending[w]
        /\ sent' = [j \in DOMAIN sent \cup {k} |->
                      IF j = k THEN Mail!TimesSent(k) + 1 ELSE sent[j]]
        /\ sending' = [sending EXCEPT ![w] = FALSE]
        /\ mailLoop' = [mailLoop EXCEPT ![w] = "commit"]
        /\ UNCHANGED <<feed, mailCommitted, mailPosition, mailOwner, mailCurrent, recorded>>
    BY <1>5 DEF Mail!Send, Mail!Handled
  <2>2. k \in recorded /\ k \notin DOMAIN sent
    BY <1>1, <2>1 DEF SenderInv
  <2>3. \A v \in Mailers : Mail!InHand(v)' = Mail!InHand(v)
    BY <2>1 DEF Mail!InHand
  <2>4. MailTypes'
    BY <1>1, <2>1 DEF MailTypes, LoopState
  <2>5. SentInv'
    BY <2>1, <2>2 DEF MailInv, SentInv, Mail!TimesSent
  <2>6. SendersDiffer'
    BY <1>1, <2>1, <2>3 DEF MailInv, SendersDiffer, MailTypes
  <2>7. ASSUME NEW v \in Mailers PROVE SenderInv(v)'
    <3>1. CASE v = w
      BY <1>1, <2>1, <3>1 DEF SenderInv, MailTypes
    <3>2. CASE v # w
      <4>1. sending[v] => Mail!InHand(v) # k
        BY <2>1, <3>2 DEF MailInv, SendersDiffer
      <4>2. sending'[v] = sending[v] /\ mailLoop'[v] = mailLoop[v] /\ SenderInv(v)
        BY <1>1, <2>1, <3>2 DEF MailInv, MailTypes
      <4>3. DOMAIN sent' = DOMAIN sent \cup {k}
        BY <2>1
      <4>4. QED
        BY <2>1, <2>3, <4>1, <4>2, <4>3 DEF SenderInv
    <3>3. QED
      BY <3>1, <3>2
  <2>8. QED
    BY <2>4, <2>5, <2>6, <2>7 DEF MailInv
<1>6. CASE Mail!CommitMessage(w)
  <2>1. /\ mailLoop[w] = "commit"
        /\ mailCommitted' = [mailCommitted EXCEPT ![Mail!PartitionAt(mailCurrent[w])] = mailCurrent[w]]
        /\ mailCurrent' = [mailCurrent EXCEPT ![w] = 0]
        /\ mailLoop' = [mailLoop EXCEPT ![w] = "fetch"]
        /\ UNCHANGED <<feed, mailPosition, mailOwner, recorded, sent, sending>>
    BY <1>6 DEF Mail!CommitMessage, Mail!CommitOffset
  <2>2. MailTypes' /\ SenderInv(w)' /\ ~sending'[w]
    BY <1>1, <2>1 DEF MailTypes, SenderInv, LoopState
  <2>3. QED
    BY <1>1, <2>1, <2>2, MailFrameQuiet DEF MailTypes
<1>7. CASE Mail!StopWorker(w)
  <2>1. /\ mailCurrent' = [mailCurrent EXCEPT ![w] = 0]
        /\ mailLoop' = [mailLoop EXCEPT ![w] = "down"]
        /\ sending' = [sending EXCEPT ![w] = FALSE]
        /\ UNCHANGED <<feed, mailCommitted, mailPosition, mailOwner, recorded, sent>>
    BY <1>7 DEF Mail!StopWorker, Mail!Stop
  <2>2. MailTypes' /\ SenderInv(w)' /\ ~sending'[w]
    BY <1>1, <2>1 DEF MailTypes, SenderInv, LoopState
  <2>3. QED
    BY <1>1, <2>1, <2>2, MailFrameQuiet DEF MailTypes
<1>8. CASE Mail!RestartWorker(w)
  <2>1. /\ mailLoop[w] = "down" /\ mailLoop' = [mailLoop EXCEPT ![w] = "fetch"]
        /\ mailPosition' = [p \in MailPartitions |->
                              IF mailOwner[p] = w THEN mailCommitted[p] ELSE mailPosition[p]]
        /\ UNCHANGED <<feed, mailCommitted, mailOwner, mailCurrent, recorded, sent, sending>>
    BY <1>8 DEF Mail!RestartWorker, Mail!Restart
  <2>2. MailTypes' /\ SenderInv(w)' /\ ~sending'[w]
    BY <1>1, <2>1 DEF MailTypes, SenderInv, LoopState
  <2>3. QED
    BY <1>1, <2>1, <2>2, MailFrameQuiet DEF MailTypes
<1>9. QED
  BY <1>2, <1>3, <1>4, <1>5, <1>6, <1>7, <1>8 DEF Mail!WorkerStep

\* (the partitions change hands, the workers go on with what they hold)
LEMMA MailRebalanceInv ==
  ASSUME MailInv, NEW assignment \in [MailPartitions -> Mailers],
         Mail!RebalanceWorkers(assignment)
  PROVE  MailInv'
<1>1. /\ mailPosition' = mailCommitted /\ mailOwner' = assignment
      /\ UNCHANGED <<feed, mailCommitted, mailCurrent, mailLoop, recorded, sent, sending>>
  BY DEF Mail!RebalanceWorkers, Mail!Rebalance
<1>2. QED
  BY <1>1 DEF MailInv, MailTypes, SenderInv, SendersDiffer, SentInv, Mail!InHand

\* (every step keeps both invariants)
LEMMA NextMail == ShipmentInv /\ MailInv /\ [Next]_vars => MailInv'
<1> SUFFICES ASSUME ShipmentInv, MailInv, [Next]_vars PROVE MailInv'
  OBVIOUS
<1>1. Len(feed) \in Nat /\ Len(feed') \in Nat
  BY NextShipments DEF ShipmentInv, ShipmentTypes
<1>2. CASE FulfillmentNext /\ UNCHANGED mailVars
  BY <1>1, <1>2, FeedKeeps, MailKept
<1>3. CASE Mail!NotificationNext
  BY <1>3, MailStepInv, MailRebalanceInv DEF Mail!NotificationNext
<1>4. CASE UNCHANGED vars
  <2>1. UNCHANGED mailVars /\ feed' = feed
    BY <1>4 DEF vars, fulfillmentVars
  <2>2. QED
    BY <1>1, <2>1, MailKept
<1>5. QED
  BY <1>2, <1>3, <1>4 DEF Next

(***************************************************************************)
(* However often an event is published and delivered, and whichever worker *)
(* of the group has it in hand, its customer is notified at most once.     *)
(***************************************************************************)
THEOREM NotifiedAtMostOnceAlways == Spec => []NotifiedAtMostOnce
<1>1. MailInv => NotifiedAtMostOnce
  BY DEF MailInv, SentInv, NotifiedAtMostOnce
<1>2. QED
  BY <1>1, ShipmentInit, MailInit, NextShipments, NextMail, PTL DEF Spec

-----------------------------------------------------------------------------
(* Losses: what the group is past, and what a stop may cost.               *)

\* The service has written down that it owes a notification of e, or e is
\* one that cannot be rendered.
Noted(e) == e \in recorded \/ e.order = Unparsable

\* A worker has no message behind it, in the partition of the one in hand, that
\* was not noted.
PastIsNoted(w) ==
  /\ mailLoop[w] \in {"handle", "commit"} =>
       /\ mailCurrent[w] \in 1..Len(feed)
       /\ \A i \in 1..(mailCurrent[w] - 1) :
            Mail!PartitionAt(i) = Mail!PartitionAt(mailCurrent[w]) => Noted(feed[i])
  /\ mailLoop[w] = "commit" => Noted(feed[mailCurrent[w]])

\* Nor has the owner of p read one, but for one in hand.
ReadIsNoted(p) ==
  /\ mailPosition[p] <= Len(feed)
  /\ mailLoop[mailOwner[p]] # "down" =>
       \A i \in 1..mailPosition[p] :
         Mail!PartitionAt(i) = p =>
           \/ Noted(feed[i])
           \/ mailLoop[mailOwner[p]] = "handle" /\ i = mailCurrent[mailOwner[p]]

CommittedIsNoted ==
  \A p \in MailPartitions :
    /\ mailCommitted[p] <= Len(feed)
    /\ \A i \in 1..mailCommitted[p] : Mail!PartitionAt(i) = p => Noted(feed[i])

NotedInv ==
  /\ CommittedIsNoted
  /\ \A p \in MailPartitions : ReadIsNoted(p)
  /\ \A w \in Mailers : PastIsNoted(w)

\* w stops, or lets go of the message in hand only when it is noted.
MailLetsGo(w) ==
  \/ mailLoop'[w] = "down"
  \/ /\ mailLoop[w] # "down"
     /\ mailLoop[w] = "handle" =>
          /\ mailCurrent'[w] = mailCurrent[w]
          /\ Noted(feed[mailCurrent[w]])' \/ mailLoop'[w] = "handle"

Unsent == recorded \ DOMAIN sent
Senders == {w \in Mailers : sending[w]}

\* Each notification noted and not sent has a worker at its sending, or has
\* cost a stop.
LossInv ==
  /\ IsFiniteSet(Unsent) /\ IsFiniteSet(Senders)
  /\ stops \in Nat
  /\ Cardinality(Unsent) <= stops + Cardinality(Senders)

\* The feed and the record only grow.
MailGrows ==
  /\ Len(feed) \in Nat /\ Len(feed') \in Nat /\ Len(feed') >= Len(feed)
  /\ \A i \in 1..Len(feed) : feed'[i] = feed[i]
  /\ recorded \subseteq recorded'

\* (what is noted stays noted, and in its partition)
LEMMA NotedStays ==
  ASSUME MailGrows, NEW i \in 1..Len(feed)
  PROVE  /\ Mail!PartitionAt(i)' = Mail!PartitionAt(i)
         /\ Noted(feed[i]) => Noted(feed[i])'
BY DEF MailGrows, Noted, Mail!PartitionAt

\* (a worker that does not move has noted what it had)
LEMMA PastStaysNoted ==
  ASSUME MailGrows, NEW w \in Mailers, PastIsNoted(w),
         mailLoop'[w] = mailLoop[w], mailCurrent'[w] = mailCurrent[w]
  PROVE  PastIsNoted(w)'
<1>1. Len(feed) \in Nat /\ Len(feed') \in Nat /\ Len(feed') >= Len(feed)
  BY DEF MailGrows
<1>2. \A i \in 1..Len(feed) : /\ Mail!PartitionAt(i)' = Mail!PartitionAt(i)
                              /\ Noted(feed[i]) => Noted(feed[i])'
  BY NotedStays
<1>3. SUFFICES ASSUME mailLoop[w] \in {"handle", "commit"} PROVE PastIsNoted(w)'
  BY DEF PastIsNoted
<1>4. /\ mailCurrent[w] \in 1..Len(feed)
      /\ \A i \in 1..(mailCurrent[w] - 1) :
           Mail!PartitionAt(i) = Mail!PartitionAt(mailCurrent[w]) => Noted(feed[i])
  BY <1>3 DEF PastIsNoted
<1>5. mailCurrent[w] \in 1..Len(feed') /\ \A i \in 1..(mailCurrent[w] - 1) : i \in 1..Len(feed)
  BY <1>1, <1>4
<1>6. Mail!PartitionAt(mailCurrent[w])' = Mail!PartitionAt(mailCurrent[w])
  <2>1. feed'[mailCurrent[w]] = feed[mailCurrent[w]]
    BY <1>4 DEF MailGrows
  <2>2. QED
    BY <2>1 DEF Mail!PartitionAt
<1>7. \A i \in 1..(mailCurrent[w] - 1) :
        Mail!PartitionAt(i)' = Mail!PartitionAt(mailCurrent[w])' => Noted(feed[i])'
  <2> SUFFICES ASSUME NEW i \in 1..(mailCurrent[w] - 1),
                      Mail!PartitionAt(i)' = Mail!PartitionAt(mailCurrent[w])'
               PROVE  Noted(feed[i])'
    OBVIOUS
  <2>1. i \in 1..Len(feed)
    BY <1>5
  <2>2. QED
    BY <1>2, <1>4, <1>6, <2>1
<1>8. mailLoop[w] = "commit" => Noted(feed[mailCurrent[w]])'
  BY <1>2, <1>4 DEF PastIsNoted, Noted
<1>9. QED
  BY <1>5, <1>7, <1>8 DEF PastIsNoted

\* (nor does a partition lose what was noted, if its owner does not)
LEMMA ReadStaysNoted ==
  ASSUME MailTypes, MailGrows, NEW p \in MailPartitions, ReadIsNoted(p),
         mailOwner'[p] = mailOwner[p], mailPosition'[p] = mailPosition[p],
         MailLetsGo(mailOwner[p])
  PROVE  ReadIsNoted(p)'
<1> DEFINE w == mailOwner[p]
<1>1. /\ Len(feed) \in Nat /\ Len(feed') \in Nat /\ Len(feed') >= Len(feed)
      /\ mailPosition[p] \in Nat /\ mailPosition[p] <= Len(feed)
  BY DEF MailGrows, MailTypes, ReadIsNoted
<1>2. ASSUME mailLoop'[w] # "down", NEW i \in 1..mailPosition[p], Mail!PartitionAt(i)' = p
      PROVE  Noted(feed[i])' \/ (mailLoop'[w] = "handle" /\ i = mailCurrent'[w])
  <2>1. i \in 1..Len(feed)
    BY <1>1
  <2>2. Mail!PartitionAt(i) = p /\ (Noted(feed[i]) => Noted(feed[i])')
    BY <1>2, <2>1, NotedStays
  <2>3. Noted(feed[i]) \/ (mailLoop[w] = "handle" /\ i = mailCurrent[w])
    BY <1>2, <2>2 DEF ReadIsNoted, MailLetsGo
  <2>4. CASE mailLoop[w] = "handle" /\ i = mailCurrent[w]
    <3>1. /\ mailCurrent'[w] = i
          /\ Noted(feed[mailCurrent[w]])' \/ mailLoop'[w] = "handle"
      BY <1>2, <2>4 DEF MailLetsGo
    <3>2. QED
      BY <2>4, <3>1 DEF Noted
  <2>5. QED
    BY <2>2, <2>3, <2>4
<1>3. QED
  BY <1>1, <1>2 DEF ReadIsNoted

\* (what the group has committed stays noted)
LEMMA CommittedStaysNoted ==
  ASSUME MailTypes, MailGrows, NotedInv, mailCommitted' = mailCommitted
  PROVE  CommittedIsNoted'
<1> SUFFICES ASSUME NEW p \in MailPartitions
             PROVE  /\ mailCommitted[p] <= Len(feed')
                    /\ \A i \in 1..mailCommitted[p] :
                         Mail!PartitionAt(i)' = p => Noted(feed[i])'
  BY DEF CommittedIsNoted
<1>1. /\ Len(feed) \in Nat /\ Len(feed') \in Nat /\ Len(feed') >= Len(feed)
      /\ mailCommitted[p] \in Nat /\ mailCommitted[p] <= Len(feed)
      /\ \A i \in 1..mailCommitted[p] : Mail!PartitionAt(i) = p => Noted(feed[i])
  BY DEF MailGrows, MailTypes, NotedInv, CommittedIsNoted
<1>2. \A i \in 1..mailCommitted[p] : i \in 1..Len(feed)
  BY <1>1
<1>3. QED
  BY <1>1, <1>2, NotedStays

(***************************************************************************)
(* The frame of a worker's step that fetches nothing, restarts nobody and  *)
(* commits nothing.                                                        *)
(***************************************************************************)
LEMMA NotedFrame ==
  ASSUME MailTypes, MailGrows, NotedInv, NEW w \in Mailers, PastIsNoted(w)', MailLetsGo(w),
         UNCHANGED <<mailCommitted, mailOwner, mailPosition>>,
         \A v \in Mailers \ {w} :
           mailLoop'[v] = mailLoop[v] /\ mailCurrent'[v] = mailCurrent[v]
  PROVE  NotedInv'
<1>1. \A v \in Mailers : PastIsNoted(v)'
  BY PastStaysNoted DEF NotedInv
<1>2. \A v \in Mailers : MailLetsGo(v)
  BY DEF MailLetsGo
<1>3. \A p \in MailPartitions : ReadIsNoted(p)'
  BY <1>2, ReadStaysNoted DEF NotedInv, MailTypes
<1>4. QED
  BY <1>1, <1>3, CommittedStaysNoted DEF NotedInv

\* (the account is even at first)
LEMMA LossInit == Init => NotedInv /\ LossInv
<1> SUFFICES ASSUME Init PROVE NotedInv /\ LossInv
  OBVIOUS
<1>1. /\ feed = << >> /\ mailCommitted = [p \in MailPartitions |-> 0]
      /\ recorded = {} /\ stops = 0
      /\ mailPosition = [p \in MailPartitions |-> 0] /\ mailCurrent = [w \in Mailers |-> 0]
      /\ mailLoop = [w \in Mailers |-> "fetch"] /\ sending = [w \in Mailers |-> FALSE]
  BY DEF Init, FulfillmentInit, Mail!NotificationInit, Mail!ConsumerInit
<1>2. NotedInv
  BY <1>1 DEF NotedInv, CommittedIsNoted, ReadIsNoted, PastIsNoted
<1>3. Unsent = {} /\ Senders = {}
  BY <1>1 DEF Unsent, Senders
<1>4. LossInv
  BY <1>1, <1>3, FS_EmptySet DEF LossInv
<1>5. QED
  BY <1>2, <1>4

\* (a step of a notification worker, its failures included)
LEMMA MailStepNoted ==
  ASSUME ShipmentInv, MailInv, NotedInv, NEW w \in Mailers,
         Mail!WorkerStep(w) \/ Mail!StopWorker(w) \/ Mail!RestartWorker(w)
  PROVE  NotedInv'
<1>1. /\ MailTypes /\ PastIsNoted(w) /\ Len(feed) \in Nat /\ DOMAIN feed = 1..Len(feed)
      /\ \A i \in 1..Len(feed) : feed[i] \in Message
  BY LenProperties, ElementOfSeq DEF MailInv, NotedInv, ShipmentInv, ShipmentTypes
<1>2. feed' = feed /\ recorded \subseteq recorded'
  BY MailFrame
  DEF Mail!NotificationNext, Mail!WorkerStep, Mail!FetchMessage, Mail!RenderFails,
      Mail!RecordIfNew, Mail!Send, Mail!CommitMessage, Mail!StopWorker, Mail!RestartWorker
<1>3. MailGrows /\ \A i : Mail!PartitionAt(i)' = Mail!PartitionAt(i)
  BY <1>1, <1>2 DEF MailGrows, Mail!PartitionAt
<1>4. \A i \in 1..Len(feed) : Noted(feed[i]) => Noted(feed[i])'
  BY <1>3, NotedStays
<1>5. CASE Mail!FetchMessage(w)
  <2>1. PICK p \in MailPartitions : Mail!FetchFrom(w, p)
    BY <1>5 DEF Mail!FetchMessage, Mail!Fetch
  <2>2. PICK i \in 1..Len(feed) :
          /\ Mail!IsNext(i, p)
          /\ mailPosition' = [mailPosition EXCEPT ![p] = i]
          /\ mailCurrent' = [mailCurrent EXCEPT ![w] = i]
    BY <1>1, <2>1 DEF Mail!FetchFrom
  <2>3. /\ mailLoop[w] = "fetch" /\ mailOwner[p] = w /\ UNCHANGED <<mailCommitted, mailOwner>>
        /\ mailLoop' = [mailLoop EXCEPT ![w] = "handle"]
    BY <2>1 DEF Mail!FetchFrom
  <2>4. /\ mailPosition'[p] = i /\ mailCurrent'[w] = i /\ mailLoop'[w] = "handle"
        /\ mailPosition[p] \in Nat
        /\ \A q \in MailPartitions \ {p} : mailPosition'[q] = mailPosition[q]
        /\ \A v \in Mailers \ {w} : mailLoop'[v] = mailLoop[v] /\ mailCurrent'[v] = mailCurrent[v]
    BY <1>1, <2>2, <2>3 DEF MailTypes
  <2>5. ASSUME NEW j \in 1..(i - 1), Mail!PartitionAt(j) = p
        PROVE  Noted(feed[j])'
    <3>1. j \in 1..Len(feed)
      BY <1>1
    <3>2. j \in 1..mailPosition[p]
      BY <2>2, <2>4, <2>5, <3>1 DEF Mail!IsNext
    <3>3. Noted(feed[j])
      BY <2>3, <2>5, <3>2 DEF NotedInv, ReadIsNoted
    <3>4. QED
      BY <1>4, <3>1, <3>3
  <2>6. Mail!PartitionAt(i) = p
    BY <2>2 DEF Mail!IsNext
  <2>7. PastIsNoted(w)'
    <3>1. Mail!PartitionAt(mailCurrent[w])' = p
      BY <1>2, <2>4, <2>6 DEF Mail!PartitionAt
    <3>2. \A j \in 1..(mailCurrent'[w] - 1) :
            Mail!PartitionAt(j)' = Mail!PartitionAt(mailCurrent[w])' => Noted(feed[j])'
      BY <1>3, <2>4, <2>5, <3>1
    <3>3. mailCurrent'[w] \in 1..Len(feed')
      BY <1>2, <2>4
    <3>4. QED
      BY <2>4, <3>2, <3>3 DEF PastIsNoted
  <2>8. ReadIsNoted(p)'
    <3>1. \A j \in 1..i : j = i \/ j \in 1..(i - 1)
      BY <1>1
    <3>2. \A j \in 1..i : Mail!PartitionAt(j)' = p => j = i \/ Noted(feed[j])'
      BY <1>3, <2>5, <3>1
    <3>3. QED
      BY <1>1, <1>2, <2>3, <2>4, <3>2 DEF ReadIsNoted
  <2>9. \A v \in Mailers : MailLetsGo(v)
    BY <2>3, <2>4 DEF MailLetsGo
  <2>10. \A q \in MailPartitions : ReadIsNoted(q)'
    BY <1>1, <1>3, <2>3, <2>4, <2>8, <2>9, ReadStaysNoted DEF NotedInv, MailTypes
  <2>11. \A v \in Mailers : PastIsNoted(v)'
    BY <1>3, <2>4, <2>7, PastStaysNoted DEF NotedInv
  <2>12. QED
    BY <1>1, <1>3, <2>3, <2>10, <2>11, CommittedStaysNoted DEF NotedInv
<1>6. CASE Mail!RenderFails(w) \/ (Mail!RecordIfNew(w) /\ ~Mail!IsNew(Mail!InHand(w)))
             \/ Mail!Send(w)
  <2>1. /\ mailLoop[w] = "handle" /\ mailLoop' = [mailLoop EXCEPT ![w] = "commit"]
        /\ UNCHANGED <<mailCommitted, mailPosition, mailOwner, mailCurrent>>
    BY <1>6 DEF Mail!RenderFails, Mail!RecordIfNew, Mail!Send, Mail!Handled, Mail!DeadLetter
  <2>2. /\ mailCurrent[w] \in 1..Len(feed)
        /\ \A i \in 1..(mailCurrent[w] - 1) :
             Mail!PartitionAt(i) = Mail!PartitionAt(mailCurrent[w]) => Noted(feed[i])
    BY <1>1, <2>1 DEF PastIsNoted
  <2>3. Noted(feed[mailCurrent[w]])
    <3>1. CASE Mail!RenderFails(w)
      BY <1>1, <2>2, <3>1 DEF Mail!RenderFails, Mail!InHand, Noted, Message
    <3>2. CASE Mail!RecordIfNew(w) /\ ~Mail!IsNew(Mail!InHand(w))
      BY <3>2 DEF Mail!IsNew, Mail!InHand, Noted
    <3>3. CASE Mail!Send(w)
      BY <3>3 DEF Mail!Send, MailInv, SenderInv, Mail!InHand, Noted
    <3>4. QED
      BY <1>6, <3>1, <3>2, <3>3
  <2>4. Noted(feed[mailCurrent[w]])'
    BY <1>4, <2>1, <2>2, <2>3 DEF Noted
  <2>5. \A i \in 1..(mailCurrent[w] - 1) :
          Mail!PartitionAt(i)' = Mail!PartitionAt(mailCurrent[w])' => Noted(feed[i])'
    <3>1. \A i \in 1..(mailCurrent[w] - 1) : i \in 1..Len(feed)
      BY <1>1, <2>2
    <3>2. Mail!PartitionAt(mailCurrent[w])' = Mail!PartitionAt(mailCurrent[w])
      BY <1>2, <2>1 DEF Mail!PartitionAt
    <3>3. QED
      BY <1>3, <1>4, <2>2, <3>1, <3>2
  <2>6. /\ mailLoop'[w] = "commit"
        /\ \A v \in Mailers \ {w} : mailLoop'[v] = mailLoop[v] /\ mailCurrent'[v] = mailCurrent[v]
    BY <1>1, <2>1 DEF MailTypes
  <2>7. PastIsNoted(w)' /\ MailLetsGo(w)
    BY <1>2, <2>1, <2>2, <2>4, <2>5, <2>6 DEF PastIsNoted, MailLetsGo
  <2>8. QED
    BY <1>1, <1>3, <2>1, <2>6, <2>7, NotedFrame
<1>7. CASE Mail!RecordIfNew(w) /\ Mail!IsNew(Mail!InHand(w))
  <2>1. /\ UNCHANGED <<mailCommitted, mailLoop, mailPosition, mailOwner, mailCurrent>>
        /\ mailLoop[w] = "handle"
    BY <1>7 DEF Mail!RecordIfNew, Mail!IsNew, Mail!consumerVars
  <2>2. PastIsNoted(w)' /\ MailLetsGo(w)
    BY <1>1, <1>3, <2>1, PastStaysNoted DEF MailLetsGo
  <2>3. QED
    BY <1>1, <1>3, <2>1, <2>2, NotedFrame
<1>8. CASE Mail!CommitMessage(w)
  <2>1. /\ mailLoop[w] = "commit"
        /\ mailCommitted' = [mailCommitted EXCEPT ![Mail!PartitionAt(mailCurrent[w])] = mailCurrent[w]]
        /\ mailCurrent' = [mailCurrent EXCEPT ![w] = 0]
        /\ mailLoop' = [mailLoop EXCEPT ![w] = "fetch"]
        /\ UNCHANGED <<mailPosition, mailOwner>>
    BY <1>8 DEF Mail!CommitMessage, Mail!CommitOffset
  <2>2. /\ mailCurrent[w] \in 1..Len(feed) /\ Noted(feed[mailCurrent[w]])
        /\ \A i \in 1..(mailCurrent[w] - 1) :
             Mail!PartitionAt(i) = Mail!PartitionAt(mailCurrent[w]) => Noted(feed[i])
    BY <1>1, <2>1 DEF PastIsNoted
  <2>3. \A i \in 1..mailCurrent[w] :
          i \in 1..Len(feed) /\ (i = mailCurrent[w] \/ i \in 1..(mailCurrent[w] - 1))
    BY <1>1, <2>2
  <2>4. \A i \in 1..mailCurrent[w] :
          Mail!PartitionAt(i) = Mail!PartitionAt(mailCurrent[w]) => Noted(feed[i])'
    BY <1>4, <2>2, <2>3
  <2>5. CommittedIsNoted'
    <3> SUFFICES ASSUME NEW p \in MailPartitions
                 PROVE  /\ mailCommitted'[p] <= Len(feed)
                        /\ \A i \in 1..mailCommitted'[p] :
                             Mail!PartitionAt(i) = p => Noted(feed[i])'
      BY <1>2, <1>3 DEF CommittedIsNoted
    <3>1. CASE p = Mail!PartitionAt(mailCurrent[w])
      <4>1. mailCommitted'[p] = mailCurrent[w]
        BY <1>1, <2>1, <3>1 DEF MailTypes
      <4>2. QED
        BY <1>1, <2>2, <2>4, <3>1, <4>1
    <3>2. CASE p # Mail!PartitionAt(mailCurrent[w])
      <4>1. /\ mailCommitted'[p] = mailCommitted[p] /\ mailCommitted[p] \in Nat
            /\ mailCommitted[p] <= Len(feed)
            /\ \A i \in 1..mailCommitted[p] : Mail!PartitionAt(i) = p => Noted(feed[i])
        BY <1>1, <2>1, <3>2 DEF MailTypes, NotedInv, CommittedIsNoted
      <4>2. \A i \in 1..mailCommitted[p] : i \in 1..Len(feed)
        BY <1>1, <4>1
      <4>3. QED
        BY <1>4, <4>1, <4>2
    <3>3. QED
      BY <3>1, <3>2
  <2>6. /\ mailLoop'[w] = "fetch"
        /\ \A v \in Mailers \ {w} : mailLoop'[v] = mailLoop[v] /\ mailCurrent'[v] = mailCurrent[v]
    BY <1>1, <2>1 DEF MailTypes
  <2>7. \A v \in Mailers : PastIsNoted(v)'
    BY <1>3, <2>6, PastStaysNoted DEF NotedInv, PastIsNoted
  <2>8. \A v \in Mailers : MailLetsGo(v)
    BY <2>1, <2>6 DEF MailLetsGo
  <2>9. \A p \in MailPartitions : ReadIsNoted(p)'
    BY <1>1, <1>3, <2>1, <2>8, ReadStaysNoted DEF NotedInv, MailTypes
  <2>10. QED
    BY <2>5, <2>7, <2>9 DEF NotedInv
<1>9. CASE Mail!StopWorker(w)
  <2>1. /\ mailCurrent' = [mailCurrent EXCEPT ![w] = 0]
        /\ mailLoop' = [mailLoop EXCEPT ![w] = "down"]
        /\ UNCHANGED <<mailCommitted, mailPosition, mailOwner>>
    BY <1>9 DEF Mail!StopWorker, Mail!Stop
  <2>2. /\ mailLoop'[w] = "down"
        /\ \A v \in Mailers \ {w} : mailLoop'[v] = mailLoop[v] /\ mailCurrent'[v] = mailCurrent[v]
    BY <1>1, <2>1 DEF MailTypes
  <2>3. PastIsNoted(w)' /\ MailLetsGo(w)
    BY <2>2 DEF PastIsNoted, MailLetsGo
  <2>4. QED
    BY <1>1, <1>3, <2>1, <2>2, <2>3, NotedFrame
<1>10. CASE Mail!RestartWorker(w)
  <2>1. /\ mailPosition' = [p \in MailPartitions |->
                              IF mailOwner[p] = w THEN mailCommitted[p] ELSE mailPosition[p]]
        /\ mailLoop[w] = "down" /\ mailLoop' = [mailLoop EXCEPT ![w] = "fetch"]
        /\ UNCHANGED <<mailCommitted, mailOwner, mailCurrent>>
    BY <1>10 DEF Mail!RestartWorker, Mail!Restart
  <2>2. /\ mailLoop'[w] = "fetch"
        /\ \A v \in Mailers \ {w} : mailLoop'[v] = mailLoop[v] /\ mailCurrent'[v] = mailCurrent[v]
    BY <1>1, <2>1 DEF MailTypes
  <2>3. \A v \in Mailers : PastIsNoted(v)'
    BY <1>3, <2>2, PastStaysNoted DEF NotedInv, PastIsNoted
  <2>4. CommittedIsNoted'
    BY <1>1, <1>3, <2>1, CommittedStaysNoted
  <2>5. ASSUME NEW p \in MailPartitions PROVE ReadIsNoted(p)'
    <3>1. CASE mailOwner[p] = w
      BY <2>1, <2>4, <3>1 DEF CommittedIsNoted, ReadIsNoted
    <3>2. CASE mailOwner[p] # w
      <4>1. mailOwner[p] \in Mailers \ {w} /\ mailPosition'[p] = mailPosition[p]
        BY <1>1, <2>1, <3>2 DEF MailTypes
      <4>2. MailLetsGo(mailOwner[p])
        BY <2>2, <4>1 DEF MailLetsGo
      <4>3. QED
        BY <1>1, <1>3, <2>1, <4>1, <4>2, ReadStaysNoted DEF NotedInv
    <3>3. QED
      BY <3>1, <3>2
  <2>6. QED
    BY <2>3, <2>4, <2>5 DEF NotedInv
<1>11. QED
  BY <1>5, <1>6, <1>7, <1>8, <1>9, <1>10 DEF Mail!WorkerStep

\* (the new owners read on from the committed offsets)
LEMMA MailRebalanceNoted ==
  ASSUME NotedInv, NEW assignment \in [MailPartitions -> Mailers],
         Mail!RebalanceWorkers(assignment)
  PROVE  NotedInv'
<1>1. /\ mailPosition' = mailCommitted
      /\ UNCHANGED <<feed, mailCommitted, mailCurrent, mailLoop, recorded>>
  BY DEF Mail!RebalanceWorkers, Mail!Rebalance
<1>2. CommittedIsNoted' /\ \A w \in Mailers : PastIsNoted(w)'
  BY <1>1 DEF NotedInv, CommittedIsNoted, PastIsNoted, Noted, Mail!PartitionAt
<1>3. \A p \in MailPartitions : ReadIsNoted(p)'
  BY <1>1, <1>2 DEF CommittedIsNoted, ReadIsNoted
<1>4. QED
  BY <1>2, <1>3 DEF NotedInv

\* (each step keeps account of what is noted and not sent)
LEMMA MailStepLoss ==
  ASSUME MailInv, LossInv, NEW w \in Mailers,
         Mail!WorkerStep(w) \/ Mail!StopWorker(w) \/ Mail!RestartWorker(w)
  PROVE  LossInv'
<1>1. /\ sending \in [Mailers -> BOOLEAN] /\ stops \in Nat
      /\ IsFiniteSet(Unsent) /\ IsFiniteSet(Senders)
      /\ Cardinality(Unsent) \in Nat /\ Cardinality(Senders) \in Nat
      /\ Cardinality(Unsent) <= stops + Cardinality(Senders)
  BY FS_CardinalityType DEF MailInv, MailTypes, LossInv
<1>2. CASE Mail!RecordIfNew(w) /\ Mail!IsNew(Mail!InHand(w))
  <2> DEFINE k == Mail!InHand(w)
  <2>1. /\ ~sending[w] /\ sending' = [sending EXCEPT ![w] = TRUE]
        /\ k \notin recorded /\ recorded' = recorded \cup {k} /\ UNCHANGED <<sent, stops>>
    BY <1>2 DEF Mail!RecordIfNew, Mail!IsNew
  <2>2. Unsent' = Unsent \cup {k} /\ k \notin Unsent
    BY <2>1 DEF Unsent, MailInv, SentInv
  <2>3. Senders' = Senders \cup {w} /\ w \notin Senders
    BY <1>1, <2>1 DEF Senders
  <2>4. /\ IsFiniteSet(Unsent') /\ Cardinality(Unsent') = Cardinality(Unsent) + 1
        /\ IsFiniteSet(Senders') /\ Cardinality(Senders') = Cardinality(Senders) + 1
    BY <1>1, <2>2, <2>3, FS_AddElement
  <2>5. QED
    BY <1>1, <2>1, <2>4 DEF LossInv
<1>3. CASE Mail!Send(w)
  <2> DEFINE k == Mail!InHand(w)
  <2>1. /\ sending[w] /\ sending' = [sending EXCEPT ![w] = FALSE]
        /\ DOMAIN sent' = DOMAIN sent \cup {k} /\ UNCHANGED <<recorded, stops>>
    BY <1>3 DEF Mail!Send
  <2>2. k \in recorded /\ k \notin DOMAIN sent
    BY <2>1 DEF MailInv, SenderInv
  <2>3. Unsent' = Unsent \ {k} /\ k \in Unsent
    BY <2>1, <2>2 DEF Unsent
  <2>4. Senders' = Senders \ {w} /\ w \in Senders
    BY <1>1, <2>1 DEF Senders
  <2>5. /\ IsFiniteSet(Unsent') /\ Cardinality(Unsent') = Cardinality(Unsent) - 1
        /\ IsFiniteSet(Senders') /\ Cardinality(Senders') = Cardinality(Senders) - 1
    BY <1>1, <2>3, <2>4, FS_RemoveElement
  <2>6. QED
    BY <1>1, <2>1, <2>5 DEF LossInv
<1>4. CASE Mail!StopWorker(w)
  <2>1. /\ sending' = [sending EXCEPT ![w] = FALSE] /\ stops' = stops + 1
        /\ UNCHANGED <<recorded, sent>>
    BY <1>4 DEF Mail!StopWorker
  <2>2. Unsent' = Unsent /\ Senders' = Senders \ {w}
    BY <1>1, <2>1 DEF Unsent, Senders
  <2>3. /\ IsFiniteSet(Senders')
        /\ \/ Cardinality(Senders') = Cardinality(Senders)
           \/ Cardinality(Senders') = Cardinality(Senders) - 1
    BY <1>1, <2>2, FS_RemoveElement
  <2>4. QED
    BY <1>1, <2>1, <2>2, <2>3 DEF LossInv
<1>5. CASE UNCHANGED <<recorded, sent, sending, stops>>
  BY <1>1, <1>5 DEF LossInv, Unsent, Senders
<1>6. QED
  BY <1>2, <1>3, <1>4, <1>5
  DEF Mail!WorkerStep, Mail!FetchMessage, Mail!RenderFails, Mail!RecordIfNew,
      Mail!CommitMessage, Mail!RestartWorker

\* (every step keeps the account)
LEMMA NextLoss ==
  ShipmentInv /\ MailInv /\ NotedInv /\ LossInv /\ [Next]_vars => NotedInv' /\ LossInv'
<1> SUFFICES ASSUME ShipmentInv, MailInv, NotedInv, LossInv, [Next]_vars
             PROVE  NotedInv' /\ LossInv'
  OBVIOUS
<1>1. /\ Len(feed) \in Nat /\ Len(feed') \in Nat /\ MailTypes
      /\ \A p \in MailPartitions : mailOwner[p] \in Mailers
  BY NextShipments DEF ShipmentInv, ShipmentTypes, MailInv, MailTypes
<1>2. CASE Mail!NotificationNext
  <2>1. CASE \E w \in Mailers :
               Mail!WorkerStep(w) \/ Mail!StopWorker(w) \/ Mail!RestartWorker(w)
    BY <2>1, MailStepNoted, MailStepLoss
  <2>2. CASE \E assignment \in [MailPartitions -> Mailers] : Mail!RebalanceWorkers(assignment)
    <3>1. UNCHANGED <<recorded, sent, sending, stops>>
      BY <2>2 DEF Mail!RebalanceWorkers
    <3>2. LossInv'
      BY <3>1 DEF LossInv, Unsent, Senders
    <3>3. QED
      BY <2>2, <3>2, MailRebalanceNoted
  <2>3. QED
    BY <1>2, <2>1, <2>2 DEF Mail!NotificationNext
<1>3. CASE UNCHANGED mailVars /\ (FulfillmentNext \/ UNCHANGED vars)
  <2>1. MailGrows
    BY <1>1, <1>3, FeedKeeps DEF MailGrows, vars, fulfillmentVars, mailVars
  <2>2. UNCHANGED <<mailCommitted, mailPosition, mailOwner, mailCurrent, mailLoop>>
    BY <1>3 DEF mailVars
  <2>3. \A w \in Mailers : PastIsNoted(w)' /\ MailLetsGo(w)
    BY <2>1, <2>2, PastStaysNoted DEF NotedInv, MailLetsGo
  <2>4. \A p \in MailPartitions : ReadIsNoted(p)'
    BY <1>1, <2>1, <2>2, <2>3, ReadStaysNoted DEF NotedInv
  <2>5. NotedInv'
    BY <1>1, <2>1, <2>2, <2>3, <2>4, CommittedStaysNoted DEF NotedInv
  <2>6. LossInv'
    BY <1>3 DEF mailVars, LossInv, Unsent, Senders
  <2>7. QED
    BY <2>5, <2>6
<1>4. QED
  BY <1>2, <1>3 DEF Next, vars

(***************************************************************************)
(* Whatever is delivered again, rebalanced or restarted, with any number   *)
(* of workers: of the messages the group is past, those without a          *)
(* notification are no more than the stops and the sends in hand.          *)
(***************************************************************************)
THEOREM LossesAreFailuresAlways == Spec => []LossesAreFailures
<1>1. ShipmentInv /\ MailInv /\ NotedInv /\ LossInv => LossesAreFailures
  <2> SUFFICES ASSUME ShipmentInv, MailInv, NotedInv, LossInv PROVE LossesAreFailures
    OBVIOUS
  <2> DEFINE Lost == {feed[i] : i \in {j \in DOMAIN feed : Mail!Passed(j) /\ ~Settled(j)}}
  <2>0. ASSUME NEW i \in DOMAIN feed, Mail!Passed(i), ~Settled(i)
        PROVE  feed[i] \in Unsent
    <3>1. i \in 1..Len(feed) /\ feed[i] \in Message
      BY ElementOfSeq, LenProperties DEF ShipmentInv, ShipmentTypes
    <3>2. Mail!PartitionAt(i) \in MailPartitions
      BY <3>1, DownstreamAssumption DEF Mail!PartitionAt
    <3>3. i \in 1..mailCommitted[Mail!PartitionAt(i)]
      BY <2>0, <3>1, <3>2 DEF Mail!Passed, MailInv, MailTypes
    <3>4. Noted(feed[i])
      BY <3>2, <3>3 DEF NotedInv, CommittedIsNoted
    <3>5. QED
      BY <2>0, <3>4 DEF Noted, Settled, Unsent
  <2>1. Lost \in SUBSET Unsent
    BY <2>0
  <2>2. Cardinality(Lost) <= Cardinality(Unsent) /\ IsFiniteSet(Lost)
    BY <2>1, FS_Subset DEF LossInv
  <2>3. Cardinality(Lost) \in Nat /\ Cardinality(Unsent) \in Nat /\ Cardinality(Senders) \in Nat
    BY <2>2, FS_CardinalityType DEF LossInv
  <2>4. Cardinality(Lost) <= stops + Cardinality(Senders)
    BY <2>2, <2>3 DEF LossInv
  <2>5. QED
    BY <2>4 DEF LossesAreFailures, Senders
<1>2. QED
  BY <1>1, ShipmentInit, MailInit, LossInit, NextShipments, NextMail, NextLoss, PTL DEF Spec

-----------------------------------------------------------------------------
(* Types: what the invariants above leave out.                             *)

\* The rest of the type invariant: counters, and versions that stop at 2.
RestTypes ==
  /\ deadLetters \subseteq Nat /\ rebalances \in 0..MaxRebalances
  /\ failures \in 0..MaxFailures
  /\ \A c \in Clerks : clerk[c] # Idle => clerk[c].version \in 0..2
  /\ mailDeadLetters \subseteq Nat
  /\ mailRebalances \in 0..MaxMailRebalances
  /\ recorded \subseteq Message /\ stops \in 0..MaxMailStops

\* (the version of a shipment is 2 at most)
LEMMA VersionBound ==
  ASSUME ShipmentInv, NEW o \in Orders
  PROVE  shipments[o].version \in 0..2 /\ shipments[o] \in [status : ShipmentStatus, version : 0..2]
<1>1. /\ shipments[o] \in [status : ShipmentStatus, version : Nat]
      /\ shipments[o].version = VersionOf(shipments[o].status)
  BY DEF ShipmentInv, ShipmentTypes
<1>2. VersionOf(shipments[o].status) \in 0..2
  BY <1>1 DEF VersionOf, ShipmentStatus
<1>3. QED
  BY <1>1, <1>2

\* (a step of the fulfillment service)
LEMMA FulfillmentTyped ==
  ASSUME ShipmentInv, RestTypes, FulfillmentNext, UNCHANGED mailVars
  PROVE  RestTypes'
<1>1. /\ \A w \in Workers : current[w] \in Nat
      /\ MaxRebalances \in Nat /\ MaxFailures \in Nat
  BY ConsumerAssumption, FulfillmentAssumption DEF ShipmentInv, ShipmentTypes
<1>2. /\ deadLetters' \subseteq Nat /\ rebalances' \in 0..MaxRebalances
      /\ failures' \in 0..MaxFailures
  <2>1. CASE \E w \in Workers : PublishDeadLetter(w)
    BY <1>1, <2>1 DEF RestTypes, PublishDeadLetter, DeadLetter
  <2>2. CASE \E assignment \in [Partitions -> Workers] : RebalanceConsumers(assignment)
    BY <1>1, <2>2 DEF RestTypes, RebalanceConsumers, Rebalance
  <2>3. CASE \/ \E w \in Workers : StopConsumer(w)
             \/ \E c \in Clerks : FailRequest(c)
    <3>1. /\ failures < MaxFailures /\ failures' = failures + 1
          /\ UNCHANGED <<deadLetters, rebalances>>
      BY <2>3 DEF StopConsumer, Stop, FailRequest, consumerVars
    <3>2. QED
      BY <1>1, <3>1 DEF RestTypes
  <2>4. CASE UNCHANGED <<deadLetters, rebalances, failures>>
    BY <2>4 DEF RestTypes
  <2>5. QED
    BY <2>1, <2>2, <2>3, <2>4
    DEF FulfillmentNext, ConsumerStep, OrderEvent, Produce, FetchEvent, Fetch, FetchFrom, Ignore,
        Handled, Load, Insert, PublishCreated, CommitEvent, CommitOffset, RefuseCommit,
        CommitRefused, Stop, RestartConsumer, Restart, Ask, RequestStep, Update, PublishMove,
        consumerVars
<1>3. \A c \in Clerks : clerk'[c] # Idle => clerk'[c].version \in 0..2
  <2>1. CASE \E c \in Clerks, move \in DOMAIN Transition, o \in Orders : Ask(c, move, o)
    <3>1. PICK c \in Clerks, move \in DOMAIN Transition, o \in Orders : Ask(c, move, o)
      BY <2>1
    <3>2. /\ clerk'[c].version = shipments[o].version
          /\ \A d \in Clerks \ {c} : clerk'[d] = clerk[d]
      BY <3>1 DEF Ask, ShipmentInv, ShipmentTypes
    <3>3. QED
      BY <3>2, VersionBound DEF RestTypes
  <2>2. CASE \E c \in Clerks : RequestStep(c) \/ FailRequest(c)
    <3>1. PICK c \in Clerks : RequestStep(c) \/ FailRequest(c)
      BY <2>2
    <3>2. \/ clerk' = [clerk EXCEPT ![c] = Idle]
          \/ clerk[c].at = "update" /\ clerk' = [clerk EXCEPT ![c].at = "publish"]
      BY <3>1 DEF RequestStep, Update, PublishMove, FailRequest
    <3>3. CASE clerk' = [clerk EXCEPT ![c] = Idle]
      BY <3>3 DEF ShipmentInv, ShipmentTypes, RestTypes
    <3>4. CASE clerk[c].at = "update" /\ clerk' = [clerk EXCEPT ![c].at = "publish"]
      <4>1. clerk[c] # Idle
        BY <3>4 DEF Idle
      <4>2. clerk[c] \in [at : {"update", "publish"}, order : Orders,
                          move : DOMAIN Transition, version : Nat]
        BY <4>1, RequestType
      <4>3. /\ clerk'[c] = [clerk[c] EXCEPT !.at = "publish"]
            /\ \A d \in Clerks \ {c} : clerk'[d] = clerk[d]
        BY <3>4 DEF ShipmentInv, ShipmentTypes
      <4>4. clerk'[c].version = clerk[c].version
        BY <4>2, <4>3
      <4>5. QED
        BY <4>1, <4>3, <4>4 DEF RestTypes
    <3>5. QED
      BY <3>2, <3>3, <3>4
  <2>3. CASE clerk' = clerk
    BY <2>3 DEF RestTypes
  <2>4. QED
    BY <2>1, <2>2, <2>3
    DEF FulfillmentNext, ConsumerStep, OrderEvent, FetchEvent, Ignore, PublishDeadLetter, Load,
        Insert, PublishCreated, CommitEvent, StopConsumer, RefuseCommit, RestartConsumer,
        RebalanceConsumers
<1>4. QED
  BY <1>2, <1>3 DEF RestTypes, mailVars

\* (a step of the notification service)
LEMMA NotificationTyped ==
  ASSUME ShipmentInv, MailInv, NotedInv, RestTypes, Mail!NotificationNext,
         UNCHANGED <<consumerVars, clerk, failures>>
  PROVE  RestTypes'
<1>1. /\ mailCurrent \in [Mailers -> Nat]
      /\ MaxMailRebalances \in Nat /\ MaxMailStops \in Nat
      /\ \A w \in Mailers : mailLoop[w] = "handle" => Mail!InHand(w) \in Message
  BY DownstreamAssumption
  DEF MailInv, MailTypes, SenderInv, ShipmentInv, ShipmentTypes, Mail!InHand
<1>2. /\ mailDeadLetters' \subseteq Nat
      /\ mailRebalances' \in 0..MaxMailRebalances
      /\ recorded' \subseteq Message /\ stops' \in 0..MaxMailStops
  <2>1. CASE \E w \in Mailers : Mail!RenderFails(w) \/ Mail!RecordIfNew(w)
    BY <1>1, <2>1
    DEF RestTypes, Mail!RenderFails, Mail!DeadLetter, Mail!RecordIfNew, Mail!Handled,
        Mail!consumerVars
  <2>2. CASE \/ \E w \in Mailers : Mail!StopWorker(w)
             \/ \E assignment \in [MailPartitions -> Mailers] : Mail!RebalanceWorkers(assignment)
    BY <1>1, <2>2
    DEF RestTypes, Mail!StopWorker, Mail!Stop, Mail!RebalanceWorkers, Mail!Rebalance
  <2>3. CASE \E w \in Mailers : \/ Mail!FetchMessage(w) \/ Mail!Send(w)
                               \/ Mail!CommitMessage(w) \/ Mail!RestartWorker(w)
    BY <2>3
    DEF RestTypes, Mail!FetchMessage, Mail!Fetch, Mail!FetchFrom, Mail!Send, Mail!Handled,
        Mail!CommitMessage, Mail!CommitOffset, Mail!RestartWorker, Mail!Restart
  <2>4. QED
    BY <2>1, <2>2, <2>3 DEF Mail!NotificationNext, Mail!WorkerStep
<1>3. QED
  BY <1>2 DEF RestTypes, consumerVars

\* (every step keeps the types)
LEMMA NextRest == ShipmentInv /\ MailInv /\ NotedInv /\ RestTypes /\ [Next]_vars => RestTypes'
<1> SUFFICES ASSUME ShipmentInv, MailInv, NotedInv, RestTypes, [Next]_vars PROVE RestTypes'
  OBVIOUS
<1>1. CASE UNCHANGED vars
  BY <1>1 DEF vars, fulfillmentVars, consumerVars, mailVars, RestTypes
<1>2. QED
  BY <1>1, FulfillmentTyped, NotificationTyped DEF Next

(***************************************************************************)
(* Types: a version is 2 at most whatever requests race, an offset in a    *)
(* dead letter is one of the topic's, and what was sent was recorded.  *)
(***************************************************************************)
THEOREM DownstreamTypes == Spec => []TypeOK
<1>1. Init => RestTypes
  BY ConsumerAssumption, FulfillmentAssumption, DownstreamAssumption
  DEF Init, FulfillmentInit, ConsumerInit, Mail!NotificationInit, Mail!ConsumerInit, RestTypes
<1>2. ShipmentInv /\ MailInv /\ RestTypes => TypeOK
  <2> SUFFICES ASSUME ShipmentInv, MailInv, RestTypes PROVE TypeOK
    OBVIOUS
  <2>1. shipments \in [Orders -> [status : ShipmentStatus, version : 0..2]]
    BY VersionBound DEF ShipmentInv, ShipmentTypes
  <2>2. clerk \in [Clerks -> Request \cup {Idle}]
    <3>1. ASSUME NEW c \in Clerks, clerk[c] # Idle PROVE clerk[c] \in Request
      BY <3>1, RequestType DEF RestTypes, Request
    <3>2. QED
      BY <3>1 DEF ShipmentInv, ShipmentTypes
  <2>3. FulfillmentTypeOK
    BY <2>1, <2>2 DEF ShipmentInv, ShipmentTypes, RestTypes, FulfillmentTypeOK, ConsumerTypeOK
  <2>4. Mail!ConsumerTypeOK(Message)
    BY DEF ShipmentInv, ShipmentTypes, MailInv, MailTypes, RestTypes, Mail!ConsumerTypeOK,
           LoopState, Mail!LoopState
  <2>5. QED
    BY <2>3, <2>4 DEF TypeOK, MailInv, MailTypes, SentInv, RestTypes
<1>3. QED
  BY <1>1, <1>2, ShipmentInit, MailInit, LossInit, NextShipments, NextMail, NextLoss, NextRest, PTL
  DEF Spec
=============================================================================
