----------------------------- MODULE Fulfillment -----------------------------
(***************************************************************************)
(* The fulfillment service: consumers of the order topic open a shipment   *)
(* for each confirmed order, clerks (HTTP requests) dispatch and deliver   *)
(* it.  Both load the shipment, write it and publish afterwards, without   *)
(* an outbox: every failure between the write and the publish is a step.   *)
(*                                                                         *)
(* Requests that answer an error or find nothing to do change no state and *)
(* are left out.  Shipment.Fail has no caller in the service.              *)
(***************************************************************************)
EXTENDS Domain, TopicConsumer

CONSTANTS
  Clerks,         \* concurrent requests to the API
  Unparsable,     \* an order id that does not parse
  MaxEvents,      \* bound: events the order service publishes
  MaxFailures     \* bound: failures and crashes of consumers and requests

ASSUME FulfillmentAssumption ==
  /\ Unparsable \notin Orders
  /\ MaxEvents \in Nat
  /\ MaxFailures \in Nat

VARIABLES
  feed,        \* order and shipment topics, as a reader of both receives them
  shipments,   \* shipments[o]: status and version of the row, NONE without one
  step,        \* step[w]: where w is in CreateForOrder
  loaded,      \* loaded[w]: status of the shipment w holds
  clerk,       \* clerk[c]: the request c serves
  failures

fulfillmentVars == <<consumerVars, feed, shipments, step, loaded, clerk, failures>>

\* order.cancelled is treated like order.placed by both services: left out.
OrderEvents == {"order.placed", "order.confirmed"}
ShipmentEvents == {"shipment.created", "shipment.dispatched", "shipment.delivered"}

Message == [type : OrderEvents \cup ShipmentEvents, order : Orders \cup {Unparsable}]

\* The key of a message is its order's id.
ASSUME KeyAssumption ==
  /\ PartitionOf \in [Message -> Partitions]
  /\ \A m, n \in Message : m.order = n.order => PartitionOf[m] = PartitionOf[n]

ShipmentStatus == {"NONE", "CREATED", "DISPATCHED", "DELIVERED"}

NoShipment == [status |-> "NONE", version |-> 0]
Idle == [at |-> "idle"]

\* The transitions of the aggregate: what a request moves from and to.
Transition ==
  [dispatch |-> [from |-> "CREATED", to |-> "DISPATCHED", event |-> "shipment.dispatched"],
   deliver |-> [from |-> "DISPATCHED", to |-> "DELIVERED", event |-> "shipment.delivered"]]

Request ==
  [at : {"update", "publish"}, order : Orders, move : DOMAIN Transition, version : 0..2]

FulfillmentTypeOK ==
  /\ ConsumerTypeOK(Message)
  /\ feed \in Seq(Message)
  /\ shipments \in [Orders -> [status : ShipmentStatus, version : 0..2]]
  /\ step \in [Workers -> {"load", "insert", "publish"}]
  /\ loaded \in [Workers -> ShipmentStatus]
  /\ clerk \in [Clerks -> Request \cup {Idle}]
  /\ failures \in 0..MaxFailures

FulfillmentInit ==
  /\ ConsumerInit
  /\ feed = << >>
  /\ shipments = [o \in Orders |-> NoShipment]
  /\ step = [w \in Workers |-> "load"]
  /\ loaded = [w \in Workers |-> "NONE"]
  /\ clerk = [c \in Clerks |-> Idle]
  /\ failures = 0

-----------------------------------------------------------------------------
InTopic(topic, type, o) ==
  \E i \in DOMAIN topic : topic[i] = [type |-> type, order |-> o]

\* The order service publishes an event, perhaps again; what does not parse
\* is a confirmation here, the type that both services read.
OrderEvent(type, o) ==
  /\ Len(log) < MaxEvents
  /\ o = Unparsable => type = "order.confirmed"
  /\ Produce(<<[type |-> type, order |-> o]>>)
  /\ feed' = Append(feed, [type |-> type, order |-> o])
  /\ UNCHANGED <<shipments, step, loaded, clerk, failures>>

Publish(type, o) == feed' = Append(feed, [type |-> type, order |-> o])

-----------------------------------------------------------------------------
(* The consumer: Worker.Run and Service.CreateForOrder.                    *)

FetchEvent(w) ==
  /\ Fetch(w)
  /\ UNCHANGED <<feed, shipments, step, loaded, clerk, failures>>

Confirmation(w) == loop[w] = "handle" /\ InHand(w).type = "order.confirmed"

Ignore(w) ==
  /\ loop[w] = "handle"
  /\ InHand(w).type # "order.confirmed"
  /\ Handled(w)
  /\ UNCHANGED <<feed, shipments, step, loaded, clerk, failures>>

PublishDeadLetter(w) ==
  /\ Confirmation(w)
  /\ InHand(w).order = Unparsable
  /\ DeadLetter(w)
  /\ UNCHANGED <<feed, shipments, step, loaded, clerk, failures>>

\* The variables of CreateForOrder go when it ends.
ForgetShipment(w) ==
  /\ step' = [step EXCEPT ![w] = "load"]
  /\ loaded' = [loaded EXCEPT ![w] = "NONE"]

At(w, s) == Confirmation(w) /\ InHand(w).order \in Orders /\ step[w] = s

\* (mutant: a shipment that exists already is not published again)
LoadForInsert(w) ==
  /\ At(w, "load")
  /\ step' = [step EXCEPT ![w] =
       IF shipments[InHand(w).order] = NoShipment THEN "insert" ELSE "publish"]
  /\ UNCHANGED <<consumerVars, feed, shipments, loaded, clerk, failures>>

\* repo.GetByOrderID
Load(w) ==
  /\ At(w, "load")
  /\ LET shipment == shipments[InHand(w).order] IN
       /\ loaded' = [loaded EXCEPT ![w] = shipment.status]
       /\ step' = [step EXCEPT ![w] = IF shipment = NoShipment THEN "insert" ELSE "publish"]
  /\ UNCHANGED <<consumerVars, feed, shipments, clerk, failures>>

\* repo.Insert; when another delivery won the race, its row is loaded.
Insert(w) ==
  /\ At(w, "insert")
  /\ LET o == InHand(w).order IN
       \/ /\ shipments[o] = NoShipment
          /\ shipments' = [shipments EXCEPT ![o] = [status |-> "CREATED", version |-> 0]]
          /\ loaded' = [loaded EXCEPT ![w] = "CREATED"]
          /\ step' = [step EXCEPT ![w] = "publish"]
       \/ /\ shipments[o] # NoShipment
          /\ step' = [step EXCEPT ![w] = "load"]
          /\ UNCHANGED <<shipments, loaded>>
  /\ UNCHANGED <<consumerVars, feed, clerk, failures>>

\* shipment.created goes out, again too, while the shipment w holds is open.
Republishes(w) == loaded[w] = "CREATED"

PublishCreated(w) ==
  /\ At(w, "publish")
  /\ \/ Republishes(w) /\ Publish("shipment.created", InHand(w).order)
     \/ ~Republishes(w) /\ UNCHANGED feed
  /\ Handled(w)
  /\ ForgetShipment(w)
  /\ UNCHANGED <<shipments, clerk, failures>>

CommitEvent(w) ==
  /\ CommitOffset(w)
  /\ UNCHANGED <<feed, shipments, step, loaded, clerk, failures>>

ConsumerStep(w) ==
  \/ FetchEvent(w) \/ Ignore(w) \/ PublishDeadLetter(w)
  \/ Load(w) \/ Insert(w) \/ PublishCreated(w) \/ CommitEvent(w)

\* An error of the database, of a publish or of a commit ends Run, as a crash.
StopConsumer(w) ==
  /\ failures < MaxFailures
  /\ failures' = failures + 1
  /\ loop[w] \in {"handle", "commit"}
  /\ Stop(w)
  /\ ForgetShipment(w)
  /\ UNCHANGED <<feed, shipments, clerk>>

RefuseCommit(w) ==
  /\ CommitRefused(w)
  /\ UNCHANGED <<feed, shipments, step, loaded, clerk, failures>>

RestartConsumer(w) ==
  /\ Restart(w)
  /\ UNCHANGED <<feed, shipments, step, loaded, clerk, failures>>

RebalanceConsumers(assignment) ==
  /\ Rebalance(assignment)
  /\ UNCHANGED <<feed, shipments, step, loaded, clerk, failures>>

-----------------------------------------------------------------------------
(* The API: Service.Dispatch and Service.Deliver.                          *)

\* The shipment is loaded and the aggregate allows the move.
Ask(c, move, o) ==
  /\ clerk[c] = Idle
  /\ shipments[o].status = Transition[move].from
  /\ clerk' = [clerk EXCEPT ![c] =
       [at |-> "update", order |-> o, move |-> move, version |-> shipments[o].version]]
  /\ UNCHANGED <<consumerVars, feed, shipments, step, loaded, failures>>

\* (mutant: UPDATE without the version)
RowMatchesAny(c) == TRUE

\* UPDATE ... WHERE id AND version
RowMatches(c) == shipments[clerk[c].order].version = clerk[c].version

\* (mutant: the publish does not wait for the row)
UpdateNotSaved(c) ==
  /\ clerk[c].at = "update"
  /\ clerk' = [clerk EXCEPT ![c].at = "publish"]
  /\ UNCHANGED <<consumerVars, feed, shipments, step, loaded, failures>>

\* repo.Update; no row affected is ErrConcurrency and the request ends.
Update(c) ==
  /\ clerk[c].at = "update"
  /\ LET o == clerk[c].order IN
       \/ /\ RowMatches(c)
          /\ shipments' = [shipments EXCEPT ![o] =
               [status |-> Transition[clerk[c].move].to, version |-> @.version + 1]]
          /\ clerk' = [clerk EXCEPT ![c].at = "publish"]
       \/ /\ ~RowMatches(c)
          /\ clerk' = [clerk EXCEPT ![c] = Idle]
          /\ UNCHANGED shipments
  /\ UNCHANGED <<consumerVars, feed, step, loaded, failures>>

PublishMove(c) ==
  /\ clerk[c].at = "publish"
  /\ Publish(Transition[clerk[c].move].event, clerk[c].order)
  /\ clerk' = [clerk EXCEPT ![c] = Idle]
  /\ UNCHANGED <<consumerVars, shipments, step, loaded, failures>>

\* An error of the database or of the publish, or a crash of the API.
FailRequest(c) ==
  /\ failures < MaxFailures
  /\ failures' = failures + 1
  /\ clerk[c] # Idle
  /\ clerk' = [clerk EXCEPT ![c] = Idle]
  /\ UNCHANGED <<consumerVars, feed, shipments, step, loaded>>

RequestStep(c) == Update(c) \/ PublishMove(c)

FulfillmentNext ==
  \/ \E type \in OrderEvents, o \in Orders \cup {Unparsable} : OrderEvent(type, o)
  \/ \E w \in Workers :
       \/ ConsumerStep(w) \/ StopConsumer(w) \/ RefuseCommit(w)
       \/ RestartConsumer(w)
  \/ \E assignment \in [Partitions -> Workers] : RebalanceConsumers(assignment)
  \/ \E c \in Clerks, move \in DOMAIN Transition, o \in Orders : Ask(c, move, o)
  \/ \E c \in Clerks : RequestStep(c) \/ FailRequest(c)
=============================================================================
