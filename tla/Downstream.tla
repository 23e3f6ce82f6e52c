----------------------------- MODULE Downstream -----------------------------
(***************************************************************************)
(* What follows an order: the order topic feeds the fulfillment service,   *)
(* and the notification service reads the order topic and the shipment     *)
(* topic the fulfillment service publishes to.  The two services share     *)
(* nothing but the topics.                                                 *)
(***************************************************************************)
EXTENDS Fulfillment, FiniteSets

CONSTANTS
  Mailers,             \* workers of the notification service
  MailPartitions,      \* partitions of the two topics
  MailPartitionOf,     \* MailPartitionOf[m]: the one of them m is written to
  MaxMailRebalances,   \* bound: rebalances of the notification group
  MaxMailStops,        \* bound: stops of the notification workers
  MaxFaults            \* bound: faults, rebalances and unparsable messages together

ASSUME DownstreamAssumption ==
  /\ MailPartitionOf \in [Message -> MailPartitions]
  /\ MaxMailRebalances \in Nat
  /\ MaxMailStops \in Nat
  /\ MaxFaults \in Nat

VARIABLES
  mailCommitted, mailOwner, mailPosition, mailCurrent, mailLoop,
  mailDeadLetters, mailRebalances,   \* the notification group, on feed
  recorded, sent, sending, stops

Mail == INSTANCE Notification WITH
  Workers <- Mailers, Partitions <- MailPartitions, PartitionOf <- MailPartitionOf,
  MaxRebalances <- MaxMailRebalances, MaxStops <- MaxMailStops,
  log <- feed, committed <- mailCommitted, owner <- mailOwner,
  position <- mailPosition, current <- mailCurrent, loop <- mailLoop,
  deadLetters <- mailDeadLetters, rebalances <- mailRebalances

mailVars ==
  <<mailCommitted, mailOwner, mailPosition, mailCurrent, mailLoop,
    mailDeadLetters, mailRebalances, recorded, sent, sending, stops>>

vars == <<fulfillmentVars, mailVars>>

TypeOK ==
  /\ FulfillmentTypeOK
  /\ Mail!ConsumerTypeOK(Message)
  /\ recorded \subseteq Message
  /\ DOMAIN sent \subseteq recorded
  /\ sending \in [Mailers -> BOOLEAN]
  /\ stops \in 0..MaxMailStops

Init == FulfillmentInit /\ Mail!NotificationInit

Faults ==
  failures + rebalances + stops + mailRebalances
    + Cardinality({i \in DOMAIN log : log[i].order = Unparsable})

Next ==
  /\ \/ FulfillmentNext /\ UNCHANGED mailVars
     \/ Mail!NotificationNext
        /\ UNCHANGED <<consumerVars, shipments, step, loaded, clerk, failures>>
  /\ Faults' <= MaxFaults

Spec == Init /\ [][Next]_vars

(***************************************************************************)
(* Fairness: a consumer that can go on does, and the supervisor restarts a *)
(* stopped one.  Never both at once: one condition covers them.  Nobody    *)
(* has to dispatch a shipment.                                             *)
(***************************************************************************)
Fairness ==
  \A w \in Workers :
    WF_vars((ConsumerStep(w) \/ RestartConsumer(w)) /\ UNCHANGED mailVars)

FairSpec == Spec /\ Fairness

-----------------------------------------------------------------------------
CountIn(topic, type, o) ==
  Cardinality({i \in DOMAIN topic : topic[i] = [type |-> type, order |-> o]})

Reached(status) ==
  CASE status = "NONE" -> {}
    [] status = "CREATED" -> {"shipment.created"}
    [] status = "DISPATCHED" -> {"shipment.created", "shipment.dispatched"}
    [] status = "DELIVERED" -> ShipmentEvents

(***************************************************************************)
(* Every shipment event tells of a state the shipment has reached: nobody  *)
(* is told of a parcel that is not on its way, whoever fails or loses a    *)
(* race between the write and the publish.                                 *)
(***************************************************************************)
ShipmentEventsBacked ==
  \A o \in Orders, type \in ShipmentEvents :
    InTopic(feed, type, o) => type \in Reached(shipments[o].status)

(***************************************************************************)
(* Of two requests that dispatch (or deliver) a shipment at once only one  *)
(* announces it: the version in the UPDATE decides (service.go: an event   *)
(* on each real state change).                                             *)
(***************************************************************************)
MovesAnnouncedOnce ==
  \A o \in Orders : /\ CountIn(feed, "shipment.dispatched", o) <= 1
                    /\ CountIn(feed, "shipment.delivered", o) <= 1

\* The group is past a confirmation of o.
PastConfirmation(o) ==
  \E i \in DOMAIN log :
    log[i] = [type |-> "order.confirmed", order |-> o] /\ Passed(i)

(***************************************************************************)
(* Once the group is past a confirmation, the order has a shipment, and    *)
(* shipment.created was published or is so no longer due since the         *)
(* shipment has moved on.                                                  *)
(***************************************************************************)
CreatedAnnouncedWhileOpen ==
  \A o \in Orders :
    PastConfirmation(o) =>
      /\ shipments[o] # NoShipment
      /\ shipments[o].status = "CREATED" => InTopic(feed, "shipment.created", o)

(***************************************************************************)
(* service.go: a created event lost to a publish failure is recovered by   *)
(* the redelivery of the confirmation.  Not when a clerk dispatches the    *)
(* shipment before: the redelivery then finds it no longer open.           *)
(***************************************************************************)
CreatedIsAnnounced ==
  \A o \in Orders : PastConfirmation(o) => InTopic(feed, "shipment.created", o)

(***************************************************************************)
(* The customer gets a notification of an event at most once, although     *)
(* messages are delivered again and published again.                       *)
(***************************************************************************)
NotifiedAtMostOnce == \A k \in DOMAIN sent : sent[k] <= 1

\* The event at offset i of the feed was notified or could not be rendered.
Settled(i) == feed[i] \in DOMAIN sent \/ feed[i].order = Unparsable

(***************************************************************************)
(* Nothing goes without a notification but what a stop between the record  *)
(* and the sending has cost: the messages the group is past and the        *)
(* customer was not told of are no more than the stops and the sends in    *)
(* hand.                                                                   *)
(***************************************************************************)
LossesAreFailures ==
  Cardinality({feed[i] : i \in {j \in DOMAIN feed : Mail!Passed(j) /\ ~Settled(j)}})
    <= stops + Cardinality({w \in Mailers : sending[w]})

(***************************************************************************)
(* A confirmed order gets its shipment, in spite of crashes, rebalances    *)
(* and messages that cannot be parsed.                                     *)
(***************************************************************************)
ConfirmedShips ==
  \A o \in Orders :
    InTopic(log, "order.confirmed", o) ~> shipments[o] # NoShipment
=============================================================================
