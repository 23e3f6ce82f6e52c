---------------------------- MODULE OrderService ----------------------------
(***************************************************************************)
(* The order service around its write side: requests place orders, relays  *)
(* drain the outbox into the topic, the projector builds the read model    *)
(* from the topic, and queries read it.  Several relays may run: each      *)
(* locks the rows of its batch and skips the locked ones.                  *)
(*                                                                         *)
(* The outbox is in commit order here.  Identity values can commit in      *)
(* another order, but the rows of one order cannot, and relays look at     *)
(* each row's own mark, so nothing in this module depends on it.           *)
(*                                                                         *)
(* The projector's dead letters are left out (PublishDeadLetter of Saga    *)
(* has the same loop), and so are the totals and times of the read model.  *)
(***************************************************************************)
EXTENDS Placement, TopicConsumer

CONSTANTS
  Relays,              \* outbox relay processes
  BatchSize,           \* rows a relay takes at once
  MaxRelayFailures,    \* bound: relay cycles that fail
  MaxStops             \* bound: crashes of the projector

ASSUME OrderServiceAssumption ==
  /\ BatchSize \in Nat \ {0}
  /\ MaxRelayFailures \in Nat
  /\ MaxStops \in Nat

\* The key of a message is its order's id.
ASSUME KeyAssumption ==
  /\ PartitionOf \in [OutboxRow -> Partitions]
  /\ \A m, n \in OutboxRow : m.order = n.order => PartitionOf[m] = PartitionOf[n]

VARIABLES
  marked,         \* outbox rows whose published_at is set
  batch,          \* batch[r]: rows relay r has locked
  unsent,         \* unsent[r]: those of them it has not published
  projection,     \* projection[o]: status in order_projections, or "NONE"
  relayFailures,
  stops

relayVars == <<marked, batch, unsent>>
vars == <<placementVars, consumerVars, relayVars, projection, relayFailures, stops>>

ProjectionStatus == {"NONE", "PENDING", "CONFIRMED", "CANCELLED"}

TypeOK ==
  /\ PlacementTypeOK
  /\ ConsumerTypeOK(OutboxRow)
  /\ marked \subseteq 1..Len(outbox)
  /\ relayed = Cardinality(marked)
  /\ batch \in [Relays -> SUBSET (1..Len(outbox))]
  /\ \A r \in Relays : unsent[r] \subseteq batch[r]
  /\ projection \in [Orders -> ProjectionStatus]
  /\ relayFailures \in 0..MaxRelayFailures
  /\ stops \in 0..MaxStops

Init ==
  /\ PlacementInit
  /\ ConsumerInit
  /\ marked = {}
  /\ batch = [r \in Relays |-> {}]
  /\ unsent = [r \in Relays |-> {}]
  /\ projection = [o \in Orders |-> "NONE"]
  /\ relayFailures = 0
  /\ stops = 0

-----------------------------------------------------------------------------
(* Writers: the placement handlers, and the saga that decides an order it  *)
(* has read of in the topic and can load.                                  *)

PlaceOrders ==
  /\ PlacementNext
  /\ UNCHANGED <<consumerVars, relayVars, projection, relayFailures, stops>>

Decide(o, decision) ==
  /\ [type |-> "order.placed", order |-> o] \in Sequence!ToSet(log)
  /\ Loadable(o)
  /\ MayRaise(Status(events[o]))
  /\ Record(o, decision)
  /\ UNCHANGED <<holder, request, answer, total, consumerVars, relayVars,
                 projection, relayFailures, stops>>

-----------------------------------------------------------------------------
(* RelayStore.DrainBatch.                                                  *)

Locked == UNION {batch[r] : r \in Relays}

\* (mutant: locked rows are not skipped)
AvailableLocked == {i \in 1..Len(outbox) : i \notin marked}

Available == {i \in 1..Len(outbox) : i \notin marked /\ i \notin Locked}

\* The oldest n rows of S.
Oldest(n, S) == {i \in S : Cardinality({j \in S : j < i}) < n}

\* SELECT ... ORDER BY id LIMIT n FOR UPDATE SKIP LOCKED.
Claim(r) ==
  /\ batch[r] = {}
  /\ Available # {}
  /\ batch' = [batch EXCEPT ![r] = Oldest(BatchSize, Available)]
  /\ unsent' = [unsent EXCEPT ![r] = Oldest(BatchSize, Available)]
  /\ UNCHANGED <<placementVars, consumerVars, marked, projection, relayFailures, stops>>

\* Publisher.Publish: the rows go out one after the other.
Send(r) ==
  /\ unsent[r] # {}
  /\ \E i \in Oldest(1, unsent[r]) :
       /\ Produce(<<outbox[i]>>)
       /\ unsent' = [unsent EXCEPT ![r] = @ \ {i}]
  /\ UNCHANGED <<placementVars, marked, batch, projection, relayFailures, stops>>

\* (mutant: the batch is marked whether it was published or not)
AllSentIgnored(r) == batch[r] # {}

AllSent(r) == batch[r] # {} /\ unsent[r] = {}

\* UPDATE outbox SET published_at, and the commit that releases the locks.
Mark(r) ==
  /\ AllSent(r)
  /\ marked' = marked \cup batch[r]
  /\ relayed' = relayed + Cardinality(batch[r])
  /\ batch' = [batch EXCEPT ![r] = {}]
  /\ unsent' = [unsent EXCEPT ![r] = {}]
  /\ UNCHANGED <<events, outbox, holder, request, answer, total, consumerVars,
                 projection, relayFailures, stops>>

\* A failed publish, mark or commit, or a crash: all rows stay unmarked.
FailCycle(r) ==
  /\ relayFailures < MaxRelayFailures
  /\ relayFailures' = relayFailures + 1
  /\ batch[r] # {}
  /\ batch' = [batch EXCEPT ![r] = {}]
  /\ unsent' = [unsent EXCEPT ![r] = {}]
  /\ UNCHANGED <<placementVars, consumerVars, marked, projection, stops>>

RelayStep(r) == Claim(r) \/ Send(r) \/ Mark(r)

-----------------------------------------------------------------------------
(* The projector.                                                          *)

FetchEvent(w) ==
  /\ Fetch(w)
  /\ UNCHANGED <<placementVars, relayVars, projection, relayFailures, stops>>

\* (mutant: an update instead of an upsert)
UpdateOrderPlaced(status) == IF status = "NONE" THEN "NONE" ELSE "PENDING"

\* UpsertOrderPlaced: the version is 1 in every placement, so its guard
\* admits any row there is, a decided one too.
UpsertOrderPlaced(status) == "PENDING"

\* (mutant: any decision confirms)
UpdateStatusConfirmed(status, decision) ==
  IF status = "NONE" THEN "NONE" ELSE "CONFIRMED"

\* UpdateStatus: without a row nothing happens.
UpdateStatus(status, decision) ==
  IF status = "NONE" THEN "NONE" ELSE StatusOf(decision)

\* Service.Apply: one statement on the read model.
Apply(w) ==
  /\ loop[w] = "handle"
  /\ LET event == InHand(w) IN
       projection' = [projection EXCEPT ![event.order] =
         IF event.type = "order.placed" THEN UpsertOrderPlaced(@)
         ELSE UpdateStatus(@, event.type)]
  /\ Handled(w)
  /\ UNCHANGED <<placementVars, relayVars, relayFailures, stops>>

CommitEvent(w) ==
  /\ CommitOffset(w)
  /\ UNCHANGED <<placementVars, relayVars, projection, relayFailures, stops>>

ProjectorStep(w) == FetchEvent(w) \/ Apply(w) \/ CommitEvent(w)

StopProjector(w) ==
  /\ stops < MaxStops
  /\ stops' = stops + 1
  /\ loop[w] # "down"
  /\ Stop(w)
  /\ UNCHANGED <<placementVars, relayVars, projection, relayFailures>>

RestartProjector(w) ==
  /\ Restart(w)
  /\ UNCHANGED <<placementVars, relayVars, projection, relayFailures, stops>>

RebalanceProjectors(assignment) ==
  /\ Rebalance(assignment)
  /\ UNCHANGED <<placementVars, relayVars, projection, relayFailures, stops>>

Next ==
  \/ PlaceOrders
  \/ \E o \in Orders, decision \in Decisions : Decide(o, decision)
  \/ \E r \in Relays : RelayStep(r) \/ FailCycle(r)
  \/ \E w \in Workers :
       ProjectorStep(w) \/ StopProjector(w) \/ RestartProjector(w)
  \/ \E assignment \in [Partitions -> Workers] : RebalanceProjectors(assignment)

Spec == Init /\ [][Next]_vars

(***************************************************************************)
(* Fairness: relays poll for ever, the projector goes on and is restarted. *)
(***************************************************************************)
Fairness ==
  /\ \A r \in Relays : WF_vars(RelayStep(r))
  /\ \A w \in Workers : WF_vars(ProjectorStep(w)) /\ WF_vars(RestartProjector(w))

FairSpec == Spec /\ Fairness

-----------------------------------------------------------------------------
\* (mutant: an order without a row in the read model is not found)
ReadProjectionOnly(o) ==
  IF projection[o] # "NONE" THEN projection[o] ELSE "NOT_FOUND"

\* GetOrderHandler.Handle: the read model, or else the event store (which
\* cannot load an order whose total is negative).
Read(o) ==
  CASE projection[o] # "NONE" -> projection[o]
    [] projection[o] = "NONE" /\ Loadable(o) -> Status(events[o])
    [] OTHER -> "ERROR"

(***************************************************************************)
(* A client reads a status its order has or had, never one it has not      *)
(* reached, and finds the order from the moment its placement is answered  *)
(* (get_order.go: the fallback preserves read-your-writes).                *)
(***************************************************************************)
ReadsAreTrue ==
  \A o \in Orders :
    Placed(o) /\ Loadable(o) => Read(o) \in {"PENDING", Status(events[o])}

(***************************************************************************)
(* A row is marked published only when it is in the topic: whatever relays *)
(* overlap or fail in the middle of a batch, no event is lost.             *)
(***************************************************************************)
MarkedIsPublished ==
  \A i \in marked : outbox[i] \in Sequence!ToSet(log)

\* The type of the last event about o in the topic.
LastInLog(o) ==
  LET backwards == Sequence!Reverse(log)
  IN  backwards[Sequence!SelectInSeq(backwards, LAMBDA e : e.order = o)].type

\* The group is past every message of p, and no worker has one in hand.
CaughtUp(p) ==
  /\ \A i \in DOMAIN log : PartitionAt(i) = p => Passed(i)
  /\ \A w \in Workers : loop[w] \in {"handle", "commit"} => PartitionAt(current[w]) # p

(***************************************************************************)
(* When the projector has read a partition to its end, the read model      *)
(* shows the status of every order of it whose latest event comes last in  *)
(* the topic, although duplicates set decided orders back to PENDING in    *)
(* between.                                                                *)
(***************************************************************************)
CaughtUpIsCurrent ==
  \A e \in Sequence!ToSet(log) :
    LET o == e.order IN
      CaughtUp(PartitionOf[e]) /\ LastInLog(o) = events[o][Len(events[o])]
        => projection[o] = Status(events[o])

(***************************************************************************)
(* Every placed order shows up in the read model, in spite of failed relay *)
(* cycles and crashes of the projector.                                    *)
(***************************************************************************)
EveryOrderShown ==
  \A o \in Orders : Placed(o) ~> projection[o] # "NONE"
=============================================================================
