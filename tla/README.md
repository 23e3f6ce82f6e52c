# Formal specification of the order fulfillment platform

TLA+ modules, TLC configurations and TLAPS proofs for the event-driven order
fulfillment platform: five services (order, inventory, fulfillment and
notification in Go, payment in Java) that share no database and talk over HTTP
and Kafka. All five are modelled: the order service from the idempotency key to
the read model, the saga that decides orders, the transactions of the inventory
and payment services, and the two services that react to what was decided.

Paths below are relative to the repository; `order/...` stands for
`services/order/internal/...` and likewise for the other services.

    tlasany M.tla                              parse
    tlc -workers 2 -config X.cfg MCModule.tla  model-check (X.cfg: see "Runs")
    tlapm SagaProofs.tla                       check proofs

## 1. Inventory of the system

| component | state it keeps | operations | module |
|---|---|---|---|
| Order API, placement (`order/app/command/place_order.go`) | `order_events`, `outbox`, `idempotency_keys` | place an order under an idempotency key | `Placement` |
| Order aggregate and event store (`order/domain/order`, `order/infra/postgres/order_repository.go`) | events by `(order_id, version)`, outbox rows | place, confirm, cancel, rehydrate | `OrderStore` |
| Outbox relay (`order/infra/postgres/relay_store.go`, `order/worker/relay`) | `outbox.published_at` | drain a batch in id order, publish, mark | `OrderService`; one relay: `Saga.Relay*` |
| Projection and order query (`order/infra/postgres/projection_repository.go`, `order/app/query`) | `order_projections` | upsert, update status, get | `OrderService` |
| Saga orchestrator (`order/app/saga`, `order/infra/postgres/saga_repository.go`) | `saga_instances`, the instance in memory | handle `order.placed`: reserve, authorize, commit, confirm, or release and cancel | `Saga` |
| Consume loop (`order/worker/orchestrator/worker.go`, and the same loop in the other consumers) | Kafka offsets | fetch, handle, dead-letter, commit | `TopicConsumer` |
| Inventory service (`inventory/infra/postgres/inventory_repository.go`, `inventory/domain`) | `stock_items`, `reservations`, `reservation_lines` | reserve, release, commit, upsert stock | `InventoryLedger` (contract), `Inventory` (transactions) |
| Payment service (Java) | `payments`, `webhook_events` | capture, webhook, reconciliation sweep | `PaymentDesk` (contract), `Payments` (transactions) |
| Fulfillment service | `shipments` | create on `order.confirmed`, dispatch, deliver | `Fulfillment` |
| Notification service | `notifications` | record and send | `Notification` |
| Migrations, configuration, telemetry, middleware | schema version | apply at start | not modelled (see 7) |

How they interact:

    client --HTTP--> placement --tx--> events + outbox --relay--> topic orders.events
       ^                                                              |
       +---- query <---- order_projections <------ projector ---------+
            +----------------------- consume loop --------------------+
            v                                                         v
        orchestrator --HTTP--> inventory (reserve/release/commit)  fulfillment <--HTTP-- clerks
                     --HTTP--> payment   (authorize) <-- webhooks     |
                     --tx----> saga_instances; events + outbox        v
                                                       shipment events --> notification

What is hard about it:

- **Crash between effect and record.** Each saga step performs a remote effect
  and saves the row afterwards; a capture charges before its row exists;
  fulfillment publishes after it wrote; notification sends after it recorded.
- **Partitions.** The topic has several, read by one process: while a message
  waits for its redelivery, orders of other partitions go on and move the stock
  it depends on.
- **Two workers on one message.** A Kafka rebalance leaves the old worker in the
  middle of a message, in every consumer. The saga row is overwritten
  unconditionally; only the event store has a version.
- **Calls that outlive their caller.** A call that timed out may be executed
  after the saga has resumed or finished.
- **Errors that never clear.** The loops restart on every error; an error that
  repeats deterministically blocks the partition.
- **Optimistic concurrency** in inventory (with row locks), payment and
  fulfillment, next to writes that have no version.
- **Events that leave before the commit** (payment) **or are repeated after it**
  (relay), possibly behind later events of the same order.

What makes each component correct:

- *Placement*: one order per key; totals exact while they fit.
- *Order store*: at most one decision, after the placement.
- *Relay and read model*: nothing is marked that is not published; a caught-up
  read model is current; a read is true; every order shows up.
- *Consume loop*: nothing is skipped; the partition is drained.
- *Saga*: a cancelled order the group is done with holds neither stock nor
  money, a confirmed one is paid for and committed; the row moves forward and
  agrees with the order; every published order is decided.
- *Inventory*: it implements the ledger (`reserved` is what HELD reservations
  hold, a reservation is settled once), loses no update, locks in one
  order, answers every request.
- *Payment*: it implements the desk; answers agree; a webhook recorded took
  effect; no move is announced again; what is captured gets reconciled.
- *Fulfillment*: events never run ahead of the shipment; each move is announced
  once; a confirmed order ships.
- *Notification*: at most one message per event; when none, a stop was the cause.

`PROJECT.json` lists the hazards with their lines and the properties aimed at
them.

## 2. Modules

    SumProofs                   lemmas on sums over finite sets and recursions
    Domain                      the orders
      InventoryLedger           what Inventory promises (abstract)
        InventoryLedgerProofs
      Inventory                 how it keeps the promise; INSTANCE InventoryLedger
        InventoryProofs
      PaymentDesk               what Payment promises (abstract)
        Payments                how it keeps the promise (DeskSpec as a property)
          PaymentsProofs
      OrderStore                events, versions, outbox
        OrderStoreProofs        lemmas shared by SagaProofs and OrderServiceProofs
        Placement               keys and totals
    TopicConsumer               the partitions of a topic, one consumer group
    Saga                        EXTENDS InventoryLedger, PaymentDesk, OrderStore,
                                TopicConsumer: the composed system
      SagaProofs
    OrderService                EXTENDS Placement, TopicConsumer: placement,
                                relays, projector, query
      OrderServiceProofs
    Fulfillment                 EXTENDS TopicConsumer: consumers and clerks
    Notification                EXTENDS TopicConsumer
    Downstream                  EXTENDS Fulfillment; INSTANCE Notification on the
                                topic Fulfillment publishes to
      DownstreamProofs
    MCInventory, MCSaga, MCOrderService, MCPayments, MCDownstream
                                instances for TLC

The saga is composed with the *abstract* ledger and desk: `Inventory` is shown
to implement `LedgerSpec` (run `inventory_serial` and a proof), `Payments` to
implement `DeskSpec` (run `payments` and a proof), so the saga's runs stay
small. The first refinement holds as long as two transitions of one order do not
overlap. One orchestrator keeps to that, and with one the saga uses the ledger
only as the contract says (`SagaKeepsLedger`). Where callers may overlap (two
orchestrators, abandoned calls) the contract is not what Inventory does, so
`Saga` does not rely on it: it takes a call to Inventory in two steps, one that
reads the reservation and one that writes, and the write asks the reservation
again only as far as the code does (below).

### InventoryLedger

`Reserve(o, reply)`, `Transition(o, target, reply)` (release and commit) and
`SetStock` are one step each. `Take` and `Unhold` are their writes alone, for a
caller that has read the reservation before: `Unhold` asks only that the units
are still in the counters (`CanUnhold`), as the versioned UPDATE of
`stock_items` and the unconditional UPDATE of `reservations` do, so a RELEASED
reservation can become COMMITTED. Order ids stand for reservation ids: the table is
unique on `order_id`. A SKU without a row is one with nothing available, both
decline. `Demand[o][s]` is what the lines of an order add up to.

### Inventory

One action per SELECT and UPDATE of `reserveOnce` and `transitionOnce`. Each
handler `h` has a program counter `at[h]`, the rows its transaction read
(`seen`) and the rows it wrote and therefore has locked (`wrote`). An UPDATE
waits for a row another transaction has locked and then compares versions
(READ COMMITTED re-evaluates the WHERE clause); a mismatch is `Retry`, up to
`MaxAttempts`. The last statement of a transaction and its COMMIT are one step:
until then the writes are visible to nobody, and nobody else can be about to
write the same rows. `InsertReservation` meets the unique index on `order_id`
(`replay`). `Abort` is a lost connection, a cancelled request or a crash of a
replica at any statement. `DeadlockVictim` is PostgreSQL's deadlock detector.
`GoRank` and `DbRank` are the two orders in which SKUs get sorted: bytewise in
Go, and by the database's collation in `ORDER BY sku`.

### OrderStore

`events[o]` is the sequence of event types; its length is the version.
`VersionFree` is the unique constraint. `Record` writes event and outbox row
together, as `Save` does. `MayRaise` and `AlreadyDecided` are the branches of
`Order.Confirm` and `Order.Cancel`: a repeat of the decision taken is no error
and no event.

### TopicConsumer

One log with the messages of all partitions in the order they were written;
`PartitionOf` gives each its partition, and an order's messages share one
(`KeyAssumption`: the relay uses the order id as the key). Offsets are indexes
into the log. For each partition there is the group's committed offset, the
owner, and how far the owner's reader is; for each worker the message in hand
and the place in `Run`. `Fetch` takes the next message of any partition the
worker owns. `Rebalance` assigns all partitions anew (perhaps as before) at the
committed offsets without telling the old owners, who finish what they do; the
commit of one is refused (`CommitRefused`) or accepted (`CommitOffset`, since the
reader commits under the generation it joined meanwhile), which may move the
offset backwards.

### Saga

| action | code |
|---|---|
| `FetchMessage`, `IgnoreEvent`, `PublishDeadLetter`, `Commit`, `LoseCommit` | `worker.go` `Run`, `handlePlaced` |
| `LoadSaga`, `SaveSaga` | `Handle`, `SagaRepository.Load`, `Save` |
| `ReserveStock` / `TakeStock`, `ReleaseStock` / `FinishRelease`, `CommitStock` / `FinishCommit` | the calls to Inventory: the service reads the reservation and answers, or goes on to write |
| `AuthorizePayment` | the call to Payment |
| `LoadToConfirm` / `AppendConfirm`, `LoadToCancel` / `AppendCancel` | `ConfirmOrderHandler`, `CancelOrderHandler`: load, decide; append at that version |
| `Fail` | a transient error or crash at any point; the call in flight may become a `late` one |
| `LateCallGoesOn`, `LateCallWrites`, `LateCallEnds` | the service reads for an abandoned call, writes for it, or ends it without a trace |
| `RestartWorker`, `RebalanceTo` | the supervisor, the consumer group |
| `Relay`, `RelayUnmarked`, `ProduceUnparseable` | `DrainBatch`; the same failing before its commit; a poison message |
| `ProviderMoves`, `CorrectStock` | webhook and sweep; `PUT /v1/stock` |

An error that stays (an illegal transition, a lost version race, NOT_FOUND, a
4xx of the payment service) stops the worker in the step that meets it
(`GiveUp`); it does not count as a fault. `inst[w].held` is `ReservationHeld`,
which the code writes and stores and never reads.

### Placement and OrderService

Every request generates its order id before it reserves the key, so `request[o]`
is the request that generated `o`. `ReserveKey` is the `INSERT ... ON CONFLICT
DO NOTHING` and the answer for a key that is taken; `SaveOrder` builds the
aggregate, which may still reject the body, and saves it. Between the two
`FailRequest` leaves a key that names no order. `LineTotal` and `Total` are
integers of a small width (`Half`) that wrap as int64 does; an order whose total
has wrapped below zero is stored and cannot be loaded (`Loadable`).

| action | code |
|---|---|
| `Receive`, `ReserveKey`, `SaveOrder`, `FailRequest` | `PlaceOrderHandler.Handle` |
| `Decide` | the saga's effect on the store: an order it has read of and can load is decided |
| `Claim`, `Send`, `Mark`, `FailCycle` | `DrainBatch`: the locking SELECT, the publish row by row, UPDATE and commit, an error anywhere |
| `FetchEvent`, `Apply`, `CommitEvent` | the projector's `Run`, `Service.Apply` with its SQL statement |
| `StopProjector`, `RestartProjector`, `RebalanceProjectors` | crash, supervisor, consumer group |
| `Read` (an operator) | `GetOrderHandler.Handle` |

### Payments

Each thread runs one transaction at a time: `tx[p]` has its stage, the versions
it read and the statuses it plans to write. Hibernate writes at the end, so the
unique `order_id` and the `@Version` check decide in `Commit`: all of the plan
or nothing. The dedupe row of a webhook has an assigned id and no version, so
`save` merges it: `RecordWebhook` is its SELECT, which schedules an INSERT if the
row is not there and nothing otherwise, and only an INSERT can be refused
(`InsertRefused`). The charge (`charges`) and the Kafka records (`announced`, the
copies of each event, counted up to `MaxCopies`) are effects no rollback takes
back, and a record may be lost (`Publish`).

| action | code |
|---|---|
| `LookUp`, `Charge`, `PublishEvent`, `Commit` | `PaymentService.capture` |
| `Receive`, `RecordWebhook`, `Locate`, `PublishEvent`, `Commit` | `ReconciliationService.handleWebhook` |
| `BeginSweep`, `SweepOne`, `Commit` | `sweepStaleCaptured`, one transaction for all stale payments |
| `Crash` | a crash or failed call anywhere in a transaction |

### Fulfillment, Notification, Downstream

`step[w]` and `loaded[w]` are the place and the local variable of
`CreateForOrder`; `clerk[c]` is a dispatch or deliver request between its load,
its versioned UPDATE and its publish. `feed` is what a reader of both topics
receives, in one of the orders it may receive it. `Notification` records the key
(type, order), sends, and commits; a stop between record and send loses the
message. `Downstream` gives each service its own consumer group and bounds the
faults of both, unparsable messages included, together (`MaxFaults`); what a
crash next to a poison message does to the same loop is in the saga's runs.

## 3. Runs

| run | instance | what it shows |
|---|---|---|
| `saga_crash` | 1 worker, 2 partitions with 1 order each (one of total 0) for one unit, 1 fault, stock corrections, 1 duplicate, fair | money and stock agree with the decision once the group is done with an order; rows move forward; every published order is decided and every partition drained, but for the partition of a stuck saga |
| `saga_zombie` | 2 workers, 1 order, 2 faults, 1 rebalance, 1 late call, 1 duplicate, stock corrections | one decision, row agrees with order, nothing skipped, a confirmed order was paid for and has its stock unless the money went back |
| `inventory_serial` | 2 handlers, 2 orders, 2 SKUs, 1 correction | implements `LedgerSpec`; no lost update; no cycle of lock waits when both sort orders agree |
| `inventory_live` | 2 handlers, opposite sort orders, fair | every request is answered in spite of deadlocks |
| `order_service` | 2 requests with one key and 3 bodies, 2 partitions, 2 relays, 1 failed cycle, projector with 1 crash and 1 rebalance, fair | one order per key, exact totals, nothing marked unsent, true reads, every order shown |
| `payments` | 1 order, 2 request threads, 1 sweeper, all 4 webhooks, 1 crash, fair | implements `DeskSpec`; answers and records agree with the row; captured is reconciled |
| `downstream` | 1 order, 1 partition per group, 2 consumers, 2 clerks, 1 mailer, 2 order events, one fault of any kind (a poison message is one), fair | events follow the shipment, moves announced once, at most one notification, confirmed ships |
| `saga_recharge`, `inventory_double`, `payment_twice`, `payment_reemits`, `fulfillment_lost` | as small as the behaviour needs | the findings below |

Bounds, and why they are enough for what the runs ask:

- *Orders and partitions.* In the saga orders interact through stock and
  through their place in a partition only. Two orders in two partitions for one
  unit give the decline, the cancellation and the release that makes room
  between a crash and the redelivery; a duplicate and a poison message stand
  behind a placement in its partition. `saga_zombie` has one order: with two,
  more than 19 million states were found without an end in sight. With one order
  `CanUnhold` refuses the second of two overlapping transitions, so a
  reservation that goes from RELEASED to COMMITTED is covered by
  `inventory_double` and by the theorem `ConfirmedOrdersAreBacked` only, not by
  this run. `downstream` gives each group one partition (two for the mailer take
  it past what a run may last); the theorems have any number. Payments and
  shipments of different orders do not interact but through the sweep's
  transaction; what several orders in one sweep could do is covered by the
  proofs. Two requests with one key are what can conflict; two keys were run
  once by hand without liveness (5.1 million states, no error).
- *Faults.* `saga_zombie` has 2: a fault between an effect and its record, and a
  second one in the resumed run; so has `saga_recharge`, one in each partition.
  Elsewhere 1, next to stock corrections or a second thread, relay or clerk,
  which are other sources of partial runs.
- *`MaxRebalances` 1.* One zombie; none in `saga_crash`, whose one worker would
  only be given its partitions again. *`MaxCopies` 2* in `payment_reemits`: one
  copy too many; 1 in `payments`, where no property counts copies. *`MaxLate` 1.* One abandoned call at a time,
  any number over time. *`MaxDuplicates` 1, `MaxEvents` 2.* One message sent
  again or one poison message, anywhere.
- *`MaxAttempts` 2* instead of 5: an attempt that succeeds after a conflict and
  one that gives up; attempts keep no state from one to the next.
- *`BatchSize` 2, two relays*: overlapping claims, a batch that fails when half
  of it is out. *`Half` 8*: `SmallBodies` holds a total that fits, one that
  wraps below zero and a body that is rejected after its key was reserved.
- *`MaxStock` 1 or 2*: enough for one, for all, for none.
- Symmetry of workers and handlers only in runs without fairness on them; in
  `inventory_serial` the refined variables do not mention handlers. `downstream`
  permutes the clerks only, which no fairness condition or property names.

Deadlock checking is off where the system comes to rest when its bounds are
used up. The inventory runs check it.

### What the saga's properties assume

`ClosedHoldsNoStock`, `ClosedIsNotCharged`, `ConfirmedIsPaidAndCommitted` and
`SagaMovesForward` are for one orchestrator and no call that is executed after
its caller gave up. The upsert of the saga row has no guard, so a worker that
lost its partition can put an older state back and repeat steps; a late reserve
can take stock for an order that is decided. For several workers and late calls
there are `OneDecision`, `RowAgreesWithOrder`, `NothingSkipped` and
`ConfirmedIsBacked`, which need neither assumption.

A cancelled order may hold stock and be charged for a while: when the worker
stopped before it saved the CANCELLED row, the resumed saga starts from the old
one, and stock that has come back in the meantime, by a correction or by the
saga of an order in another partition, is reserved for it (`saga_recharge`).
What the code does guarantee is that such a saga never gets past Confirm: its
row stays PAID, and the group does not commit its message. The two `Closed`
properties say so: of an order the group is *done* with, the row terminal or the
message passed. And the liveness properties except the partition of such a saga
(`Stuck`, `Wedged`), and no other.

Likewise `order_service` gives the partition back to the one projector:
with two of them an old event can be applied last, and the read model stays
behind (the helm chart runs one).

Operators marked "(mutant: ...)" are wrong versions of the definition below
them. No specification uses them: they record which mistake in the code each
property detects (`mutants` in `PROJECT.json`).

## 4. Fairness

`Saga.FairSpec`: weak fairness of every worker's next step (a process that is
not blocked runs; calls have timeouts), of restarting a stopped worker
(`restart: on-failure` of the orchestrator in `docker-compose.yml`, the restart
policy of a Deployment in Kubernetes) and of the relay (`relay.go` polls for
ever). Strong fairness of each worker's fetch from each partition: the reader
fetches from its partitions in parallel and delivers what has arrived, so a
partition that always has a message is not passed over for ever because another
one is redelivered again and again; the condition is strong because the worker
can fetch only between two messages. None for clients, the provider, operators, faults or rebalances. Faults
are finite, as they must be for any progress.

`Inventory.FairSpec`: strong fairness of a handler's statement, since a
statement that waits for a row lock is enabled only now and then and
PostgreSQL queues the waiters; weak fairness of the deadlock detector
(`deadlock_timeout`).

`OrderService.FairSpec`: weak fairness of each relay's and each projector's next
step and of the projector's restart. None for clients and decisions.

`Payments.FairSpec`: weak fairness of the sweep: the scheduler calls it
(`@Scheduled`) and its transaction goes on. None for request threads. `CapturedIsReconciled` also uses
that the instance's provider answers SETTLED or FAILED when asked: a provider
that says PENDING for ever keeps a payment captured, as it should.

`Downstream.FairSpec`: weak fairness of each consumer, whose next step is one of
its loop or, when it is down, its restart; one condition covers both.
With one partition per group in the run nothing is assumed of the choice between
partitions. Nobody has to dispatch a shipment.

## 5. Proofs

Assumptions are those on the constants (`LedgerAssumption`, `KeyAssumption`,
`InventoryAssumption`, `ConsumerAssumption`, `SagaAssumption`, `PaymentsAssumption`,
`PlacementAssumption`, `OrderServiceAssumption`, `FulfillmentAssumption`,
`DownstreamAssumption`): types, disjointness, non-emptiness and, of
the partitions, that the messages of an order share one. Nothing about sizes: the
theorems hold for any number of orders, SKUs, partitions, workers, threads,
relays and clerks and for any bounds on faults, rebalances, late calls and
duplicates.

`SumProofs` holds what the sums need. The library defines a sum over a finite
set, and the fold behind the totals, by a recursion over subsets that takes the
elements out one by one; its induction theorems cannot be instantiated here, so
induction over the naturals is proved from the least element of a nonempty set
(`Minimum`, `SetInduction`), and with it that such a recursion has a solution
(`RecursionExists`) and that an element that joins or leaves a set adds or
takes its share of the sum (`SumJoinsAndLeaves`).

`InventoryLedgerProofs`: `LedgerTypeCorrect` (stock never below zero) and
`LedgerReservedIsHeld`: the units reserved of a SKU are what the HELD
reservations hold of it, from one lemma per operation. These are about the
contract; that Inventory keeps it is `TransactionsImplementLedger`, under its
assumption.

`SagaProofs`: `TypeCorrect`, `DecidedOnce`, `RowsAgree`, `NoMessageSkipped`,
`ConfirmedOrdersAreBacked`. The first four come from one invariant, `IInv`. None of these is inductive alone. A row becomes terminal because a worker saved
an instance it had in memory; an offset is committed because a worker came to
the end of `Handle`. So `IInv` adds what a worker knows at each place:

- `LoopInv`: all messages of its partition before the one in hand need no
  attention any more (`Done`), and in state "commit" neither does the one in
  hand;
- `ReaderInv`: so it is for everything the reader of a partition has delivered,
  but for the message its owner works on. This is what
  makes an accepted commit of a worker that lost the partition harmless, and
  why `RestartWorker` must go back to the committed offset;
- `HandlerInv`: inside the handler the message is a placement; a decision is
  about to be appended at version 1 only; an instance about to be saved agrees
  with its order.

The argument has two halves. `Grows` says what every step does to shared state:
the log is appended to, dead letters are kept, the history of a decided order
does not change. `UntouchedKeepsInv` shows that such a step keeps the knowledge
of every worker that takes no part in it. Then there is one lemma per action,
which shows that it is growth, and that the worker that takes it knows
afterwards what it has to. `AppendDecisionKeepsInv` is where the version
constraint matters: a worker that appends at version 1 to a history of length 1
appends to a pending order, so nobody's knowledge of a decided one is touched.
`IInv` was checked with TLC on the instance of `saga_zombie` before it was
proved. `Done` also says of an order with a single worker that its row is
terminal (`Settled`), so the same invariant serves the last part.

`ConfirmedOrdersAreBacked` (`BackedInv`) is about the answer INVALID_STATE, which
the client takes for success of a commit. A reservation is released, by whatever
worker or abandoned call, only on a payment that is refused for good
(`Refused`: declined, refunded or failed); no step takes that back (`Backs`). So
a commit that finds it released leaves an order that was charged once and whose
money went back, and any other commit finds it committed.

`SagaKeepsDesk` shows that every step of the composed system is a step of the
desk or leaves it alone, whoever overlaps. `SagaKeepsLedger` says the same of the
ledger for a single orchestrator: between the read and the write of its call
nobody moves the reservation.

The last part of `SagaProofs` assumes a single orchestrator
(`SoleOrchestrator`: one worker process, and no call that takes effect after its
deadline); with more, the code does not keep these properties.
`ConfirmedOrdersArePaid`, `RowsMoveForward`, `ClosedOrdersAreNotCharged` and
`ClosedOrdersHoldNothing` hold then, for any number of partitions, with crashes,
redeliveries, rebalances, refunds and stock corrections in any number. `SoleInv`
says what the services hold for an order whose row is in a given state
(`OrderKnown`: the row may lag one call behind) and what each step of the handler
relies on (`StepKnown`). It says nothing of the order's own status for a row
STARTED, RESERVED or PAID: the order may be cancelled already, and stock may have
come back. It is the CANCELLED row that is saved only for an order that has
nothing (`MayCancel`), and `CommittedInv` that lets a message be passed only with
a terminal row.

`InventoryProofs`: `UpdatesAreNotLost`, `SortedRequestsDoNotDeadlock`,
`InventoryTypes`, and under `~Overlap` (an order has one transition under way at
a time, as with a single orchestrator) `TransactionsImplementLedger` and
`TransactionsKeepTheBooks`. A transaction knows of each row it has read
(`ReadInv`) that the row's version is not behind the one it saw, and that the
row is as it was read if the versions are equal, since every write moves the
version; of a row it has written (`WroteInv`) that it stays so under its lock. A
cycle of lock waits is excluded because a transaction writes its rows by
increasing rank (`WroteInv` again): take the one of a supposed cycle that waits
for the row of lowest rank; it has written only rows of lower rank, and another
of the cycle would have to wait for one of those. For the refinement, all
rows of a transaction take effect at its commit; `SerialInv` adds that the
reservation of a transition under way is still HELD then. That fails when two
transitions overlap, which is what run `inventory_double` finds. The books are
proved from the refinement: every ledger step keeps them, and they are about
committed rows only.

`PaymentsProofs`: `TypeCorrect`, `AnswersAgreeAlways`,
`RecordedTookEffectAlways` and the refinement `DeskImplemented`. What the service promises rests on what a transaction knows
of rows it does not lock. `Knows(t, o)`: the version it saw is not above the
row's; if they are equal, the row is as it was read and the planned move is
legal; that a webhook took effect it knows in any case, because no move takes
that back (`MovesAreStable`). `Carries` says which webhook goes with which plan.
A commit either finds all versions equal, and then each row makes a legal move
(`CommitMoves`), or writes nothing; the other transactions keep what they know
because a row they planned to write has a newer version now (`OthersStillFit`).
The refinement needs no more: every step moves `payment` legally or not at all
(`StepsImplement`).

`OrderServiceProofs`: `OneOrderPerKeyAlways` from `KeyInv` (a request acts, and
is answered, only for the id that holds its key), and `MarkedIsPublishedAlways`
from `RelayInv` (what a relay has locked and need not send any more is in the
topic). Neither needs that relays lock disjoint rows; `OrderServiceTypes` does,
since the count of marked rows is right only when no two relays mark the same
(`DrainInv`). `ReadsAreTrueAlways` follows the events: what each row of the
outbox and each message says of its order has happened (`Told`), which nothing
undoes because a decided history does not change; so what the projector writes,
late or twice, is a status the order has had. `TotalIsExactInRangeAlways` rests
on `TotalInv` (the stored total is the wrapping sum of the items) and on
`TotalFacts`: amounts are not negative, so no partial sum exceeds the exact
total, and when that one fits, no addition on the way wraps.
`CaughtUpIsCurrentAlways` is about one projector process (`OneProjector`), with
any number of partitions. What it applies of a partition is the last committed
message or the next one (`PlaceInv`: no message of the partition between the
committed ones and the one in hand, `AtTheEdge`, and a reader that is at most one
message behind). So at each moment the read model shows of every order what the
last message passed says of it, or what the first one not passed says
(`ShowInv`); when the partition is read to its end there is no such message. That
the messages of an order share a partition is used here. A second process can
apply an old message after the new owner has gone on, and the property is lost.

`DownstreamProofs`: `ShipmentEventsBackedAlways` from `ShipmentInv`: the version
of a shipment tells its status, so a request whose version still matches finds
the status it has read (`VersionTells`), and one that is about to publish has
made its move. `NotifiedAtMostOnceAlways` from `MailInv`: a worker about to send
holds a message that is recorded and not sent, and no two such workers hold the
same one, since only the worker whose insert went in comes to send. The run has
one notification worker (a second one makes it too large); the theorem has any
number. `CreatedAnnouncedWhileOpenAlways` follows the offsets of each partition
(`ConsumedInv`): of what its reader has delivered nothing has anything left to do
but the message the owner has in hand. `MovesAnnouncedOnceAlways` (`MovesInv`): no move is in the topic twice, and
none that a request is about to publish is there, since only the request that
moved the version publishes. `LossesAreFailuresAlways` keeps an account
(`LossInv`): the notifications recorded and not sent are no more than the
workers at their sending and the stops so far.

Only model-checked: liveness, all of it (`EveryPublishedOrderDecided`,
`PartitionDrained`, `EveryRequestAnswered`, `EveryOrderShown`,
`CapturedIsReconciled`, `ConfirmedShips`), for which the provers have no
`ENABLED`. Every invariant and every other action property of a passing run is
stated by a theorem, some of them under the assumptions named above: those of
`saga_crash` for one orchestrator, the refinement and the books of
`inventory_serial` without overlapping transitions of one order, `CaughtUpIsCurrent` for one
projector. The counterexamples of section 6 are about the code outside these
assumptions.

## 6. Findings

Five runs end in a counterexample; `PROJECT.json` quotes the line each one
contradicts.

- `saga_recharge`: `cancel` cancels the order before it saves the saga row. One
  order has reserved the last unit and meets a transient error; another, in the
  other partition, is declined, cancelled, and the worker crashes before it
  saves the row. The first resumes, its payment is declined, the unit goes back;
  the second is redelivered with its old row and reserves the unit for a
  cancelled order. One worker, no stock correction. (The saga then charges the
  customer and commits the stock; `Confirm` fails on every redelivery, which
  blocks the partition.)
- `inventory_double`: two transitions of one order that overlap both read HELD;
  the second moves the ledger again and takes another order's units.
- `payment_twice`: two captures that overlap both charge the provider before
  either row is durable; the duplicate-key catch around `save` never runs,
  since the insert is flushed at commit.
- `payment_reemits`: a webhook and the sweep both find a payment CAPTURED and
  both publish its settlement; the one that then loses the version check is
  rolled back, its event is not.
- `fulfillment_lost`: a `shipment.created` whose publish failed is not recovered
  by the redelivery when a clerk has dispatched the shipment meanwhile.

Met while modelling, and reproducible by changing an instance; no run is kept
for them:

- An order of total zero is accepted at placement (`docs/openapi.yaml:127`
  admits a unit price of 0) and can never be paid for: the payment service
  answers a 4xx on every redelivery, and no later message of the partition is
  handled. (`PartitionDrained` in `saga_crash` without the exception of `Wedged`.)
- The inventory client takes 409 INVALID_STATE for "already in the target
  state"; the service says it only of the *other* terminal state. With two
  orchestrators and a refund between their authorizations an order is confirmed
  on a released reservation (`ConfirmedIsPaidAndCommitted` in `saga_zombie`). Its
  customer has the money back then: that is what `ConfirmedIsBacked` promises.
- A repeated reserve that overlaps the first is declined although the order has
  its reservation: it read the stock after the first had taken it, and the
  reservation before. The overlap is modelled (`inventory_serial` serializes
  transitions of one order, not reserves) and does no harm to the ledger; the
  refinement is about state, so the wrong answer is not in it.
- A redelivered `order.placed` sets a decided order's projection back to
  PENDING until its decision is redelivered too: every placement carries version
  1, so the guard in `UpsertOrderPlaced` never refuses, although its comment
  says "an older event never overwrites newer state". When two relays and a
  failed cycle leave that message the last one of its order, for ever.
- A key reserved by a request that failed before it saved its order answers all
  later requests with the id of an order that does not exist.
- An order whose total wraps below zero is stored, and can be neither read from
  the event store nor decided.

## 7. Not modelled

- Configuration, logging, metrics, tracing, HTTP middleware, health endpoints:
  no state the order flow depends on.
- Migrations: run by one job before the services start (`docker-compose.yml`,
  `service_completed_successfully`); a sequential loop with nothing beside it.
- Kafka and PostgreSQL themselves, beyond what the code relies on: keyed
  partitions, committed offsets, row locks, unique indexes, READ COMMITTED.
- Payloads, reasons, references, timestamps, addresses, and amounts outside the
  total of an order.
- The stub payment gateway of the order service, used only without a payment
  service; the retries inside `Client.Authorize`, which are one call.
- Signatures, authentication and authorization.
