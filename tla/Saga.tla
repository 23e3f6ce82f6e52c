-------------------------------- MODULE Saga --------------------------------
(***************************************************************************)
(* The order saga: orchestrator workers that consume order.placed and      *)
(* drive reserve, authorize, commit and confirm, or release and cancel,    *)
(* against the Inventory and Payment services and the order store.         *)
(*                                                                         *)
(* One action per remote call, per database write and per read whose       *)
(* result is used later, so that a crash, a second worker or a provider    *)
(* update may come between any two.  An inventory call takes two actions,  *)
(* the read of the reservation and the writes decided by it, for another   *)
(* worker or an abandoned call may act on the same reservation in between. *)
(* A handler error that no retry cures                                     *)
(* (an illegal transition, a lost version race, a rejected request) stops  *)
(* the worker in the step that meets it; every other error or crash is     *)
(* Fail.  A call that failed for the worker may still reach the service    *)
(* afterwards (late).                                                      *)
(*                                                                         *)
(* Abstracted: payloads, reasons and references, tracing, the retries that *)
(* clients make inside one call.                                           *)
(***************************************************************************)
EXTENDS InventoryLedger, PaymentDesk, OrderStore, TopicConsumer, FiniteSets

CONSTANTS
  ZeroTotal,       \* orders whose items are all free of charge
  StockMoves,      \* whether stock is corrected while orders are processed
  MaxFaults,       \* bound: crashes and transient errors
  MaxLate,         \* bound: calls under way at once after their caller gave up
  MaxDuplicates    \* bound: messages published again, or unparseable

ASSUME SagaAssumption ==
  /\ ZeroTotal \subseteq Orders
  /\ StockMoves \in BOOLEAN
  /\ MaxFaults \in Nat
  /\ MaxLate \in Nat
  /\ MaxDuplicates \in Nat

VARIABLES
  sagas,    \* sagas[o]: the saga_instances row of o
  inst,     \* inst[w]: the instance w works on in memory
  step,     \* step[w]: what w does next in Handle, "idle" outside of it
  version,  \* version[w]: the order version w loaded and appends after
  late,     \* calls abandoned by their caller that may still be executed
  faults    \* crashes and transient errors so far

sagaVars == <<sagas, inst, step, version>>
vars == <<ledgerVars, payment, storeVars, consumerVars, sagaVars, late, faults>>

SagaState == {"NONE", "STARTED", "RESERVED", "PAID", "COMPLETED", "CANCELLED"}
Instance == [state : SagaState, held : BOOLEAN]
NoInstance == [state |-> "NONE", held |-> FALSE]
NewInstance == [state |-> "STARTED", held |-> FALSE]

\* An -ing step: the inventory service has read the reservation and writes next.
RemoteStep == {"reserve", "reserving", "authorize",
               "release", "releasing", "commit", "committing"}

Step == RemoteStep \cup
  {"idle", "save", "confirm", "appendConfirm", "cancel", "appendCancel"}

Call == [op : RemoteStep, order : Orders]

\* order.confirmed and order.cancelled share the topic; an order.placed whose
\* payload does not parse is a message of type "unparseable".
Message == [type : EventTypes \cup {"unparseable"}, order : Orders]
Placement(o) == [type |-> "order.placed", order |-> o]

\* The key of a message is its order's id.
ASSUME KeyAssumption ==
  /\ PartitionOf \in [Message -> Partitions]
  /\ \A m, n \in Message : m.order = n.order => PartitionOf[m] = PartitionOf[n]

TypeOK ==
  /\ LedgerTypeOK
  /\ PaymentTypeOK
  /\ StoreTypeOK
  /\ ConsumerTypeOK(Message)
  /\ sagas \in [Orders -> Instance]
  /\ inst \in [Workers -> Instance]
  /\ step \in [Workers -> Step]
  /\ version \in [Workers -> Nat]
  /\ late \subseteq Call
  /\ faults \in 0..MaxFaults

Init ==
  /\ LedgerInit
  /\ PaymentInit
  /\ StoreInit
  /\ ConsumerInit
  /\ sagas = [o \in Orders |-> NoInstance]
  /\ inst = [w \in Workers |-> NoInstance]
  /\ step = [w \in Workers |-> "idle"]
  /\ version = [w \in Workers |-> 0]
  /\ late = {}
  /\ faults = 0

services == <<ledgerVars, payment, storeVars>>
-----------------------------------------------------------------------------
(* Operators of the handler.                                               *)

Order(w) == InHand(w).order

\* (mutant: a saga under way is taken for a new one)
FoundFinished(row) == row.state \in {"COMPLETED", "CANCELLED"}

\* The saga store has a row.
Found(row) == row.state # "NONE"

Terminal(state) == state \in {"COMPLETED", "CANCELLED"}

\* (mutant: a paid order is confirmed without committing its stock)
StepAfterNoCommit(state) ==
  CASE state = "STARTED"  -> "reserve"
    [] state = "RESERVED" -> "authorize"
    [] state = "PAID"     -> "confirm"

\* Where Handle goes on from a saga state, after a load or a save.
StepAfter(state) ==
  CASE state = "STARTED"  -> "reserve"
    [] state = "RESERVED" -> "authorize"
    [] state = "PAID"     -> "commit"

\* The inventory client takes INVALID_STATE for the effect being achieved.
TransitionAccepted(reply) == reply \in {"OK", "INVALID_STATE"}

\* The payment API accepts positive amounts only.
Payable(o) == o \notin ZeroTotal

Goto(w, s) == step' = [step EXCEPT ![w] = s]

SetInst(w, state, held) ==
  inst' = [inst EXCEPT ![w] = [state |-> state, held |-> held]]

\* What a process forgets when it finishes a message or stops.
Forget(w) ==
  /\ Goto(w, "idle")
  /\ inst' = [inst EXCEPT ![w] = NoInstance]
  /\ version' = [version EXCEPT ![w] = 0]

\* Handle returns nil ...
Finish(w) == Handled(w) /\ Forget(w)

\* (mutant: the error is logged and the offset committed)
GiveUpSilently(w) ==
  /\ IF loop[w] = "handle" THEN Handled(w) ELSE Stop(w)
  /\ Forget(w)

\* ... or an error, with which Run returns.
GiveUp(w) == Stop(w) /\ Forget(w)

-----------------------------------------------------------------------------
(* The consume loop around the handler.                                    *)

FetchMessage(w, p) ==
  /\ FetchFrom(w, p)
  /\ UNCHANGED <<services, sagaVars, late, faults>>

\* The event types the saga emits itself are ignored.
IgnoreEvent(w) ==
  /\ loop[w] = "handle" /\ step[w] = "idle"
  /\ InHand(w).type \in Decisions
  /\ Handled(w)
  /\ UNCHANGED <<services, sagaVars, late, faults>>

PublishDeadLetter(w) ==
  /\ loop[w] = "handle" /\ step[w] = "idle"
  /\ InHand(w).type = "unparseable"
  /\ DeadLetter(w)
  /\ UNCHANGED <<services, sagaVars, late, faults>>

Commit(w) ==
  /\ CommitOffset(w)
  /\ UNCHANGED <<services, sagaVars, late, faults>>

LoseCommit(w) ==
  /\ CommitRefused(w)
  /\ UNCHANGED <<services, sagaVars, late, faults>>

-----------------------------------------------------------------------------
(* Orchestrator.Handle.                                                    *)

\* Load: start a saga, have nothing to do, or resume from the state reached.
LoadSaga(w) ==
  /\ loop[w] = "handle" /\ step[w] = "idle"
  /\ InHand(w).type = "order.placed"
  /\ LET row == sagas[Order(w)] IN
       \/ /\ ~Found(row)
          /\ inst' = [inst EXCEPT ![w] = NewInstance]
          /\ Goto(w, "save")
          /\ UNCHANGED <<consumerVars, version>>
       \/ /\ Terminal(row.state)
          /\ Finish(w)
       \/ /\ Found(row)
          /\ ~Terminal(row.state)
          /\ inst' = [inst EXCEPT ![w] = row]
          /\ Goto(w, StepAfter(row.state))
          /\ UNCHANGED <<consumerVars, version>>
  /\ UNCHANGED <<services, sagas, late, faults>>

\* SagaRepository.Save overwrites the row, whatever it holds.
SaveSaga(w) ==
  /\ step[w] = "save"
  /\ sagas' = [sagas EXCEPT ![Order(w)] = inst[w]]
  /\ \/ /\ Terminal(inst[w].state)
        /\ Finish(w)
     \/ /\ ~Terminal(inst[w].state)
        /\ Goto(w, StepAfter(inst[w].state))
        /\ UNCHANGED <<consumerVars, inst, version>>
  /\ UNCHANGED <<services, late, faults>>

\* POST /v1/reservations: a reservation that exists is the answer ...
ReserveStock(w) ==
  /\ step[w] = "reserve"
  /\ \/ /\ reservation[Order(w)] # "NONE"
        /\ SetInst(w, "RESERVED", TRUE)
        /\ Goto(w, "save")
     \/ /\ reservation[Order(w)] = "NONE"
        /\ Goto(w, "reserving")
        /\ UNCHANGED inst
  /\ UNCHANGED <<services, consumerVars, sagas, version, late, faults>>

\* ... otherwise the stock is taken, or the order declined for lack of it.
TakeStock(w) ==
  /\ step[w] = "reserving"
  /\ \/ /\ CanReserve(Order(w))
        /\ Take(Order(w))
        /\ SetInst(w, "RESERVED", TRUE)
        /\ Goto(w, "save")
     \/ /\ ~CanReserve(Order(w))
        /\ Goto(w, "cancel")
        /\ UNCHANGED <<ledgerVars, inst>>
  /\ UNCHANGED <<payment, storeVars, consumerVars, sagas, version, late, faults>>

\* A decline is an answer; a 4xx is an error and not retried by the client.
AuthorizePayment(w) ==
  /\ step[w] = "authorize"
  /\ \/ /\ Payable(Order(w))
        /\ \E status \in PaymentStatus :
             /\ Capture(Order(w), status)
             /\ \/ /\ Approved(status)
                   /\ SetInst(w, "PAID", inst[w].held)
                   /\ Goto(w, "save")
                \/ /\ ~Approved(status)
                   /\ Goto(w, "release")
                   /\ UNCHANGED inst
        /\ UNCHANGED <<consumerVars, version>>
     \/ /\ ~Payable(Order(w))
        /\ GiveUp(w)
        /\ UNCHANGED payment
  /\ UNCHANGED <<ledgerVars, storeVars, sagas, late, faults>>

\* (mutant: a declined payment cancels the order and leaves the stock held)
ReleaseForgotten(w) ==
  /\ step[w] = "release"
  /\ Goto(w, "cancel")
  /\ UNCHANGED <<services, consumerVars, sagas, inst, version, late, faults>>

\* A commit is followed by the confirmation, a release by the cancellation.
Transitioned(w, target) ==
  /\ \/ target = "COMMITTED" /\ Goto(w, "confirm") /\ UNCHANGED inst
     \/ target = "RELEASED" /\ Goto(w, "cancel") /\ SetInst(w, inst[w].state, FALSE)
  /\ UNCHANGED <<consumerVars, version>>

\* POST /v1/reservations/{order}/release and .../commit: the status read is
\* the answer, or the reservation is held ...
AskTransition(w, target, writing) ==
  /\ \/ /\ reservation[Order(w)] = "HELD"
        /\ Goto(w, writing)
        /\ UNCHANGED <<consumerVars, inst, version>>
     \/ \E reply \in {"OK", "INVALID_STATE", "NOT_FOUND"} :
          /\ AnsweredByStatus(Order(w), target, reply)
          /\ IF TransitionAccepted(reply) THEN Transitioned(w, target) ELSE GiveUp(w)
  /\ UNCHANGED <<services, sagas, late, faults>>

\* ... and the units are moved and the status set, whatever it is by now.
WriteTransition(w, target) ==
  /\ \/ /\ CanUnhold(Order(w))
        /\ Unhold(Order(w), target)
        /\ Transitioned(w, target)
     \/ /\ ~CanUnhold(Order(w))
        /\ GiveUp(w)
        /\ UNCHANGED ledgerVars
  /\ UNCHANGED <<payment, storeVars, sagas, late, faults>>

ReleaseStock(w) ==
  step[w] = "release" /\ AskTransition(w, "RELEASED", "releasing")

FinishRelease(w) ==
  step[w] = "releasing" /\ WriteTransition(w, "RELEASED")

CommitStock(w) ==
  step[w] = "commit" /\ AskTransition(w, "COMMITTED", "committing")

FinishCommit(w) ==
  step[w] = "committing" /\ WriteTransition(w, "COMMITTED")

\* ConfirmOrderHandler and CancelOrderHandler.  Load and decide ...
Decided(w, decision) ==
  /\ IF decision = "order.confirmed"
     THEN SetInst(w, "COMPLETED", FALSE)
     ELSE SetInst(w, "CANCELLED", inst[w].held)
  /\ Goto(w, "save")

LoadOrder(w, decision, append) ==
  LET status == Status(events[Order(w)]) IN
  /\ \/ /\ MayRaise(status)
        /\ version' = [version EXCEPT ![w] = Len(events[Order(w)])]
        /\ Goto(w, append)
        /\ UNCHANGED <<consumerVars, inst>>
     \/ /\ AlreadyDecided(status, decision)
        /\ Decided(w, decision)
        /\ UNCHANGED <<consumerVars, version>>
     \/ /\ ~MayRaise(status)
        /\ ~AlreadyDecided(status, decision)
        /\ GiveUp(w)
  /\ UNCHANGED <<services, sagas, late, faults>>

\* ... and append at the version loaded, or lose the race to another worker.
AppendDecision(w, decision) ==
  /\ \/ /\ VersionFree(Order(w), version[w])
        /\ Record(Order(w), decision)
        /\ Decided(w, decision)
        /\ version' = [version EXCEPT ![w] = 0]
        /\ UNCHANGED consumerVars
     \/ /\ ~VersionFree(Order(w), version[w])
        /\ GiveUp(w)
        /\ UNCHANGED storeVars
  /\ UNCHANGED <<ledgerVars, payment, sagas, late, faults>>

LoadToConfirm(w) ==
  step[w] = "confirm" /\ LoadOrder(w, "order.confirmed", "appendConfirm")

AppendConfirm(w) ==
  step[w] = "appendConfirm" /\ AppendDecision(w, "order.confirmed")

LoadToCancel(w) ==
  step[w] = "cancel" /\ LoadOrder(w, "order.cancelled", "appendCancel")

AppendCancel(w) ==
  step[w] = "appendCancel" /\ AppendDecision(w, "order.cancelled")

WorkerStep(w) ==
  \/ \E p \in Partitions : FetchMessage(w, p)
  \/ IgnoreEvent(w) \/ PublishDeadLetter(w)
  \/ LoadSaga(w) \/ SaveSaga(w)
  \/ ReserveStock(w) \/ TakeStock(w) \/ AuthorizePayment(w)
  \/ ReleaseStock(w) \/ FinishRelease(w) \/ CommitStock(w) \/ FinishCommit(w)
  \/ LoadToConfirm(w) \/ AppendConfirm(w) \/ LoadToCancel(w) \/ AppendCancel(w)
  \/ Commit(w)

-----------------------------------------------------------------------------
(* Failures.                                                               *)

\* A transient error or a crash, wherever the worker is.  A call it was
\* making may still be on its way to the service, or under way there.
Fail(w) ==
  /\ faults < MaxFaults
  /\ faults' = faults + 1
  /\ loop[w] # "down"
  /\ GiveUp(w)
  /\ \/ UNCHANGED late
     \/ /\ step[w] \in RemoteStep
        /\ Cardinality(late) < MaxLate
        /\ late' = late \cup {[op |-> step[w], order |-> Order(w)]}
  /\ UNCHANGED <<services, sagas>>

RestartWorker(w) ==
  /\ Restart(w)
  /\ UNCHANGED <<services, sagaVars, late, faults>>

RebalanceTo(assignment) ==
  /\ Rebalance(assignment)
  /\ UNCHANGED <<services, sagaVars, late, faults>>

\* The service has read the reservation an abandoned call is about.
LateRead(op, o) ==
  \/ op = "reserve" /\ reservation[o] = "NONE"
  \/ op \in {"release", "commit"} /\ reservation[o] = "HELD"

Writing(op) ==
  CASE op = "reserve" -> "reserving"
    [] op = "release" -> "releasing"
    [] op = "commit"  -> "committing"

LateCallGoesOn(call) ==
  /\ LateRead(call.op, call.order)
  /\ late' = (late \ {call}) \cup {[call EXCEPT !.op = Writing(call.op)]}
  /\ UNCHANGED <<services, consumerVars, sagaVars, faults>>

\* The service writes; nobody reads the answer.  A call that finds nothing
\* to write ends without a trace (LateCallEnds).
LateWrite(call) ==
  \/ /\ call.op = "reserving"
     /\ CanReserve(call.order)
     /\ Take(call.order)
     /\ UNCHANGED payment
  \/ /\ call.op \in {"releasing", "committing"}
     /\ CanUnhold(call.order)
     /\ Unhold(call.order, IF call.op = "releasing" THEN "RELEASED" ELSE "COMMITTED")
     /\ UNCHANGED payment
  \/ /\ call.op = "authorize"
     /\ Payable(call.order)
     /\ \E status \in PaymentStatus : Capture(call.order, status)
     /\ UNCHANGED ledgerVars

LateCallWrites(call) ==
  /\ LateWrite(call)
  /\ late' = late \ {call}
  /\ UNCHANGED <<storeVars, consumerVars, sagaVars, faults>>

\* An error, the end of the service, or nothing to do.
LateCallEnds(call) ==
  /\ late' = late \ {call}
  /\ UNCHANGED <<services, consumerVars, sagaVars, faults>>

-----------------------------------------------------------------------------
(* The environment: clients, the relay, the provider, operators.           *)

PlaceOrder(o) ==
  /\ Place(o)
  /\ UNCHANGED <<ledgerVars, payment, consumerVars, sagaVars, late, faults>>

\* The relay publishes the next k rows and marks them ...
Relay(k) ==
  /\ relayed + k <= Len(outbox)
  /\ Produce(Batch(k))
  /\ MarkRelayed(k)
  /\ UNCHANGED <<ledgerVars, payment, sagaVars, late, faults>>

\* (bound: the messages of the log no marked row accounts for)
Surplus == Len(log) - relayed

\* ... or fails before it could mark them, to publish them again.
RelayUnmarked(k) ==
  /\ relayed + k <= Len(outbox)
  /\ Surplus + k <= MaxDuplicates
  /\ Produce(Batch(k))
  /\ UNCHANGED <<services, sagaVars, late, faults>>

ProduceUnparseable(o) ==
  /\ Surplus < MaxDuplicates
  /\ Produce(<<[type |-> "unparseable", order |-> o]>>)
  /\ UNCHANGED <<services, sagaVars, late, faults>>

ProviderMoves(o, to) ==
  /\ ProviderUpdate(o, to)
  /\ UNCHANGED <<ledgerVars, storeVars, consumerVars, sagaVars, late, faults>>

CorrectStock(s, n) ==
  /\ StockMoves
  /\ SetStock(s, n)
  /\ UNCHANGED <<payment, storeVars, consumerVars, sagaVars, late, faults>>

Environment ==
  \/ \E o \in Orders : PlaceOrder(o) \/ ProduceUnparseable(o)
  \/ \E k \in 1..Len(outbox) : Relay(k) \/ RelayUnmarked(k)
  \/ \E o \in Orders, to \in PaymentStatus : ProviderMoves(o, to)
  \/ \E s \in Skus, n \in 0..MaxStock : CorrectStock(s, n)
  \/ \E call \in late :
       LateCallGoesOn(call) \/ LateCallWrites(call) \/ LateCallEnds(call)

Next ==
  \/ \E w \in Workers :
       WorkerStep(w) \/ LoseCommit(w) \/ Fail(w) \/ RestartWorker(w)
  \/ \E assignment \in [Partitions -> Workers] : RebalanceTo(assignment)
  \/ Environment

Spec == Init /\ [][Next]_vars

(***************************************************************************)
(* Fairness: a worker that runs takes its next step, a stopped one is      *)
(* restarted (restart: on-failure), the relay polls for ever.  A reader    *)
(* fetches from its partitions in parallel, so that a partition whose      *)
(* message the worker could take again and again is not passed over for    *)
(* ever: strong fairness, as between two chances the worker is busy with   *)
(* other messages.  Nothing is assumed of clients, the provider,           *)
(* rebalances and failures.                                                *)
(***************************************************************************)
Fairness ==
  /\ \A w \in Workers : WF_vars(WorkerStep(w)) /\ WF_vars(RestartWorker(w))
  /\ \A w \in Workers, p \in Partitions : SF_vars(FetchMessage(w, p))
  /\ WF_vars(Relay(1))

FairSpec == Spec /\ Fairness

-----------------------------------------------------------------------------
(* Properties that hold whatever the workers and failures do.              *)

(***************************************************************************)
(* A terminal saga row never contradicts the order it belongs to: the row  *)
(* says COMPLETED only of a confirmed order and CANCELLED only of a        *)
(* cancelled one, also when two workers run the same saga.                 *)
(***************************************************************************)
RowAgreesWithOrder ==
  \A o \in Orders :
    /\ sagas[o].state = "COMPLETED" => Status(events[o]) = "CONFIRMED"
    /\ sagas[o].state = "CANCELLED" => Status(events[o]) = "CANCELLED"

(***************************************************************************)
(* The offset of an order.placed message is committed only once its order  *)
(* is decided, and that of an unparseable one only once the message is in  *)
(* the dead-letter topic: no crash, restart or rebalance makes the group   *)
(* skip an order (worker.go Run).                                          *)
(***************************************************************************)
NothingSkipped ==
  \A i \in DOMAIN log : Passed(i) =>
    /\ log[i].type = "order.placed" => IsDecided(log[i].order)
    /\ log[i].type = "unparseable" => i \in deadLetters

(***************************************************************************)
(* A confirmed order was charged and, unless the money went back since,    *)
(* its stock is committed: the inventory client may take INVALID_STATE of  *)
(* a commit for success (client.go transition) because whoever released    *)
(* the reservation did so on a payment that is refused for good.  Also     *)
(* with several workers on one saga and abandoned calls between them.      *)
(***************************************************************************)
ConfirmedIsBacked ==
  \A o \in Orders :
    Status(events[o]) = "CONFIRMED" =>
      WasCharged(o) /\ (Charged(o) => reservation[o] = "COMMITTED")

-----------------------------------------------------------------------------
(* Properties that need a single worker and no abandoned calls.            *)

\* The group is done with o: its saga has ended or its placement is passed.
Closed(o) ==
  \/ Terminal(sagas[o].state)
  \/ \E i \in DOMAIN log : log[i] = Placement(o) /\ Passed(i)

(***************************************************************************)
(* A cancelled order the group is done with is not charged.  Between the   *)
(* cancellation and the saved saga row a crash leads back to an old row,   *)
(* and the saga may find stock another order has put back and charge the   *)
(* cancelled order; it must then never get past it unnoticed.              *)
(***************************************************************************)
ClosedIsNotCharged ==
  \A o \in Orders :
    Status(events[o]) = "CANCELLED" /\ Closed(o) => ~Charged(o)

(***************************************************************************)
(* Nor does it hold stock, nor has it taken any out of the warehouse.      *)
(***************************************************************************)
ClosedHoldsNoStock ==
  \A o \in Orders :
    Status(events[o]) = "CANCELLED" /\ Closed(o)
      => reservation[o] \in {"NONE", "RELEASED"}

(***************************************************************************)
(* A cancelled order holds no stock and took none out of the warehouse     *)
(* (events.go, OrderCancelled: any held stock has been released).  The     *)
(* code does not keep this while the saga's row is behind the order.       *)
(***************************************************************************)
CancelledHoldsNoStock ==
  \A o \in Orders :
    Status(events[o]) = "CANCELLED" => reservation[o] \in {"NONE", "RELEASED"}

(***************************************************************************)
(* A confirmed order was paid for and its stock is committed (events.go,   *)
(* OrderConfirmed: stock is committed and payment is captured).            *)
(***************************************************************************)
ConfirmedIsPaidAndCommitted ==
  \A o \in Orders :
    Status(events[o]) = "CONFIRMED" => WasCharged(o) /\ reservation[o] = "COMMITTED"

\* How far a saga state is from the start.
Rank(state) ==
  CASE state = "NONE" -> 0
    [] state = "STARTED" -> 1
    [] state = "RESERVED" -> 2
    [] state = "PAID" -> 3
    [] state \in {"COMPLETED", "CANCELLED"} -> 4

(***************************************************************************)
(* A saga row only moves forward: past a terminal state, and from PAID     *)
(* back to RESERVED or STARTED, no save takes it (a stale in-memory        *)
(* instance would, the upsert has no guard).                               *)
(***************************************************************************)
SagaMovesForward ==
  [][\A o \in Orders :
       \/ sagas'[o] = sagas[o]
       \/ Rank(sagas[o].state) < Rank(sagas'[o].state)]_sagas

\* The saga of o errs at every delivery: a free order whose stock is reserved
\* (the payment API rejects its amount), a cancelled one that was charged.
Stuck(o) ==
  \/ o \in ZeroTotal /\ sagas[o].state = "RESERVED"
  \/ sagas[o].state = "PAID" /\ Status(events[o]) = "CANCELLED"

\* The placement of a stuck saga bars the way to what follows it.
Wedged(p) == \E o \in Orders : PartitionOf[Placement(o)] = p /\ Stuck(o)

(***************************************************************************)
(* Every published placement is decided in the end, and the group reads    *)
(* every partition to its end: finitely many crashes, duplicates, poison   *)
(* messages and rebalances do not wedge one, only a stuck saga does, and   *)
(* that one wedges no partition but its own.                               *)
(***************************************************************************)
EveryPublishedOrderDecided ==
  \A o \in Orders :
    Placement(o) \in Range(log) ~> IsDecided(o) \/ Wedged(PartitionOf[Placement(o)])

PartitionDrained ==
  \A p \in Partitions :
    <>[](Wedged(p) \/ \A i \in DOMAIN log : PartitionAt(i) = p => Passed(i))
=============================================================================
