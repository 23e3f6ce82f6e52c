------------------------------ MODULE Payments ------------------------------
(***************************************************************************)
(* The Payment service behind PaymentDesk: captures, provider webhooks and *)
(* the reconciliation sweep as transactions on the payments and            *)
(* webhook_events tables, with the provider's charge and the Kafka record  *)
(* as effects no rollback takes back.                                      *)
(*                                                                         *)
(* Hibernate writes at commit: an insert that meets the unique order_id,   *)
(* an update that meets a newer version and an insert of a webhook id that *)
(* was recorded meanwhile fail the commit, and with it everything the      *)
(* transaction would have written.  (The duplicate-key catch in capture    *)
(* therefore never runs: save only schedules the insert.)                  *)
(*                                                                         *)
(* Abstracted: amounts, references, signatures, reasons, and the age a     *)
(* captured payment must have to be swept.                                 *)
(***************************************************************************)
EXTENDS PaymentDesk, Integers

CONSTANTS
  Handlers,       \* request threads
  Sweepers,       \* scheduler threads, one per replica
  Webhooks,       \* provider events: [order, to], each with an id of its own
  Settlements,    \* what the provider may say of a captured payment
  MaxCopies,      \* bound: how far the copies of an event are counted
  MaxCrashes      \* bound: crashes and failed calls inside a transaction

WebhookTypes == {"SETTLED", "REFUNDED", "FAILED", "OTHER"}

ASSUME PaymentsAssumption ==
  /\ Handlers \cap Sweepers = {}
  /\ Webhooks \subseteq [order : Orders, to : WebhookTypes]
  /\ Settlements \subseteq {"SETTLED", "FAILED", "PENDING"}
  /\ MaxCopies \in Nat
  /\ MaxCrashes \in Nat

VARIABLES
  version,     \* version[o]: version of the row of o, 0 when there is none
  recorded,    \* webhook_events: the provider events processed
  charges,     \* charges[o]: charges of o the provider approved
  announced,   \* announced[e]: copies of the event e in the topic
  answers,     \* what captures were answered
  tx,          \* tx[p]: the transaction of thread p
  crashes      \* crashes so far

tables == <<payment, version, recorded>>
vars == <<tables, charges, announced, answers, tx, crashes>>

Threads == Handlers \cup Sweepers
Notice == [order : Orders, status : PaymentStatus]

\* Where a transaction is: charge belongs to capture, record and locate to a
\* webhook, sweep to the loop of the sweep; all of them publish and commit.
Stage == {"idle", "charge", "record", "locate", "sweep", "publish", "commit"}

NoPlan == [o \in Orders |-> "NONE"]

\* A thread's transaction: the orders it works on, the webhook it handles and
\* whether that is to be inserted, the versions it read, and the statuses it
\* will write (NONE: no write).
Transaction ==
  [stage : Stage, orders : SUBSET Orders, webhook : SUBSET Webhooks, insert : BOOLEAN,
   seen : [Orders -> Nat], plan : [Orders -> PaymentStatus]]

Idle == [stage |-> "idle", orders |-> {}, webhook |-> {}, insert |-> FALSE,
         seen |-> [o \in Orders |-> 0], plan |-> NoPlan]

TypeOK ==
  /\ PaymentTypeOK
  /\ version \in [Orders -> Nat]
  /\ recorded \subseteq Webhooks
  /\ charges \in [Orders -> Nat]
  /\ announced \in [Notice -> 0..MaxCopies]
  /\ answers \subseteq Notice
  /\ tx \in [Threads -> Transaction]
  /\ crashes \in 0..MaxCrashes

Init ==
  /\ PaymentInit
  /\ version = [o \in Orders |-> 0]
  /\ recorded = {}
  /\ charges = [o \in Orders |-> 0]
  /\ announced = [e \in Notice |-> 0]
  /\ answers = {}
  /\ tx = [p \in Threads |-> Idle]
  /\ crashes = 0

-----------------------------------------------------------------------------
(* Helpers of the transactions.                                            *)

Enter(p, next) == tx' = [tx EXCEPT ![p] = next]

\* The versions of the rows a query returned.
VersionsOf(S) == [o \in Orders |-> IF o \in S THEN version[o] ELSE 0]

\* The transaction of p is over, with whatever it wrote.
Leave(p) == Enter(p, Idle)

Writes(p) == {o \in Orders : tx[p].plan[o] # "NONE"}

Answer(o, status) == answers' = answers \cup {[order |-> o, status |-> status]}

\* kafka.send: nobody waits for its outcome, the record may be lost.
Publish(o, status) ==
  \/ announced' = [announced EXCEPT ![[order |-> o, status |-> status]] =
                     IF @ < MaxCopies THEN @ + 1 ELSE @]
  \/ UNCHANGED announced

\* (mutant: a row is written whatever version it has by now)
UnchangedSinceReadIgnored(p) == \A o \in Writes(p) : version[o] >= tx[p].seen[o]

\* @Version, and for an insert the unique order_id: the rows to be written
\* are as the transaction read them.
UnchangedSinceRead(p) == \A o \in Writes(p) : version[o] = tx[p].seen[o]

-----------------------------------------------------------------------------
(* PaymentService.capture.                                                 *)

\* findByOrderId: an existing payment is the answer.
LookUp(p, o) ==
  /\ tx[p].stage = "idle"
  /\ \/ /\ payment[o] # "NONE"
        /\ Answer(o, payment[o])
        /\ UNCHANGED tx
     \/ /\ payment[o] = "NONE"
        /\ Enter(p, [Idle EXCEPT !.stage = "charge", !.orders = {o}])
        /\ UNCHANGED answers
  /\ UNCHANGED <<tables, charges, announced, crashes>>

\* gateway.charge: the money moves now.
Charge(p) ==
  /\ tx[p].stage = "charge"
  /\ \E o \in tx[p].orders, status \in {"CAPTURED", "DECLINED"} :
       /\ charges' = [charges EXCEPT ![o] = IF status = "CAPTURED" THEN @ + 1 ELSE @]
       /\ Enter(p, [tx[p] EXCEPT !.stage = "publish", !.orders = {}, !.plan[o] = status])
  /\ UNCHANGED <<tables, announced, answers, crashes>>

\* The event of a capture or a webhook goes out before the commit.
PublishEvent(p) ==
  /\ tx[p].stage = "publish"
  /\ \E o \in Writes(p) : Publish(o, tx[p].plan[o])
  /\ Enter(p, [tx[p] EXCEPT !.stage = "commit"])
  /\ UNCHANGED <<tables, charges, answers, crashes>>

-----------------------------------------------------------------------------
(* ReconciliationService.                                                  *)

\* recordIfNew, existsById: a webhook processed before is acknowledged and
\* ignored.  The provider tells of a payment only when it has charged it.
Receive(p, w) ==
  /\ tx[p].stage = "idle"
  /\ charges[w.order] > 0
  /\ w \notin recorded
  /\ Enter(p, [Idle EXCEPT !.stage = "record", !.webhook = {w}])
  /\ UNCHANGED <<tables, charges, announced, answers, crashes>>

\* recordIfNew, save: the id is assigned, so the row is looked for again and
\* written over if another thread has recorded it meanwhile.
RecordWebhook(p) ==
  /\ tx[p].stage = "record"
  /\ Enter(p, [tx[p] EXCEPT !.stage = "locate", !.insert = tx[p].webhook \cap recorded = {}])
  /\ UNCHANGED <<tables, charges, announced, answers, crashes>>

\* (mutant: any event moves any payment)
MoveLegalAny(from, to) == from # to

\* Payment.settle, refund and fail.
MoveLegal(from, to) == CanBecome(from, to)

\* locate finds the payment.
Known(o) == payment[o] # "NONE"

\* locate, then the transition in memory: no payment and an illegal move fail
\* the request; a repeated move or an unhandled type only records the webhook.
Locate(p) ==
  /\ tx[p].stage = "locate"
  /\ \E w \in tx[p].webhook :
       LET from == payment[w.order] IN
       \/ /\ Known(w.order)
          /\ MoveLegal(from, w.to)
          /\ Enter(p, [tx[p] EXCEPT !.stage = "publish", !.seen = VersionsOf({w.order}),
                                    !.plan[w.order] = w.to])
       \/ /\ Known(w.order)
          /\ w.to \in {from, "OTHER"}
          /\ Enter(p, [tx[p] EXCEPT !.stage = "commit"])
       \/ /\ Known(w.order) => ~MoveLegal(from, w.to) /\ w.to \notin {from, "OTHER"}
          /\ Leave(p)
  /\ UNCHANGED <<tables, charges, announced, answers, crashes>>

\* (mutant: only payments the provider has settled are looked for)
SweepableSettled == {o \in Orders : payment[o] = "SETTLED"}

\* findCapturedOlderThan.
Sweepable == {o \in Orders : payment[o] = "CAPTURED"}

BeginSweep(p) ==
  /\ tx[p].stage = "idle"
  /\ Sweepable # {}
  /\ Enter(p, [Idle EXCEPT !.stage = "sweep", !.orders = Sweepable,
                           !.seen = VersionsOf(Sweepable)])
  /\ UNCHANGED <<tables, charges, announced, answers, crashes>>

\* One payment of the sweep: ask the provider, move, publish.
SweepOne(p) ==
  /\ tx[p].stage = "sweep"
  /\ \E o \in tx[p].orders, settlement \in Settlements :
       LET rest == [tx[p] EXCEPT
                      !.orders = @ \ {o},
                      !.stage = IF tx[p].orders = {o} THEN "commit" ELSE "sweep"] IN
       IF settlement = "PENDING"
       THEN /\ Enter(p, rest)
            /\ UNCHANGED announced
       ELSE /\ Enter(p, [rest EXCEPT !.plan[o] = settlement])
            /\ Publish(o, settlement)
  /\ UNCHANGED <<tables, charges, answers, crashes>>

-----------------------------------------------------------------------------
(* The end of a transaction.                                               *)

\* Of the three kinds only a capture answers with a payment.
IsCapture(p) == p \in Handlers /\ tx[p].webhook = {}

\* The primary key of webhook_events refuses a second insert.
InsertRefused(p) == tx[p].insert /\ tx[p].webhook \cap recorded # {}

\* All writes of the transaction, or an error and none of them.
Commit(p) ==
  /\ tx[p].stage = "commit"
  /\ \/ /\ UnchangedSinceRead(p)
        /\ ~InsertRefused(p)
        /\ payment' = [o \in Orders |-> IF o \in Writes(p) THEN tx[p].plan[o] ELSE payment[o]]
        /\ version' = [o \in Orders |-> IF o \in Writes(p) THEN version[o] + 1 ELSE version[o]]
        /\ recorded' = recorded \cup tx[p].webhook
        /\ IF IsCapture(p)
           THEN \E o \in Writes(p) : Answer(o, tx[p].plan[o])
           ELSE UNCHANGED answers
     \/ /\ ~UnchangedSinceRead(p) \/ InsertRefused(p)
        /\ UNCHANGED <<tables, answers>>
  /\ Leave(p)
  /\ UNCHANGED <<charges, announced, crashes>>

\* (mutant: the webhook is recorded before and apart from its transition)
CrashKeepsRecord(p) ==
  /\ crashes < MaxCrashes
  /\ crashes' = crashes + 1
  /\ tx[p].stage # "idle"
  /\ Leave(p)
  /\ recorded' = recorded \cup tx[p].webhook
  /\ UNCHANGED <<payment, version, charges, announced, answers>>

\* A crash or a failed call: the transaction is rolled back.
Crash(p) ==
  /\ crashes < MaxCrashes
  /\ crashes' = crashes + 1
  /\ tx[p].stage # "idle"
  /\ Leave(p)
  /\ UNCHANGED <<tables, charges, announced, answers>>

ThreadStep(p) ==
  \/ Charge(p) \/ RecordWebhook(p) \/ Locate(p) \/ SweepOne(p)
  \/ PublishEvent(p) \/ Commit(p)

Next ==
  \/ \E p \in Threads : ThreadStep(p) \/ Crash(p)
  \/ \E p \in Handlers : (\E o \in Orders : LookUp(p, o)) \/ (\E w \in Webhooks : Receive(p, w))
  \/ \E p \in Sweepers : BeginSweep(p)

Spec == Init /\ [][Next]_vars

(***************************************************************************)
(* Fairness: the scheduler calls the sweep again and again, and a sweep    *)
(* that runs goes on.  Callers and the provider may be silent, and nothing *)
(* is assumed of the threads that serve them.                              *)
(***************************************************************************)
Fairness ==
  \A p \in Sweepers : WF_vars(ThreadStep(p)) /\ WF_vars(BeginSweep(p))

FairSpec == Spec /\ Fairness

-----------------------------------------------------------------------------
(***************************************************************************)
(* The transactions implement the contract the saga relies on: no update   *)
(* is lost, no payment moves twice or against the state machine, whatever  *)
(* captures, webhooks and sweeps overlap (V1__init.sql: version drives     *)
(* optimistic locking so a webhook and the sweeper cannot clobber each     *)
(* other).                                                                 *)
(***************************************************************************)
ImplementsDesk == DeskSpec

(***************************************************************************)
(* A capture's answer is the durable outcome: no caller is told of an      *)
(* approval the row does not have, and two callers of one order are never  *)
(* told different outcomes, however their charges went.                    *)
(***************************************************************************)
AnswersAgree ==
  \A a \in answers :
    /\ payment[a.order] # "NONE"
    /\ a.status = "DECLINED" <=> payment[a.order] = "DECLINED"

(***************************************************************************)
(* A webhook recorded as processed took effect: the dedupe row and the     *)
(* move are one transaction, so a crash or a lost race never leaves a      *)
(* webhook that a redelivery skips although its payment never moved.       *)
(***************************************************************************)
RecordedTookEffect ==
  \A w \in recorded :
    /\ w.to = "SETTLED" => payment[w.order] \in {"SETTLED", "REFUNDED"}
    /\ w.to \in {"REFUNDED", "FAILED"} => payment[w.order] = w.to

(***************************************************************************)
(* No reconciliation event goes out again for a move that another webhook  *)
(* or sweep has made (ReconciliationService: neither re-emits an event     *)
(* when the state did not actually change).  A payment reaches each of     *)
(* these statuses once, so a second event had no change behind it.         *)
(***************************************************************************)
NoReemission ==
  \A e \in Notice :
    e.status \in {"SETTLED", "REFUNDED", "FAILED"} => announced[e] <= 1

(***************************************************************************)
(* A captured payment does not stay captured for ever: the sweep moves it  *)
(* when no webhook does, also after crashes and lost races.                *)
(***************************************************************************)
CapturedIsReconciled ==
  \A o \in Orders : payment[o] = "CAPTURED" ~> payment[o] # "CAPTURED"

(***************************************************************************)
(* The provider charges an order once (V1__init.sql: a retried charge      *)
(* returns the existing record instead of charging twice).                 *)
(***************************************************************************)
ChargedOnce == \A o \in Orders : charges[o] <= 1
=============================================================================
