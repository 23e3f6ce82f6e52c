--------------------------- MODULE PaymentsProofs ---------------------------
(***************************************************************************)
(* Theorems about Payments for any orders, threads, webhooks and number of *)
(* crashes: the transactions implement the desk the saga relies on, and    *)
(* what they answered and recorded agrees with the rows.                   *)
(*                                                                         *)
(* The argument is what a transaction knows about the rows it has read.    *)
(* As long as the version is the one it saw, the row is as it was and the  *)
(* planned move is legal; when it is not, the commit fails.  What is used  *)
(* without looking at the version must be stable: that a webhook took      *)
(* effect.                                                                 *)
(***************************************************************************)
EXTENDS Payments, TLAPS

-----------------------------------------------------------------------------
(* The inductive invariant.                                                *)

\* The move a webhook asks for has been made, or an event says nothing.
TookEffect(w) ==
  /\ w.to = "SETTLED" => payment[w.order] \in {"SETTLED", "REFUNDED"}
  /\ w.to \in {"REFUNDED", "FAILED"} => payment[w.order] = w.to

\* What transaction t knows of order o.
Knows(t, o) ==
  /\ t.seen[o] <= version[o]
  /\ t.plan[o] # "NONE" /\ t.seen[o] = version[o] => MayMove(payment[o], t.plan[o])
  /\ t.stage = "sweep" /\ o \in t.orders /\ t.seen[o] = version[o] =>
       payment[o] = "CAPTURED"

\* What it carries from stage to stage.
Carries(t) ==
  /\ t.stage \in {"idle", "charge", "sweep"} => t.webhook = {}
  /\ \A v, w \in t.webhook : v = w
  /\ t.stage = "charge" => \A o \in Orders : t.seen[o] = 0
  /\ t.stage \in {"record", "locate"} => t.plan = NoPlan
  /\ t.stage \in {"publish", "commit"} =>
       \A w \in t.webhook : t.plan[w.order] = w.to \/ TookEffect(w)

Fits(t) == Carries(t) /\ \A o \in Orders : Knows(t, o)

\* A row has a version from its insert on.
RowInv == \A o \in Orders : payment[o] = "NONE" <=> version[o] = 0

IInv ==
  /\ TypeOK
  /\ RowInv
  /\ \A p \in Threads : Fits(tx[p])
  /\ AnswersAgree
  /\ RecordedTookEffect

-----------------------------------------------------------------------------
(* Types of the values actions build.                                      *)

LEMMA IdleType == Idle \in Transaction
BY DEF Idle, Transaction, Stage, NoPlan, PaymentStatus

\* (a thread with nothing to do knows nothing)
LEMMA IdleFits == TypeOK => Fits(Idle)
BY DEF TypeOK, Fits, Carries, Knows, Idle, NoPlan, MayMove

\* (the webhook a handler has in hand)
LEMMA WebhookType ==
  ASSUME NEW w \in Webhooks
  PROVE  w.order \in Orders /\ w.to \in WebhookTypes
BY PaymentsAssumption

\* (what was read keeps its version number)
LEMMA VersionsType ==
  ASSUME TypeOK, NEW S
  PROVE  VersionsOf(S) \in [Orders -> Nat]
BY DEF TypeOK, VersionsOf

(***************************************************************************)
(* A thread that enters t while no row changes keeps the threads' part of  *)
(* the invariant when t is well typed and fits the rows.                   *)
(***************************************************************************)
LEMMA EnterFits ==
  ASSUME IInv, NEW p \in Threads, NEW t \in Transaction,
         Fits(t), Enter(p, t), UNCHANGED <<payment, version>>
  PROVE  /\ tx' \in [Threads -> Transaction]
         /\ \A q \in Threads : Fits(tx[q])'
<1>1. tx \in [Threads -> Transaction] /\ tx' = [tx EXCEPT ![p] = t]
  BY DEF IInv, TypeOK, Enter
<1>2. ASSUME NEW q \in Threads PROVE Fits(tx[q])'
  <2>1. tx'[q] = t \/ tx'[q] = tx[q]
    BY <1>1
  <2>2. Fits(tx[q])
    BY DEF IInv
  <2>3. QED
    BY <2>1, <2>2 DEF Fits, Carries, Knows, TookEffect, MayMove, CanBecome
<1>3. QED
  BY <1>1, <1>2

(***************************************************************************)
(* What stays true of a payment that moves as the desk allows.             *)
(***************************************************************************)
LEMMA MovesAreStable ==
  ASSUME NEW o \in Orders, payment[o] \in PaymentStatus,
         payment'[o] = payment[o] \/ MayMove(payment[o], payment'[o])
  PROVE  /\ payment[o] # "NONE" => payment'[o] # "NONE"
         /\ payment[o] # "NONE" => (payment[o] = "DECLINED" <=> payment'[o] = "DECLINED")
         /\ payment[o] \in {"SETTLED", "REFUNDED"} => payment'[o] \in {"SETTLED", "REFUNDED"}
         /\ payment[o] \in {"REFUNDED", "FAILED"} => payment'[o] = payment[o]
BY DEF MayMove, CanBecome, PaymentStatus

-----------------------------------------------------------------------------
(* The steps.                                                              *)

LEMMA InitInv == Init => IInv
<1> SUFFICES ASSUME Init PROVE IInv
  OBVIOUS
<1>1. TypeOK
  BY IdleType, PaymentsAssumption
  DEF Init, TypeOK, PaymentInit, PaymentTypeOK, PaymentStatus
<1>2. \A p \in Threads : Fits(tx[p])
  BY <1>1, IdleFits DEF Init
<1>3. RowInv /\ AnswersAgree /\ RecordedTookEffect
  BY DEF Init, PaymentInit, RowInv, AnswersAgree, RecordedTookEffect
<1>4. QED
  BY <1>1, <1>2, <1>3 DEF IInv

(***************************************************************************)
(* When the rows stay, so do the parts of the invariant that the tables    *)
(* and the list of answers make up.                                        *)
(***************************************************************************)
LEMMA RowsStay ==
  ASSUME IInv, UNCHANGED tables
  PROVE  /\ RowInv'
         /\ RecordedTookEffect'
         /\ UNCHANGED answers => AnswersAgree'
BY DEF IInv, tables, RowInv, RecordedTookEffect, AnswersAgree

\* (the copies of an event are counted up to a bound)
LEMMA PublishType ==
  ASSUME announced \in [Notice -> 0..MaxCopies], NEW o, NEW status, Publish(o, status)
  PROVE  announced' \in [Notice -> 0..MaxCopies]
<1> DEFINE e == [order |-> o, status |-> status]
<1>1. CASE UNCHANGED announced
  BY <1>1
<1>2. CASE announced' = [announced EXCEPT ![e] = IF @ < MaxCopies THEN @ + 1 ELSE @]
  <2>1. ASSUME NEW n \in 0..MaxCopies PROVE (IF n < MaxCopies THEN n + 1 ELSE n) \in 0..MaxCopies
    BY PaymentsAssumption
  <2> HIDE DEF e
  <2>2. QED
    BY <1>2, <2>1
<1>3. QED
  BY <1>1, <1>2 DEF Publish

\* (a charge that finds the row answers from it)
LEMMA LookUpInv ==
  ASSUME IInv, NEW p \in Threads, NEW o \in Orders, LookUp(p, o)
  PROVE  IInv'
<1> DEFINE t == [Idle EXCEPT !.stage = "charge", !.orders = {o}]
<1> USE DEF LookUp
<1>1. TypeOK /\ UNCHANGED tables /\ UNCHANGED <<payment, version>>
  BY DEF IInv, tables
<1>2. CASE payment[o] # "NONE" /\ Answer(o, payment[o]) /\ UNCHANGED tx
  <2>1. TypeOK'
    BY <1>1, <1>2 DEF TypeOK, PaymentTypeOK, tables, Answer, Notice
  <2>2. AnswersAgree'
    <3>1. \A a \in answers' : a \in answers \/ a = [order |-> o, status |-> payment[o]]
      BY <1>2 DEF Answer
    <3>2. QED
      BY <1>1, <1>2, <3>1 DEF IInv, AnswersAgree
  <2>3. \A q \in Threads : Fits(tx[q])'
    BY <1>1, <1>2
    DEF IInv, Fits, Carries, Knows, TookEffect, MayMove, CanBecome
  <2>4. QED
    BY <1>1, <2>1, <2>2, <2>3, RowsStay DEF IInv
<1>3. CASE Enter(p, t) /\ UNCHANGED answers
  <2>1. t \in Transaction
    BY IdleType DEF Transaction, Idle, Stage
  <2>2. Fits(t)
    BY <1>1 DEF Fits, Carries, Knows, Idle, NoPlan, TypeOK
  <2>3. tx' \in [Threads -> Transaction] /\ \A q \in Threads : Fits(tx[q])'
    BY <1>1, <1>3, <2>1, <2>2, EnterFits
  <2>4. TypeOK'
    BY <1>1, <1>3, <2>3 DEF TypeOK, PaymentTypeOK, tables
  <2>5. QED
    BY <1>1, <1>3, <2>3, <2>4, RowsStay DEF IInv
<1>4. QED
  BY <1>2, <1>3

\* (the provider decides: open, move and stage the payment)
LEMMA ChargeInv ==
  ASSUME IInv, NEW p \in Threads, Charge(p)
  PROVE  IInv'
<1>1. PICK o \in tx[p].orders, status \in {"CAPTURED", "DECLINED"} :
        /\ charges' = [charges EXCEPT ![o] = IF status = "CAPTURED" THEN @ + 1 ELSE @]
        /\ Enter(p, [tx[p] EXCEPT !.stage = "publish", !.orders = {}, !.plan[o] = status])
  BY DEF Charge
<1> DEFINE t == [tx[p] EXCEPT !.stage = "publish", !.orders = {}, !.plan[o] = status]
<1>2. /\ TypeOK /\ UNCHANGED tables /\ UNCHANGED <<payment, version>>
      /\ UNCHANGED <<announced, answers, crashes>>
      /\ tx[p].stage = "charge"
  BY DEF Charge, IInv, tables
<1>3. tx[p] \in Transaction /\ o \in Orders
  BY <1>1, <1>2 DEF TypeOK, Transaction
<1>4. t \in Transaction
  BY <1>3 DEF Transaction, Stage, PaymentStatus
<1>5. Fits(t)
  <2>1. Fits(tx[p]) /\ RowInv
    BY DEF IInv
  <2>2. tx[p].webhook = {} /\ \A q \in Orders : tx[p].seen[q] = 0
    BY <1>2, <2>1 DEF Fits, Carries
  <2>3. Carries(t)
    BY <1>3, <2>2 DEF Carries, Transaction
  <2>4. ASSUME NEW q \in Orders PROVE Knows(t, q)
    <3>1. t.seen[q] = 0 /\ t.stage = "publish" /\ Knows(tx[p], q)
      BY <1>3, <2>1, <2>2 DEF Transaction, Fits
    <3>2. t.plan[q] = IF q = o THEN status ELSE tx[p].plan[q]
      BY <1>3 DEF Transaction
    <3>3. version[q] \in Nat /\ (version[q] = 0 => payment[q] = "NONE")
      BY <1>2, <2>1 DEF TypeOK, RowInv
    <3>4. tx[p].seen[q] = 0
      BY <2>2
    <3>5. QED
      BY <3>1, <3>2, <3>3, <3>4 DEF Knows, MayMove
  <2>5. QED
    BY <2>3, <2>4 DEF Fits
<1>6. tx' \in [Threads -> Transaction] /\ \A q \in Threads : Fits(tx[q])'
  BY <1>1, <1>2, <1>4, <1>5, EnterFits
<1>7. charges' \in [Orders -> Nat]
  BY <1>1, <1>2, <1>3 DEF TypeOK
<1>8. TypeOK'
  BY <1>2, <1>6, <1>7 DEF TypeOK, PaymentTypeOK, tables
<1>9. QED
  BY <1>2, <1>6, <1>8, RowsStay DEF IInv

\* (the frame of the actions that answer nobody and leave the rows alone)
LEMMA QuietStep ==
  ASSUME IInv, NEW p \in Threads, NEW t \in Transaction, Fits(t), Enter(p, t),
         UNCHANGED <<tables, charges, answers, crashes>>,
         announced' \in [Notice -> 0..MaxCopies]
  PROVE  IInv'
<1>1. TypeOK /\ UNCHANGED <<payment, version, recorded>>
  BY DEF IInv, tables
<1>2. tx' \in [Threads -> Transaction] /\ \A q \in Threads : Fits(tx[q])'
  BY <1>1, EnterFits
<1>3. TypeOK'
  BY <1>1, <1>2 DEF TypeOK, PaymentTypeOK
<1>4. QED
  BY <1>1, <1>2, <1>3, RowsStay DEF IInv

\* (the event goes out before the commit)
LEMMA PublishEventInv ==
  ASSUME IInv, NEW p \in Threads, PublishEvent(p)
  PROVE  IInv'
<1> DEFINE t == [tx[p] EXCEPT !.stage = "commit"]
<1>1. TypeOK /\ Fits(tx[p]) /\ tx[p] \in Transaction /\ tx[p].stage = "publish"
  BY DEF IInv, TypeOK, PublishEvent
<1>2. t \in Transaction /\ Fits(t)
  BY <1>1 DEF Transaction, Stage, Fits, Carries, Knows, TookEffect
<1>3. PICK o \in Writes(p) : Publish(o, tx[p].plan[o])
  BY DEF PublishEvent
<1>4. announced' \in [Notice -> 0..MaxCopies]
  BY <1>1, <1>3, PublishType DEF TypeOK
<1>5. QED
  BY <1>2, <1>4, QuietStep DEF PublishEvent

\* (nothing is announced)
LEMMA SilentStep ==
  ASSUME IInv, NEW p \in Threads, NEW t \in Transaction, Fits(t), Enter(p, t),
         UNCHANGED <<tables, charges, announced, answers, crashes>>
  PROVE  IInv'
<1>1. announced' \in [Notice -> 0..MaxCopies]
  BY DEF IInv, TypeOK
<1>2. QED
  BY <1>1, QuietStep

\* (a webhook arrives)
LEMMA ReceiveInv ==
  ASSUME IInv, NEW p \in Threads, NEW w \in Webhooks, Receive(p, w)
  PROVE  IInv'
<1> DEFINE t == [Idle EXCEPT !.stage = "record", !.webhook = {w}]
<1>1. t \in Transaction
  BY IdleType DEF Transaction, Idle, Stage
<1>2. Fits(t)
  BY DEF IInv, TypeOK, Fits, Carries, Knows, Idle, NoPlan
<1>3. QED
  BY <1>1, <1>2, SilentStep DEF Receive

\* (the webhook is saved, and found recorded or not)
LEMMA RecordInv ==
  ASSUME IInv, NEW p \in Threads, RecordWebhook(p)
  PROVE  IInv'
<1>1. TypeOK /\ Fits(tx[p]) /\ tx[p] \in Transaction /\ tx[p].stage = "record"
  BY DEF IInv, TypeOK, RecordWebhook
<1>2. PICK b \in BOOLEAN : Enter(p, [tx[p] EXCEPT !.stage = "locate", !.insert = b])
  BY DEF RecordWebhook
<1> DEFINE t == [tx[p] EXCEPT !.stage = "locate", !.insert = b]
<1>3. t \in Transaction
  BY <1>1 DEF Transaction, Stage
<1>4. Fits(t)
  BY <1>1 DEF Transaction, Fits, Carries, Knows
<1>5. QED
  BY <1>2, <1>3, <1>4, SilentStep DEF RecordWebhook

\* (a webhook finds its payment, or none)
LEMMA LocateInv ==
  ASSUME IInv, NEW p \in Threads, Locate(p)
  PROVE  IInv'
<1>1. TypeOK /\ Fits(tx[p]) /\ tx[p] \in Transaction /\ tx[p].stage = "locate"
  BY DEF IInv, TypeOK, Locate
<1>2. PICK w \in tx[p].webhook :
        \/ /\ MoveLegal(payment[w.order], w.to)
           /\ Enter(p, [tx[p] EXCEPT !.stage = "publish", !.seen = VersionsOf({w.order}),
                                     !.plan[w.order] = w.to])
        \/ /\ w.to \in {payment[w.order], "OTHER"}
           /\ Enter(p, [tx[p] EXCEPT !.stage = "commit"])
        \/ Leave(p)
  BY DEF Locate
<1>3. w \in Webhooks /\ w.order \in Orders /\ w.to \in WebhookTypes
  BY <1>1, <1>2, WebhookType DEF Transaction
<1>4. tx[p].webhook = {w} /\ tx[p].plan = NoPlan
  BY <1>1, <1>2 DEF Fits, Carries
<1>5. CASE /\ MoveLegal(payment[w.order], w.to)
           /\ Enter(p, [tx[p] EXCEPT !.stage = "publish", !.seen = VersionsOf({w.order}),
                                     !.plan[w.order] = w.to])
  <2> DEFINE t == [tx[p] EXCEPT !.stage = "publish", !.seen = VersionsOf({w.order}),
                                !.plan[w.order] = w.to]
  <2>1. w.to \in PaymentStatus /\ CanBecome(payment[w.order], w.to)
    BY <1>5 DEF MoveLegal, CanBecome, PaymentStatus
  <2>2. t \in Transaction
    BY <1>1, <1>3, <2>1, VersionsType DEF Transaction, Stage
  <2>3. t.stage = "publish" /\ t.webhook = {w} /\ t.seen = VersionsOf({w.order})
    BY <1>1, <1>4 DEF Transaction
  <2>4. \A o \in Orders : t.plan[o] = IF o = w.order THEN w.to ELSE "NONE"
    BY <1>1, <1>4 DEF Transaction, NoPlan
  <2>5. Carries(t)
    BY <1>3, <2>3, <2>4 DEF Carries
  <2>6. ASSUME NEW o \in Orders PROVE Knows(t, o)
    BY <1>1, <1>3, <2>1, <2>3, <2>4
    DEF Knows, VersionsOf, MayMove, CanBecome, TypeOK, PaymentStatus
  <2>7. Fits(t)
    BY <2>5, <2>6 DEF Fits
  <2>8. QED
    BY <1>5, <2>2, <2>7, SilentStep DEF Locate
<1>6. CASE w.to \in {payment[w.order], "OTHER"} /\ Enter(p, [tx[p] EXCEPT !.stage = "commit"])
  <2> DEFINE t == [tx[p] EXCEPT !.stage = "commit"]
  <2>1. t \in Transaction
    BY <1>1 DEF Transaction, Stage
  <2>2. TookEffect(w)
    BY <1>6 DEF TookEffect
  <2>3. Fits(t)
    BY <1>1, <1>4, <2>2 DEF Transaction, Fits, Carries, Knows
  <2>4. QED
    BY <1>6, <2>1, <2>3, SilentStep DEF Locate
<1>7. CASE Leave(p)
  BY <1>1, <1>7, IdleType, IdleFits, SilentStep DEF Leave, Locate
<1>8. QED
  BY <1>2, <1>5, <1>6, <1>7

\* (a sweep reads what it will settle)
LEMMA BeginSweepInv ==
  ASSUME IInv, NEW p \in Threads, BeginSweep(p)
  PROVE  IInv'
<1> DEFINE t == [Idle EXCEPT !.stage = "sweep", !.orders = Sweepable,
                             !.seen = VersionsOf(Sweepable)]
<1>1. TypeOK
  BY DEF IInv
<1>2. t \in Transaction
  BY <1>1, IdleType, VersionsType DEF Transaction, Idle, Stage, Sweepable
<1>3. Fits(t)
  BY <1>1 DEF TypeOK, Fits, Carries, Knows, Idle, NoPlan, VersionsOf, Sweepable,
              PaymentStatus
<1>4. QED
  BY <1>2, <1>3, SilentStep DEF BeginSweep

\* (a sweep asks for one settlement and stages the move)
LEMMA SweepOneInv ==
  ASSUME IInv, NEW p \in Threads, SweepOne(p)
  PROVE  IInv'
<1>1. TypeOK /\ Fits(tx[p]) /\ tx[p] \in Transaction /\ tx[p].stage = "sweep"
  BY DEF IInv, TypeOK, SweepOne
<1>2. PICK o \in tx[p].orders, settlement \in Settlements :
        LET rest == [tx[p] EXCEPT
                       !.orders = @ \ {o},
                       !.stage = IF tx[p].orders = {o} THEN "commit" ELSE "sweep"] IN
        IF settlement = "PENDING"
        THEN /\ Enter(p, rest)
             /\ UNCHANGED announced
        ELSE /\ Enter(p, [rest EXCEPT !.plan[o] = settlement])
             /\ Publish(o, settlement)
  BY DEF SweepOne
<1> DEFINE rest == [tx[p] EXCEPT
                      !.orders = @ \ {o},
                      !.stage = IF tx[p].orders = {o} THEN "commit" ELSE "sweep"]
           t == [rest EXCEPT !.plan[o] = settlement]
<1>3. o \in Orders /\ (tx[p].seen[o] = version[o] => payment[o] = "CAPTURED")
  BY <1>1, <1>2 DEF Transaction, Fits, Knows
<1>4. rest \in Transaction /\ rest.webhook = {} /\ rest.stage \in {"commit", "sweep"}
  BY <1>1 DEF Transaction, Stage, Fits, Carries
<1>5. Fits(rest)
  <2>1. Carries(rest)
    BY <1>4 DEF Carries
  <2>2. ASSUME NEW q \in Orders PROVE Knows(rest, q)
    BY <1>1 DEF Transaction, Fits, Knows
  <2>3. QED
    BY <2>1, <2>2 DEF Fits
<1>6. CASE settlement = "PENDING"
  <2>1. Enter(p, rest) /\ UNCHANGED announced
    BY <1>2, <1>6
  <2>2. QED
    BY <1>4, <1>5, <2>1, SilentStep DEF SweepOne
<1>7. CASE settlement # "PENDING"
  <2>1. Enter(p, t) /\ Publish(o, settlement)
    BY <1>2, <1>7
  <2>2. settlement \in {"SETTLED", "FAILED"} /\ settlement \in PaymentStatus
    BY <1>7, PaymentsAssumption DEF PaymentStatus
  <2>3. t \in Transaction /\ t.webhook = {} /\ t.stage \in {"commit", "sweep"}
    BY <1>3, <1>4, <2>2 DEF Transaction
  <2>4. Fits(t)
    <3>1. Carries(t)
      BY <2>3 DEF Carries
    <3>2. ASSUME NEW q \in Orders PROVE Knows(t, q)
      <4>1. t.plan[q] = IF q = o THEN settlement ELSE rest.plan[q]
        BY <1>3, <1>4 DEF Transaction
      <4>2. t.seen = tx[p].seen /\ t.orders = rest.orders /\ t.stage = rest.stage
            /\ rest.seen = tx[p].seen
        BY <1>1, <1>4 DEF Transaction
      <4>3. Knows(rest, q)
        BY <1>5 DEF Fits
      <4>4. QED
        BY <1>3, <2>2, <4>1, <4>2, <4>3 DEF Knows, MayMove, CanBecome
    <3>3. QED
      BY <3>1, <3>2 DEF Fits
  <2>5. announced' \in [Notice -> 0..MaxCopies]
    BY <1>1, <2>1, PublishType DEF TypeOK
  <2>6. QED
    BY <2>1, <2>3, <2>4, <2>5, QuietStep DEF SweepOne
<1>8. QED
  BY <1>6, <1>7

\* (what was staged is lost with the transaction)
LEMMA CrashInv ==
  ASSUME IInv, NEW p \in Threads, Crash(p)
  PROVE  IInv'
<1>1. TypeOK /\ Enter(p, Idle) /\ UNCHANGED <<tables, charges, announced, answers>>
      /\ UNCHANGED <<payment, version>>
  BY DEF IInv, Crash, Leave, tables
<1>2. tx' \in [Threads -> Transaction] /\ \A q \in Threads : Fits(tx[q])'
  BY <1>1, IdleType, IdleFits, EnterFits
<1>3. crashes' \in 0..MaxCrashes
  BY <1>1, PaymentsAssumption DEF Crash, TypeOK
<1>4. TypeOK'
  BY <1>1, <1>2, <1>3 DEF TypeOK, PaymentTypeOK, tables
<1>5. QED
  BY <1>1, <1>2, <1>4, RowsStay DEF IInv

(***************************************************************************)
(* A commit that succeeds moves each of its payments as the desk allows,   *)
(* since their versions are the ones the transaction saw.                  *)
(***************************************************************************)
LEMMA CommitMoves ==
  ASSUME IInv, NEW p \in Threads, UnchangedSinceRead(p),
         payment' = [o \in Orders |-> IF o \in Writes(p) THEN tx[p].plan[o] ELSE payment[o]],
         version' = [o \in Orders |-> IF o \in Writes(p) THEN version[o] + 1 ELSE version[o]],
         NEW o \in Orders
  PROVE  /\ o \in Writes(p) => /\ MayMove(payment[o], payment'[o])
                               /\ payment'[o] = tx[p].plan[o]
                               /\ version'[o] = version[o] + 1
         /\ o \notin Writes(p) => payment'[o] = payment[o] /\ version'[o] = version[o]
<1>1. Knows(tx[p], o)
  BY DEF IInv, Fits
<1>2. CASE o \in Writes(p)
  BY <1>1, <1>2 DEF UnchangedSinceRead, Knows, Writes
<1>3. QED
  BY <1>2

\* (what other threads know stays true after such a commit)
LEMMA OthersStillFit ==
  ASSUME NEW t \in Transaction, Fits(t), TypeOK,
         payment' \in [Orders -> PaymentStatus], version' \in [Orders -> Nat],
         \A o \in Orders :
           \/ payment'[o] = payment[o] /\ version'[o] = version[o]
           \/ MayMove(payment[o], payment'[o]) /\ version'[o] = version[o] + 1
  PROVE  Fits(t)'
<1>1. ASSUME NEW o \in Orders PROVE Knows(t, o)'
  <2>1. Knows(t, o) /\ t.seen[o] \in Nat /\ version[o] \in Nat
    BY DEF Fits, TypeOK, Transaction
  <2>2. CASE payment'[o] = payment[o] /\ version'[o] = version[o]
    BY <2>1, <2>2 DEF Knows
  <2>3. CASE MayMove(payment[o], payment'[o]) /\ version'[o] = version[o] + 1
    <3>1. t.seen[o] <= version'[o] /\ t.seen[o] # version'[o]
      BY <2>1, <2>3 DEF Knows
    <3>2. QED
      BY <2>1, <3>1 DEF Knows
  <2>4. QED
    BY <2>2, <2>3
<1>2. ASSUME NEW w \in t.webhook, TookEffect(w) PROVE TookEffect(w)'
  <2>1. w.order \in Orders
    BY WebhookType DEF Transaction
  <2>2. QED
    BY <1>2, <2>1, MovesAreStable DEF TookEffect, TypeOK, PaymentTypeOK
<1>3. Carries(t)'
  BY <1>2 DEF Fits, Carries
<1>4. QED
  BY <1>1, <1>3 DEF Fits

\* (a commit takes effect where no other has moved the row since)
LEMMA CommitInv ==
  ASSUME IInv, NEW p \in Threads, Commit(p)
  PROVE  IInv'
<1>1. TypeOK /\ RowInv /\ Fits(tx[p]) /\ tx[p] \in Transaction /\ tx[p].stage = "commit"
  BY DEF IInv, TypeOK, Commit
<1>2. tx' = [tx EXCEPT ![p] = Idle] /\ UNCHANGED <<charges, announced, crashes>>
  BY DEF Commit, Leave, Enter
<1>3. CASE UNCHANGED <<tables, answers>>
  BY <1>1, <1>2, <1>3, IdleType, IdleFits, SilentStep DEF Enter
<1>4. CASE /\ UnchangedSinceRead(p)
           /\ payment' = [o \in Orders |-> IF o \in Writes(p) THEN tx[p].plan[o] ELSE payment[o]]
           /\ version' = [o \in Orders |-> IF o \in Writes(p) THEN version[o] + 1 ELSE version[o]]
           /\ recorded' = recorded \cup tx[p].webhook
           /\ IF IsCapture(p)
              THEN \E o \in Writes(p) : Answer(o, tx[p].plan[o])
              ELSE UNCHANGED answers
  <2>1. \A o \in Orders :
          /\ o \in Writes(p) => /\ MayMove(payment[o], payment'[o])
                                /\ payment'[o] = tx[p].plan[o]
                                /\ version'[o] = version[o] + 1
          /\ o \notin Writes(p) => payment'[o] = payment[o] /\ version'[o] = version[o]
    BY <1>4, CommitMoves
  <2>2. payment' \in [Orders -> PaymentStatus] /\ version' \in [Orders -> Nat]
    BY <1>1, <1>4 DEF TypeOK, PaymentTypeOK, Transaction
  <2>3. \A a \in answers' :
          \/ a \in answers
          \/ \E o \in Writes(p) : a = [order |-> o, status |-> tx[p].plan[o]]
    BY <1>4 DEF Answer
  <2>4. Writes(p) \subseteq Orders /\ \A o \in Orders : tx[p].plan[o] \in PaymentStatus
    BY <1>1 DEF Writes, Transaction
  <2>5. TypeOK'
    <3>1. tx' \in [Threads -> Transaction]
      BY <1>1, <1>2, IdleType DEF TypeOK
    <3>2. recorded' \subseteq Webhooks
      BY <1>1, <1>4 DEF TypeOK, Transaction
    <3>3. answers' \subseteq Notice
      BY <1>1, <2>3, <2>4 DEF TypeOK, Notice
    <3>4. QED
      BY <1>1, <1>2, <2>2, <3>1, <3>2, <3>3 DEF TypeOK, PaymentTypeOK
  <2>6. RowInv'
    <3>1. ASSUME NEW o \in Orders PROVE payment'[o] = "NONE" <=> version'[o] = 0
      <4>1. version[o] \in Nat
        BY <1>1 DEF TypeOK
      <4>2. QED
        BY <1>1, <2>1, <4>1 DEF RowInv, MayMove, CanBecome
    <3>2. QED
      BY <3>1 DEF RowInv
  <2>7. ASSUME NEW o \in Orders
        PROVE  payment[o] \in PaymentStatus
               /\ (payment'[o] = payment[o] \/ MayMove(payment[o], payment'[o]))
    BY <1>1, <2>1 DEF TypeOK, PaymentTypeOK
  <2>8. \A q \in Threads : Fits(tx[q])'
    <3>1. ASSUME NEW q \in Threads PROVE Fits(tx[q])'
      <4>1. CASE q = p
        <5>1. tx'[q] = Idle
          BY <1>1, <1>2, <4>1 DEF TypeOK
        <5>2. Fits(Idle)'
          BY <2>5 DEF TypeOK, Fits, Carries, Knows, Idle, NoPlan, MayMove
        <5>3. QED
          BY <5>1, <5>2 DEF Fits, Carries, Knows, TookEffect
      <4>2. CASE q # p
        <5>1. tx'[q] = tx[q] /\ tx[q] \in Transaction /\ Fits(tx[q])
          BY <1>1, <1>2, <4>2 DEF TypeOK, IInv
        <5> DEFINE t == tx[q]
        <5>2. \A o \in Orders :
                \/ payment'[o] = payment[o] /\ version'[o] = version[o]
                \/ MayMove(payment[o], payment'[o]) /\ version'[o] = version[o] + 1
          BY <2>1
        <5>3. ASSUME NEW u \in Transaction, Fits(u) PROVE Fits(u)'
          BY <1>1, <2>2, <5>2, <5>3, OthersStillFit
        <5>4. PICK u \in Transaction : u = tx[q] /\ Fits(u)
          BY <5>1
        <5>5. u = tx'[q] /\ Fits(u)'
          BY <5>1, <5>3, <5>4
        <5>6. QED
          BY <5>5 DEF Fits, Carries, Knows, TookEffect
      <4>3. QED
        BY <4>1, <4>2
    <3>2. QED
      BY <3>1
  <2>9. AnswersAgree'
    <3>1. ASSUME NEW a \in answers
          PROVE  payment'[a.order] # "NONE" /\ (a.status = "DECLINED" <=> payment'[a.order] = "DECLINED")
      <4>1. a.order \in Orders /\ AnswersAgree
        BY <1>1 DEF IInv, TypeOK, Notice
      <4>2. QED
        BY <2>7, <4>1, MovesAreStable DEF AnswersAgree
    <3>2. ASSUME NEW o \in Writes(p)
          PROVE  payment'[o] = tx[p].plan[o] /\ payment'[o] # "NONE"
      BY <2>1, <2>4 DEF MayMove, CanBecome
    <3>3. QED
      BY <2>3, <3>1, <3>2 DEF AnswersAgree
  <2>10. RecordedTookEffect'
    <3>1. ASSUME NEW w \in recorded' PROVE TookEffect(w)'
      <4>1. w \in Webhooks /\ w.order \in Orders /\ w.to \in WebhookTypes
        BY <2>5, WebhookType DEF TypeOK
      <4>2. ASSUME TookEffect(w) PROVE TookEffect(w)'
        BY <2>7, <4>1, <4>2, MovesAreStable DEF TookEffect
      <4>3. CASE w \in recorded
        BY <4>2, <4>3 DEF IInv, RecordedTookEffect, TookEffect
      <4>4. CASE w \in tx[p].webhook
        <5>1. tx[p].plan[w.order] = w.to \/ TookEffect(w)
          BY <1>1, <4>4 DEF Fits, Carries
        <5>2. CASE tx[p].plan[w.order] = w.to
          <6>1. w.order \in Writes(p)
            BY <4>1, <5>2 DEF Writes, WebhookTypes
          <6>2. payment'[w.order] = w.to
            BY <2>1, <4>1, <5>2, <6>1
          <6>3. QED
            BY <6>2 DEF TookEffect
        <5>3. QED
          BY <4>2, <5>1, <5>2
      <4>5. QED
        BY <1>4, <4>3, <4>4
    <3>2. QED
      BY <3>1 DEF RecordedTookEffect, TookEffect
  <2>11. QED
    BY <2>5, <2>6, <2>8, <2>9, <2>10 DEF IInv
<1>5. QED
  BY <1>3, <1>4 DEF Commit

\* (every step keeps the invariant)
LEMMA NextInv == IInv /\ [Next]_vars => IInv'
<1> SUFFICES ASSUME IInv, [Next]_vars PROVE IInv'
  OBVIOUS
<1>1. ASSUME NEW p \in Threads, ThreadStep(p) PROVE IInv'
  BY <1>1, ChargeInv, PublishEventInv, RecordInv, LocateInv, SweepOneInv, CommitInv
     DEF ThreadStep
<1>2. ASSUME NEW p \in Threads, Crash(p) PROVE IInv'
  BY <1>2, CrashInv
<1>3. ASSUME NEW p \in Handlers, NEW o \in Orders, LookUp(p, o) PROVE IInv'
  BY <1>3, LookUpInv DEF Threads
<1>4. ASSUME NEW p \in Handlers, NEW w \in Webhooks, Receive(p, w) PROVE IInv'
  BY <1>4, ReceiveInv DEF Threads
<1>5. ASSUME NEW p \in Sweepers, BeginSweep(p) PROVE IInv'
  BY <1>5, BeginSweepInv DEF Threads
<1>6. CASE UNCHANGED vars
  BY <1>6
  DEF vars, tables, IInv, TypeOK, PaymentTypeOK, RowInv, Fits, Carries, Knows, TookEffect,
      MayMove, CanBecome, AnswersAgree, RecordedTookEffect
<1>7. QED
  BY <1>1, <1>2, <1>3, <1>4, <1>5, <1>6 DEF Next

-----------------------------------------------------------------------------
(***************************************************************************)
(* The inductive invariant holds: what each running transaction knows of   *)
(* the rows it read.                                                       *)
(***************************************************************************)
THEOREM InvariantHolds == Spec => []IInv
<1>1. Init => IInv
  BY InitInv
<1>2. IInv /\ [Next]_vars => IInv'
  BY NextInv
<1>3. QED
  BY <1>1, <1>2, PTL DEF Spec

(***************************************************************************)
(* Every variable of the payment service keeps its type.                   *)
(***************************************************************************)
THEOREM TypeCorrect == Spec => []TypeOK
<1>1. IInv => TypeOK
  BY DEF IInv
<1>2. QED
  BY <1>1, InvariantHolds, PTL

(***************************************************************************)
(* What captures were answered agrees with the rows (PaymentService: the   *)
(* answer is returned when the transaction has committed).                 *)
(***************************************************************************)
THEOREM AnswersAgreeAlways == Spec => []AnswersAgree
<1>1. IInv => AnswersAgree
  BY DEF IInv
<1>2. QED
  BY <1>1, InvariantHolds, PTL

(***************************************************************************)
(* A recorded webhook took effect (ReconciliationService.handleWebhook:    *)
(* the dedupe row and the move are one transaction).                       *)
(***************************************************************************)
THEOREM RecordedTookEffectAlways == Spec => []RecordedTookEffect
<1>1. IInv => RecordedTookEffect
  BY DEF IInv
<1>2. QED
  BY <1>1, InvariantHolds, PTL

(***************************************************************************)
(* Every step of the service is a step of the desk, or none.               *)
(***************************************************************************)
LEMMA StepsImplement == IInv /\ IInv' /\ [Next]_vars => [DeskNext]_payment
<1> SUFFICES ASSUME IInv, IInv', [Next]_vars, payment' # payment PROVE DeskNext
  BY DEF DeskNext
<1>1. PICK p \in Threads : Commit(p)
  BY DEF Next, ThreadStep, vars, tables, LookUp, Charge, PublishEvent, Receive,
         RecordWebhook, Locate, BeginSweep, SweepOne, Crash, Threads
<1>2. /\ UnchangedSinceRead(p)
      /\ payment' = [o \in Orders |-> IF o \in Writes(p) THEN tx[p].plan[o] ELSE payment[o]]
      /\ version' = [o \in Orders |-> IF o \in Writes(p) THEN version[o] + 1 ELSE version[o]]
  BY <1>1 DEF Commit, tables
<1>3. \A o \in Orders :
        /\ o \in Writes(p) => MayMove(payment[o], payment'[o])
        /\ o \notin Writes(p) => payment'[o] = payment[o]
  BY <1>2, CommitMoves
<1>4. payment' \in [Orders -> PaymentStatus] /\ Writes(p) \in SUBSET Orders
  BY DEF IInv, TypeOK, PaymentTypeOK, Writes
<1>5. QED
  BY <1>3, <1>4 DEF DeskNext

(***************************************************************************)
(* The transactional service implements the desk, the contract under which *)
(* the saga is verified: for any number of captures, webhooks and sweeps   *)
(* at once, no payment moves twice or against its state machine.           *)
(***************************************************************************)
THEOREM DeskImplemented == Spec => ImplementsDesk
<1>1. Init => PaymentInit
  BY DEF Init
<1>2. IInv /\ IInv' /\ [Next]_vars => [DeskNext]_payment
  BY StepsImplement
<1>3. QED
  BY <1>1, <1>2, InvariantHolds, PTL DEF Spec, ImplementsDesk, DeskSpec
=============================================================================
