----------------------------- MODULE SagaProofs -----------------------------
(***************************************************************************)
(* Theorems about Saga for any orders, SKUs, workers, partitions and       *)
(* bounds: whatever crashes, rebalances, late calls and the provider do,   *)
(* the state is well typed, an order is decided at most once, a terminal   *)
(* saga row agrees with its order, no message is skipped and a confirmed   *)
(* order is backed by its payment and its stock.                           *)
(*                                                                         *)
(* The properties lean on each other through the workers: an offset is     *)
(* committed because a worker saw its order decided, a row is terminal     *)
(* because the worker that wrote it did.  WorkerInv says what a worker     *)
(* knows at each point of the loop and of the handler, ReaderInv what is   *)
(* true of the messages of a partition that were delivered.  What holds    *)
(* only with a single orchestrator is proved last.                         *)
(***************************************************************************)
EXTENDS Saga, InventoryLedgerProofs, OrderStoreProofs

-----------------------------------------------------------------------------
(* The inductive invariant.                                                *)

OneWorker == \A v, w \in Workers : v = w

\* The saga of o has nothing left to do.  A row is sure to stay terminal only
\* if no second worker overwrites it.
Settled(o) == IsDecided(o) /\ (OneWorker => Terminal(sagas[o].state))

\* The message at offset i needs no further attention.
Done(i) ==
  /\ log[i].type = "order.placed" => Settled(log[i].order)
  /\ log[i].type = "unparseable" => i \in deadLetters

\* A row, or an instance about to be saved, agrees with its order.
Agrees(row, o) ==
  /\ row.state = "COMPLETED" => Status(events[o]) = "CONFIRMED"
  /\ row.state = "CANCELLED" => Status(events[o]) = "CANCELLED"

\* All messages before the one in hand, in its partition, are done, and it too
\* once handled.
LoopInv(w) ==
  /\ loop[w] \in {"handle", "commit"} =>
       /\ current[w] \in 1..Len(log)
       /\ \A i \in 1..(current[w] - 1) : PartitionAt(i) = PartitionAt(current[w]) => Done(i)
  /\ loop[w] = "commit" => Done(current[w])

InProgress(w, i) == loop[w] = "handle" /\ i = current[w]

\* So are all of p that its owner's reader delivered, but for one in progress.
ReaderInv(p) ==
  /\ position[p] <= Len(log)
  /\ loop[owner[p]] # "down" =>
       \A i \in 1..position[p] : PartitionAt(i) = p => Done(i) \/ InProgress(owner[p], i)

\* A handler works on a placement, appends a decision to a pending order only
\* and saves what agrees with the order.
HandlerInv(w) ==
  /\ step[w] # "idle" =>
       /\ loop[w] = "handle" /\ InHand(w).type = "order.placed"
       /\ OneWorker => ~Terminal(sagas[Order(w)].state)
  /\ step[w] \in {"appendConfirm", "appendCancel"} => version[w] = 1
  /\ step[w] = "save" => inst[w].state # "NONE" /\ Agrees(inst[w], Order(w))

WorkerInv(w) == LoopInv(w) /\ HandlerInv(w)

CommittedInv ==
  \A p \in Partitions :
    /\ committed[p] <= Len(log)
    /\ \A i \in 1..committed[p] : PartitionAt(i) = p => Done(i)

IInv ==
  /\ TypeOK
  /\ OneDecision
  /\ \A o \in Orders : Agrees(sagas[o], o)
  /\ CommittedInv
  /\ \A p \in Partitions : ReaderInv(p)
  /\ \A w \in Workers : WorkerInv(w)

-----------------------------------------------------------------------------
(* What every step does to the state the workers share.                    *)

\* The log grows at its end, dead letters are kept, decided orders too, and a
\* single worker never reopens a saga.
Grows ==
  /\ Len(log) <= Len(log')
  /\ \A i \in 1..Len(log) : log'[i] = log[i]
  /\ deadLetters \subseteq deadLetters'
  /\ \A o \in Orders : IsDecided(o) => events'[o] = events[o]
  /\ OneWorker => \A o \in Orders : Terminal(sagas[o].state) => Terminal(sagas'[o].state)

\* A step of another worker, or of the environment, as w sees it.
Untouched(w) ==
  /\ loop'[w] = loop[w]
  /\ current'[w] = current[w]
  /\ step'[w] = step[w]
  /\ inst'[w] = inst[w]
  /\ version'[w] = version[w]

\* A single worker sees no row change but those it saves itself.
RowsUntouched == OneWorker => \A o \in Orders : sagas'[o] = sagas[o]

\* w stops, or lets go of the message in hand only when it is done.
LetsGo(w) ==
  \/ loop'[w] = "down"
  \/ /\ loop[w] # "down"
     /\ loop[w] = "handle" =>
          current'[w] = current[w] /\ (Done(current[w])' \/ loop'[w] = "handle")

(***************************************************************************)
(* The log holds messages, a message names an order and has a partition.   *)
(***************************************************************************)
LEMMA LogTyped ==
  ASSUME TypeOK, NEW i \in 1..Len(log)
  PROVE  /\ log[i] \in Message
         /\ log[i].order \in Orders
         /\ PartitionAt(i) \in Partitions
<1>1. log \in Seq(Message)
  BY DEF TypeOK, ConsumerTypeOK
<1>2. log[i] \in Message
  BY <1>1, ElementOfSeq
<1>3. PartitionAt(i) \in Partitions
  BY <1>2, KeyAssumption DEF PartitionAt
<1> QED
  BY <1>2, <1>3 DEF Message

(***************************************************************************)
(* A handler has a message in hand, and the message names an order.        *)
(***************************************************************************)
LEMMA InHandTyped ==
  ASSUME TypeOK, NEW w \in Workers, current[w] \in 1..Len(log)
  PROVE  InHand(w) \in Message /\ Order(w) \in Orders
BY LogTyped DEF InHand, Order

LEMMA HandlerTyped ==
  ASSUME TypeOK, NEW w \in Workers, LoopInv(w), HandlerInv(w), step[w] # "idle"
  PROVE  /\ loop[w] = "handle"
         /\ current[w] \in 1..Len(log)
         /\ Order(w) \in Orders
         /\ InHand(w).type = "order.placed"
BY InHandTyped DEF LoopInv, HandlerInv

(***************************************************************************)
(* A message that is done stays done, and in its partition.                *)
(***************************************************************************)
LEMMA DoneStays ==
  ASSUME TypeOK, Grows, NEW i \in 1..Len(log), Done(i)
  PROVE  Done(i)'
<1>1. log'[i] = log[i] /\ log[i].order \in Orders
  BY LogTyped DEF Grows
<1>2. Settled(log[i].order) => Settled(log[i].order)'
  BY <1>1 DEF Grows, IsDecided, Settled, OneWorker
<1> QED
  BY <1>1, <1>2 DEF Done, Grows

LEMMA PartitionStays ==
  ASSUME Grows, NEW i \in 1..Len(log)
  PROVE  PartitionAt(i)' = PartitionAt(i)
BY DEF Grows, PartitionAt

(***************************************************************************)
(* A row that agrees with its order goes on to do so.                      *)
(***************************************************************************)
LEMMA AgreementStays ==
  ASSUME Grows, NEW o \in Orders, NEW row, Agrees(row, o)
  PROVE  /\ row.state = "COMPLETED" => Status(events'[o]) = "CONFIRMED"
         /\ row.state = "CANCELLED" => Status(events'[o]) = "CANCELLED"
BY DEF Grows, Agrees, IsDecided

(***************************************************************************)
(* What w knows of the messages before the one in hand survives every step *)
(* that leaves its place in the loop alone ...                             *)
(***************************************************************************)
LEMMA LoopStays ==
  ASSUME TypeOK, Grows, NEW w \in Workers, LoopInv(w),
         loop'[w] = loop[w], current'[w] = current[w], Len(log') \in Nat
  PROVE  LoopInv(w)'
<1> SUFFICES ASSUME loop[w] \in {"handle", "commit"}
             PROVE  LoopInv(w)'
  BY DEF LoopInv
<1>1. Len(log) \in Nat /\ Len(log) <= Len(log') /\ current[w] \in 1..Len(log)
  BY LenProperties DEF TypeOK, ConsumerTypeOK, Grows, LoopInv
<1>2. current'[w] \in 1..Len(log')
  BY <1>1
<1>3. ASSUME NEW i \in 1..(current[w] - 1), (PartitionAt(i) = PartitionAt(current[w]))'
      PROVE  Done(i)'
  <2>1. i \in 1..Len(log)
    BY <1>1
  <2>2. PartitionAt(i) = PartitionAt(current[w])
    BY <1>1, <1>3, <2>1, PartitionStays DEF PartitionAt, Grows
  <2> QED
    BY <2>1, <2>2, DoneStays DEF LoopInv
<1>4. loop[w] = "commit" => Done(current[w])'
  BY <1>1, DoneStays DEF LoopInv
<1> QED
  BY <1>2, <1>3, <1>4 DEF LoopInv, Done, PartitionAt

\* ... what is known of a partition survives every step that keeps its owner
\* and does not lose the message in progress ...
LEMMA ReaderStays ==
  ASSUME TypeOK, Grows, NEW p \in Partitions, ReaderInv(p), Len(log') \in Nat,
         owner'[p] = owner[p], position'[p] = position[p], LetsGo(owner[p])
  PROVE  ReaderInv(p)'
<1>1. /\ Len(log) \in Nat /\ Len(log) <= Len(log')
      /\ position[p] \in Nat /\ position[p] <= Len(log)
  BY LenProperties DEF TypeOK, ConsumerTypeOK, Grows, ReaderInv
<1>2. ASSUME loop'[owner[p]] # "down", NEW i \in 1..position[p], PartitionAt(i)' = p
      PROVE  Done(i)' \/ InProgress(owner[p], i)'
  <2>1. i \in 1..Len(log)
    BY <1>1
  <2>2. PartitionAt(i) = p
    BY <1>2, <2>1, PartitionStays
  <2>3. Done(i) \/ InProgress(owner[p], i)
    BY <1>2, <2>2 DEF ReaderInv, LetsGo
  <2>4. CASE Done(i)
    BY <2>1, <2>4, DoneStays
  <2>5. CASE InProgress(owner[p], i)
    <3>1. i = current[owner[p]] /\ loop[owner[p]] = "handle"
      BY <2>5 DEF InProgress
    <3>2. current'[owner[p]] = i /\ (loop'[owner[p]] = "handle" \/ Done(current[owner[p]])')
      BY <1>2, <3>1 DEF LetsGo
    <3> QED
      BY <3>1, <3>2 DEF Done, InProgress
  <2> QED
    BY <2>3, <2>4, <2>5
<1>3. position'[p] <= Len(log')
  BY <1>1
<1> QED
  BY <1>2, <1>3 DEF ReaderInv, InProgress

\* ... and so does the message in hand.
LEMMA InHandStays ==
  ASSUME Grows, NEW w \in Workers, current[w] \in 1..Len(log), current'[w] = current[w]
  PROVE  InHand(w)' = InHand(w) /\ Order(w)' = Order(w)
BY DEF InHand, Order, Grows

(***************************************************************************)
(* What w knows survives a step it takes no part in.                       *)
(***************************************************************************)
LEMMA UntouchedKeepsInv ==
  ASSUME TypeOK, TypeOK', Grows, RowsUntouched, NEW w \in Workers, WorkerInv(w),
         Untouched(w)
  PROVE  WorkerInv(w)'
<1>0. Len(log') \in Nat
  BY LenProperties DEF TypeOK, ConsumerTypeOK
<1>1. LoopInv(w)'
  BY <1>0, LoopStays DEF WorkerInv, Untouched
<1>2. CASE step[w] = "idle"
  BY <1>1, <1>2 DEF WorkerInv, HandlerInv, Untouched
<1>3. CASE step[w] # "idle"
  <2>1. /\ loop[w] = "handle"
        /\ current[w] \in 1..Len(log)
        /\ Order(w) \in Orders
        /\ InHand(w).type = "order.placed"
        /\ OneWorker => ~Terminal(sagas[Order(w)].state)
    BY <1>3, HandlerTyped DEF WorkerInv, HandlerInv
  <2>2. InHand(w)' = InHand(w) /\ Order(w)' = Order(w)
    BY <2>1, InHandStays DEF Untouched
  <2>3. Agrees(inst[w], Order(w)) => Agrees(inst[w], Order(w))'
    BY <2>1, <2>2, AgreementStays DEF Agrees, Untouched
  <2>4. OneWorker' => ~Terminal(sagas[Order(w)].state)'
    BY <2>1, <2>2 DEF RowsUntouched, OneWorker
  <2> QED
    BY <1>1, <1>3, <2>1, <2>2, <2>3, <2>4 DEF WorkerInv, HandlerInv, Untouched
<1> QED
  BY <1>2, <1>3

(***************************************************************************)
(* So do the parts of the invariant no worker owns.                        *)
(***************************************************************************)
LEMMA CommittedStays ==
  ASSUME TypeOK, TypeOK', Grows, CommittedInv, committed' = committed
  PROVE  CommittedInv'
<1> SUFFICES ASSUME NEW p \in Partitions
             PROVE  /\ committed[p] <= Len(log')
                    /\ \A i \in 1..committed[p] : PartitionAt(i)' = p => Done(i)'
  BY DEF CommittedInv
<1>1. /\ Len(log) \in Nat /\ Len(log') \in Nat /\ Len(log) <= Len(log')
      /\ committed[p] \in Nat /\ committed[p] <= Len(log)
  BY LenProperties DEF TypeOK, ConsumerTypeOK, Grows, CommittedInv
<1>2. \A i \in 1..committed[p] : i \in 1..Len(log)
  BY <1>1
<1> QED
  BY <1>1, <1>2, DoneStays, PartitionStays DEF CommittedInv

LEMMA RowsStay ==
  ASSUME Grows, \A o \in Orders : Agrees(sagas[o], o), sagas' = sagas
  PROVE  \A o \in Orders : Agrees(sagas[o], o)'
BY AgreementStays DEF Agrees

LEMMA ReadersStay ==
  ASSUME IInv, TypeOK', Grows, UNCHANGED <<owner, position>>,
         \A v \in Workers : Untouched(v) \/ LetsGo(v)
  PROVE  \A p \in Partitions : ReaderInv(p)'
<1> SUFFICES ASSUME NEW p \in Partitions PROVE ReaderInv(p)'
  OBVIOUS
<1>1. owner[p] \in Workers /\ Len(log') \in Nat
  BY LenProperties DEF IInv, TypeOK, ConsumerTypeOK
<1>2. LetsGo(owner[p])
  BY <1>1 DEF Untouched, LetsGo
<1> QED
  BY <1>1, <1>2, ReaderStays DEF IInv

(***************************************************************************)
(* How a step is shown to keep the invariant: it keeps the types, what it  *)
(* does to the shared state is growth, and each worker either takes no     *)
(* part in it or knows what it has to know afterwards.                     *)
(***************************************************************************)
LEMMA StepKeepsInv ==
  ASSUME IInv, TypeOK', Grows, OneDecision', CommittedInv',
         \A o \in Orders : Agrees(sagas[o], o)',
         \A p \in Partitions : ReaderInv(p)',
         \A v \in Workers : WorkerInv(v)' \/ (Untouched(v) /\ RowsUntouched)
  PROVE  IInv'
BY UntouchedKeepsInv DEF IInv

\* A step that leaves histories, saga rows and the committed offsets alone.
LEMMA QuietStepKeepsInv ==
  ASSUME IInv, TypeOK', Grows, UNCHANGED <<events, sagas, committed>>,
         \A p \in Partitions : ReaderInv(p)',
         \A v \in Workers : Untouched(v) \/ WorkerInv(v)'
  PROVE  IInv'
<1>1. OneDecision'
  BY DEF IInv, OneDecision
<1>2. CommittedInv' /\ \A o \in Orders : Agrees(sagas[o], o)'
  BY CommittedStays, RowsStay DEF IInv
<1>3. RowsUntouched
  BY DEF RowsUntouched
<1> QED
  BY <1>1, <1>2, <1>3, StepKeepsInv

LEMMA SameGrows ==
  ASSUME TypeOK, UNCHANGED <<log, events, sagas>>, deadLetters \subseteq deadLetters'
  PROVE  Grows
<1> Len(log) \in Nat
  BY LenProperties DEF TypeOK, ConsumerTypeOK
<1> QED
  BY DEF Grows

-----------------------------------------------------------------------------
(* Steps of the loop.                                                      *)

\* A worker that stops knows nothing.
LEMMA StoppedKnowsNothing ==
  ASSUME NEW w \in Workers, loop'[w] = "down", step'[w] = "idle"
  PROVE  WorkerInv(w)' /\ LetsGo(w)
BY DEF WorkerInv, LoopInv, HandlerInv, LetsGo

\* A worker may count a message as handled when the message is done.
LEMMA HandledKeepsInv ==
  ASSUME IInv, TypeOK', NEW w \in Workers, loop[w] = "handle",
         Grows, Done(current[w])', UNCHANGED <<log, current>>,
         loop'[w] = "commit", step'[w] = "idle"
  PROVE  WorkerInv(w)' /\ LetsGo(w)
<1>1. LoopInv(w) /\ current[w] \in Nat /\ Len(log) \in Nat
  BY LenProperties DEF IInv, WorkerInv, TypeOK, ConsumerTypeOK
<1>2. \A i \in 1..(current[w] - 1) : PartitionAt(i) = PartitionAt(current[w]) => Done(i)'
  <2>1. \A i \in 1..(current[w] - 1) : i \in 1..Len(log)
    BY <1>1 DEF LoopInv
  <2> QED
    BY <1>1, <2>1, DoneStays DEF IInv, LoopInv
<1>3. LoopInv(w)'
  BY <1>1, <1>2 DEF LoopInv, PartitionAt, Done
<1>4. HandlerInv(w)'
  BY DEF HandlerInv
<1> QED
  BY <1>3, <1>4 DEF WorkerInv, LetsGo

LEMMA FetchMessageKeepsInv ==
  ASSUME IInv, NEW w \in Workers, NEW p \in Partitions, FetchMessage(w, p)
  PROVE  IInv'
<1> USE DEF FetchMessage, FetchFrom, services, storeVars, sagaVars
<1>0. log \in Seq(Message) /\ Len(log) \in Nat /\ DOMAIN log = 1..Len(log)
  BY LenProperties DEF IInv, TypeOK, ConsumerTypeOK
<1>1. PICK i \in 1..Len(log) :
        /\ IsNext(i, p)
        /\ position' = [position EXCEPT ![p] = i]
        /\ current' = [current EXCEPT ![w] = i]
  BY <1>0
<1>2. TypeOK'
  <2>1. position' \in [Partitions -> Nat] /\ current' \in [Workers -> Nat]
    BY <1>1 DEF IInv, TypeOK, ConsumerTypeOK
  <2> QED
    BY <2>1 DEF IInv, TypeOK, ConsumerTypeOK, StoreTypeOK, LedgerTypeOK, PaymentTypeOK,
         LoopState, ledgerVars
<1>3. Grows
  BY SameGrows DEF IInv
<1>4. \A v \in Workers \ {w} : Untouched(v)
  BY <1>1 DEF Untouched, IInv, TypeOK, ConsumerTypeOK
<1>5. /\ current'[w] = i
      /\ position'[p] = i
      /\ loop'[w] = "handle"
      /\ \A q \in Partitions \ {p} : position'[q] = position[q]
  BY <1>1 DEF IInv, TypeOK, ConsumerTypeOK
<1>6. ASSUME NEW j \in 1..(i - 1), PartitionAt(j) = p
      PROVE  Done(j)'
  <2>1. j \in 1..Len(log) /\ position[p] \in Nat
    BY <1>0 DEF IInv, TypeOK, ConsumerTypeOK
  <2>2. j \in 1..position[p]
    BY <1>1, <1>6, <2>1 DEF IsNext
  <2>3. Done(j)
    BY <1>6, <2>2 DEF IInv, ReaderInv, InProgress
  <2> QED
    BY <1>3, <2>1, <2>3, DoneStays DEF IInv
<1>7. WorkerInv(w)'
  <2>1. LoopInv(w)'
    BY <1>0, <1>1, <1>5, <1>6 DEF LoopInv, IsNext, PartitionAt, Done
  <2>2. step[w] = "idle"
    BY DEF IInv, WorkerInv, HandlerInv
  <2> QED
    BY <2>1, <2>2 DEF WorkerInv, HandlerInv
<1>8. LetsGo(w)
  BY <1>5 DEF LetsGo
<1>9. ReaderInv(p)'
  <2>1. \A j \in 1..i : j = i \/ j \in 1..(i - 1)
    BY <1>0
  <2> QED
    BY <1>0, <1>1, <1>5, <1>6, <2>1 DEF ReaderInv, InProgress, PartitionAt, Done
<1>10. ASSUME NEW q \in Partitions \ {p}
       PROVE  ReaderInv(q)'
  <2>1. LetsGo(owner[q])
    BY <1>4, <1>8 DEF LetsGo, Untouched, IInv, TypeOK, ConsumerTypeOK
  <2> QED
    BY <1>0, <1>3, <1>5, <2>1, ReaderStays DEF IInv
<1> QED
  BY <1>2, <1>3, <1>4, <1>7, <1>9, <1>10, QuietStepKeepsInv

LEMMA IgnoreEventKeepsInv ==
  ASSUME IInv, NEW w \in Workers, IgnoreEvent(w) \/ PublishDeadLetter(w)
  PROVE  IInv'
<1> USE DEF IgnoreEvent, PublishDeadLetter, Handled, DeadLetter, services, storeVars, sagaVars
<1>1. TypeOK'
  <2>1. current[w] \in Nat
    BY DEF IInv, TypeOK, ConsumerTypeOK
  <2> QED
    BY <2>1 DEF IInv, TypeOK, ConsumerTypeOK, StoreTypeOK, LedgerTypeOK, PaymentTypeOK,
         LoopState, ledgerVars
<1>2. Grows
  BY SameGrows DEF IInv
<1>3. \A v \in Workers \ {w} : Untouched(v)
  BY DEF Untouched, IInv, TypeOK, ConsumerTypeOK
<1>4. loop'[w] = "commit"
  BY DEF IInv, TypeOK, ConsumerTypeOK
<1>5. Done(current[w])'
  BY DEF Done, InHand, Decisions
<1>6. WorkerInv(w)' /\ LetsGo(w)
  BY <1>1, <1>2, <1>4, <1>5, HandledKeepsInv
<1>7. \A p \in Partitions : ReaderInv(p)'
  BY <1>1, <1>2, <1>3, <1>6, ReadersStay
<1> QED
  BY <1>1, <1>2, <1>3, <1>6, <1>7, QuietStepKeepsInv

\* The offset committed is that of a message handled.
LEMMA CommitKeepsInv ==
  ASSUME IInv, NEW w \in Workers, Commit(w)
  PROVE  IInv'
<1> USE DEF Commit, CommitOffset, services, storeVars, sagaVars
<1> DEFINE q == PartitionAt(current[w])
<1>0. Len(log) \in Nat
  BY LenProperties DEF IInv, TypeOK, ConsumerTypeOK
<1>1. TypeOK'
  <2>1. committed' \in [Partitions -> Nat]
    BY DEF IInv, TypeOK, ConsumerTypeOK
  <2> QED
    BY <2>1 DEF IInv, TypeOK, ConsumerTypeOK, StoreTypeOK, LedgerTypeOK, PaymentTypeOK,
         LoopState, ledgerVars
<1>2. Grows
  BY SameGrows DEF IInv
<1>3. \A v \in Workers \ {w} : Untouched(v)
  BY DEF Untouched, IInv, TypeOK, ConsumerTypeOK
<1>4. /\ current[w] \in 1..Len(log)
      /\ \A i \in 1..(current[w] - 1) : PartitionAt(i) = q => Done(i)
      /\ Done(current[w])
  BY DEF IInv, WorkerInv, LoopInv
<1>5. \A i \in 1..Len(log) : PartitionAt(i)' = PartitionAt(i) /\ (Done(i) => Done(i)')
  BY <1>2, DoneStays, PartitionStays DEF IInv
<1>6. CommittedInv'
  <2> SUFFICES ASSUME NEW p \in Partitions
               PROVE  /\ committed'[p] <= Len(log)
                      /\ \A i \in 1..committed'[p] : PartitionAt(i)' = p => Done(i)'
    BY DEF CommittedInv
  <2>1. CASE p = q
    <3>1. committed'[p] = current[w]
      BY <2>1 DEF IInv, TypeOK, ConsumerTypeOK
    <3>2. \A i \in 1..current[w] : i \in 1..Len(log) /\ (i = current[w] \/ i \in 1..(current[w] - 1))
      BY <1>0, <1>4
    <3> QED
      BY <1>0, <1>4, <1>5, <2>1, <3>1, <3>2
  <2>2. CASE p # q
    <3>1. committed'[p] = committed[p] /\ committed[p] \in Nat /\ committed[p] <= Len(log)
      BY <2>2 DEF IInv, TypeOK, ConsumerTypeOK, CommittedInv
    <3>2. \A i \in 1..committed[p] : i \in 1..Len(log)
      BY <1>0, <3>1
    <3> QED
      BY <1>5, <3>1, <3>2 DEF IInv, CommittedInv
  <2> QED
    BY <2>1, <2>2
<1>7. loop'[w] = "fetch" /\ step[w] = "idle"
  BY DEF IInv, TypeOK, ConsumerTypeOK, WorkerInv, HandlerInv
<1>8. WorkerInv(w)' /\ LetsGo(w)
  BY <1>7 DEF WorkerInv, LoopInv, HandlerInv, LetsGo
<1>9. \A p \in Partitions : ReaderInv(p)'
  BY <1>1, <1>2, <1>3, <1>8, ReadersStay
<1>10. OneDecision' /\ (\A o \in Orders : Agrees(sagas[o], o)') /\ RowsUntouched
  BY <1>2, RowsStay DEF IInv, OneDecision, RowsUntouched
<1> QED
  BY <1>1, <1>2, <1>3, <1>6, <1>8, <1>9, <1>10, StepKeepsInv

LEMMA LoseCommitKeepsInv ==
  ASSUME IInv, NEW w \in Workers, LoseCommit(w)
  PROVE  IInv'
<1> USE DEF LoseCommit, CommitRefused, Stop, services, storeVars, sagaVars
<1>1. TypeOK'
  BY DEF IInv, TypeOK, ConsumerTypeOK, StoreTypeOK, LedgerTypeOK, PaymentTypeOK,
         LoopState, ledgerVars
<1>2. Grows
  BY SameGrows DEF IInv
<1>3. \A v \in Workers \ {w} : Untouched(v)
  BY DEF Untouched, IInv, TypeOK, ConsumerTypeOK
<1>4. WorkerInv(w)' /\ LetsGo(w)
  <2>1. loop'[w] = "down"
    BY DEF IInv, TypeOK, ConsumerTypeOK
  <2>2. step'[w] = "idle"
    BY DEF IInv, WorkerInv, HandlerInv
  <2> QED
    BY <2>1, <2>2, StoppedKnowsNothing
<1>5. \A p \in Partitions : ReaderInv(p)'
  BY <1>1, <1>2, <1>3, <1>4, ReadersStay
<1> QED
  BY <1>1, <1>2, <1>3, <1>4, <1>5, QuietStepKeepsInv

\* A restarted worker reads on from the committed offsets, and so do the
\* workers partitions are assigned to.
LEMMA RestartKeepsInv ==
  ASSUME IInv, NEW w \in Workers, RestartWorker(w)
  PROVE  IInv'
<1> USE DEF RestartWorker, Restart, services, storeVars, sagaVars
<1>1. TypeOK'
  <2>1. position' \in [Partitions -> Nat]
    BY DEF IInv, TypeOK, ConsumerTypeOK
  <2> QED
    BY <2>1 DEF IInv, TypeOK, ConsumerTypeOK, StoreTypeOK, LedgerTypeOK, PaymentTypeOK,
         LoopState, ledgerVars
<1>2. Grows
  BY SameGrows DEF IInv
<1>3. \A v \in Workers \ {w} : Untouched(v)
  BY DEF Untouched, IInv, TypeOK, ConsumerTypeOK
<1>4. WorkerInv(w)'
  <2>1. loop'[w] = "fetch" /\ step[w] = "idle"
    BY DEF IInv, TypeOK, ConsumerTypeOK, WorkerInv, HandlerInv
  <2> QED
    BY <2>1 DEF WorkerInv, LoopInv, HandlerInv
<1>5. CommittedInv' /\ Len(log') \in Nat
  BY <1>1, <1>2, CommittedStays, LenProperties DEF IInv, TypeOK, ConsumerTypeOK
<1>6. ASSUME NEW p \in Partitions
      PROVE  ReaderInv(p)'
  <2>1. CASE owner[p] = w
    BY <1>5, <2>1 DEF CommittedInv, ReaderInv
  <2>2. CASE owner[p] # w
    <3>1. owner[p] \in Workers \ {w} /\ position'[p] = position[p]
      BY <2>2 DEF IInv, TypeOK, ConsumerTypeOK
    <3>2. LetsGo(owner[p])
      BY <1>3, <3>1 DEF LetsGo, Untouched
    <3> QED
      BY <1>2, <1>5, <3>1, <3>2, ReaderStays DEF IInv
  <2> QED
    BY <2>1, <2>2
<1> QED
  BY <1>1, <1>2, <1>3, <1>4, <1>6, QuietStepKeepsInv

LEMMA RebalanceKeepsInv ==
  ASSUME IInv, NEW assignment \in [Partitions -> Workers], RebalanceTo(assignment)
  PROVE  IInv'
<1> USE DEF RebalanceTo, Rebalance, services, storeVars, sagaVars
<1>1. TypeOK'
  <2>1. rebalances' \in 0..MaxRebalances
    BY ConsumerAssumption DEF IInv, TypeOK, ConsumerTypeOK
  <2> QED
    BY <2>1 DEF IInv, TypeOK, ConsumerTypeOK, StoreTypeOK, LedgerTypeOK, PaymentTypeOK,
                ledgerVars
<1>2. Grows
  BY SameGrows DEF IInv
<1>3. \A v \in Workers : Untouched(v)
  BY DEF Untouched
<1>4. CommittedInv'
  BY <1>1, <1>2, CommittedStays DEF IInv
<1>5. \A p \in Partitions : ReaderInv(p)'
  BY <1>4 DEF CommittedInv, ReaderInv
<1> QED
  BY <1>1, <1>2, <1>3, <1>5, QuietStepKeepsInv

-----------------------------------------------------------------------------
(* Steps of the handler: how it may end, and how it goes on.               *)

\* Only w takes part in a step that changes nothing but its own memory.
OnlyBy(w) ==
  \A v \in Workers \ {w} : Untouched(v)

(***************************************************************************)
(* Handle returns an error: the worker forgets everything and stops.       *)
(***************************************************************************)
LEMMA GiveUpTyped ==
  ASSUME TypeOK, NEW w \in Workers, GiveUp(w)
  PROVE  /\ ConsumerTypeOK(Message)'
         /\ inst' \in [Workers -> Instance]
         /\ step' \in [Workers -> Step]
         /\ version' \in [Workers -> Nat]
BY DEF TypeOK, ConsumerTypeOK, LoopState, GiveUp, Stop, Forget, Goto, Step,
       NoInstance, Instance, SagaState

LEMMA GiveUpKeepsInv ==
  ASSUME IInv, TypeOK', NEW w \in Workers, GiveUp(w), UNCHANGED <<events, sagas>>
  PROVE  IInv'
<1> USE DEF GiveUp, Stop, Forget, Goto
<1>1. Grows
  BY SameGrows DEF IInv
<1>2. OnlyBy(w)
  BY DEF OnlyBy, Untouched, IInv, TypeOK, ConsumerTypeOK
<1>3. loop'[w] = "down" /\ step'[w] = "idle"
  BY DEF IInv, TypeOK, ConsumerTypeOK
<1>4. WorkerInv(w)' /\ LetsGo(w)
  BY <1>3, StoppedKnowsNothing
<1>5. \A p \in Partitions : ReaderInv(p)'
  BY <1>1, <1>2, <1>4, ReadersStay DEF OnlyBy
<1> QED
  BY <1>1, <1>2, <1>4, <1>5, QuietStepKeepsInv DEF OnlyBy

(***************************************************************************)
(* Handle returns nil, and the message is done.                            *)
(***************************************************************************)
LEMMA FinishTyped ==
  ASSUME TypeOK, NEW w \in Workers, Finish(w)
  PROVE  /\ ConsumerTypeOK(Message)'
         /\ inst' \in [Workers -> Instance]
         /\ step' \in [Workers -> Step]
         /\ version' \in [Workers -> Nat]
BY DEF TypeOK, ConsumerTypeOK, LoopState, Finish, Handled, Forget, Goto, Step,
       NoInstance, Instance, SagaState

LEMMA FinishKeepsInv ==
  ASSUME IInv, TypeOK', Grows, NEW w \in Workers, Finish(w), UNCHANGED events,
         loop[w] = "handle", InHand(w).type = "order.placed",
         IsDecided(Order(w)), Terminal(sagas'[Order(w)].state),
         \A o \in Orders : Agrees(sagas[o], o)'
  PROVE  IInv'
<1> USE DEF Finish, Handled, Forget, Goto
<1>1. OnlyBy(w)
  BY DEF OnlyBy, Untouched, IInv, TypeOK, ConsumerTypeOK
<1>2. loop'[w] = "commit" /\ step'[w] = "idle"
  BY DEF IInv, TypeOK, ConsumerTypeOK
<1>3. Done(current[w])'
  BY DEF Done, InHand, Order, IsDecided, Settled
<1>4. WorkerInv(w)' /\ LetsGo(w)
  BY <1>2, <1>3, HandledKeepsInv
<1>5. \A p \in Partitions : ReaderInv(p)'
  BY <1>1, <1>4, ReadersStay DEF OnlyBy
<1>6. OneDecision' /\ CommittedInv'
  BY CommittedStays DEF IInv, OneDecision
<1>7. (\E v \in Workers : v # w) => RowsUntouched
  BY DEF RowsUntouched, OneWorker
<1> QED
  BY <1>1, <1>4, <1>5, <1>6, <1>7, StepKeepsInv DEF OnlyBy

(***************************************************************************)
(* Handle goes on: the loop stands still, and w knows what it has to know  *)
(* at its next step.                                                       *)
(***************************************************************************)
LEMMA GoOnKeepsInv ==
  ASSUME IInv, TypeOK', Grows, UNCHANGED consumerVars, OneDecision',
         NEW w \in Workers, HandlerInv(w)',
         \A v \in Workers \ {w} :
           step'[v] = step[v] /\ inst'[v] = inst[v] /\ version'[v] = version[v],
         \A o \in Orders : Agrees(sagas[o], o)'
  PROVE  IInv'
<1>1. CommittedInv'
  BY CommittedStays DEF IInv, consumerVars
<1>2. WorkerInv(w)' /\ LetsGo(w)
  <2>1. Len(log') \in Nat
    BY LenProperties DEF TypeOK, ConsumerTypeOK
  <2>2. LoopInv(w)'
    BY <2>1, LoopStays DEF IInv, WorkerInv, consumerVars
  <2>3. LetsGo(w)
    BY DEF LetsGo, consumerVars
  <2> QED
    BY <2>2, <2>3 DEF WorkerInv
<1>3. \A v \in Workers \ {w} : Untouched(v)
  BY DEF Untouched, consumerVars
<1>4. \A p \in Partitions : ReaderInv(p)'
  BY <1>2, <1>3, ReadersStay DEF consumerVars
<1>5. (\E v \in Workers : v # w) => RowsUntouched
  BY DEF RowsUntouched, OneWorker
<1> QED
  BY <1>1, <1>2, <1>3, <1>4, <1>5, StepKeepsInv

-----------------------------------------------------------------------------
(* Orchestrator.Handle.                                                    *)

LEMMA LoadSagaKeepsInv ==
  ASSUME IInv, NEW w \in Workers, LoadSaga(w)
  PROVE  IInv'
<1> DEFINE o == Order(w)
           row == sagas[o]
<1> USE DEF LoadSaga, services, storeVars
<1>1. /\ current[w] \in 1..Len(log)
      /\ InHand(w) \in Message
      /\ o \in Orders
  BY InHandTyped DEF IInv, WorkerInv, LoopInv
<1>2. row \in Instance /\ Agrees(row, o)
  BY <1>1 DEF IInv, TypeOK
<1>3. LedgerTypeOK' /\ PaymentTypeOK' /\ StoreTypeOK' /\ late' \subseteq Call
        /\ faults' \in 0..MaxFaults /\ sagas' \in [Orders -> Instance]
  BY DEF IInv, TypeOK, LedgerTypeOK, PaymentTypeOK, StoreTypeOK, ledgerVars
<1>4. CASE Terminal(row.state) /\ Finish(w)
  <2>1. TypeOK'
    BY <1>3, <1>4, FinishTyped DEF IInv, TypeOK
  <2>2. IsDecided(o)
    BY <1>2, <1>4 DEF Terminal, Agrees, IsDecided
  <2>3. \A p \in Orders : Agrees(sagas[p], p)'
    BY DEF IInv, Agrees
  <2>4. Grows
    BY <1>4, SameGrows DEF IInv, Finish, Handled
  <2>5. Terminal(sagas'[o].state)
    BY <1>4
  <2> QED
    BY <1>4, <2>1, <2>2, <2>3, <2>4, <2>5, FinishKeepsInv
<1>5. ASSUME NEW i \in Instance, NEW s \in Step,
             inst' = [inst EXCEPT ![w] = i], Goto(w, s),
             s \in {"save", "reserve", "authorize", "commit"},
             s = "save" => i = NewInstance,
             ~Terminal(row.state),
             UNCHANGED <<consumerVars, version>>
      PROVE  IInv'
  <2> USE <1>5 DEF Goto, consumerVars
  <2>1. TypeOK'
    BY <1>3 DEF IInv, TypeOK, ConsumerTypeOK
  <2>2. Grows
    BY SameGrows DEF IInv
  <2>3. step'[w] = s /\ inst'[w] = i
    BY DEF IInv, TypeOK
  <2>4. HandlerInv(w)'
    <3>1. InHand(w)' = InHand(w) /\ Order(w)' = o /\ sagas' = sagas
      BY DEF InHand, Order
    <3> QED
      BY <2>3, <3>1 DEF HandlerInv, NewInstance, Agrees
  <2>5. \A v \in Workers \ {w} :
          step'[v] = step[v] /\ inst'[v] = inst[v] /\ version'[v] = version[v]
    BY DEF IInv, TypeOK
  <2>6. OneDecision' /\ \A p \in Orders : Agrees(sagas[p], p)'
    BY DEF IInv, OneDecision, Agrees
  <2> QED
    BY <2>1, <2>2, <2>4, <2>5, <2>6, GoOnKeepsInv
<1>6. CASE ~Found(row) /\ inst' = [inst EXCEPT ![w] = NewInstance] /\ Goto(w, "save")
             /\ UNCHANGED <<consumerVars, version>>
  <2>1. ~Terminal(row.state)
    BY <1>6 DEF Found, Terminal
  <2> QED
    BY <1>5, <1>6, <2>1 DEF NewInstance, Instance, SagaState, Step
<1>7. CASE /\ Found(row)
           /\ ~Terminal(row.state)
           /\ inst' = [inst EXCEPT ![w] = row]
           /\ Goto(w, StepAfter(row.state))
           /\ UNCHANGED <<consumerVars, version>>
  <2>1. StepAfter(row.state) \in {"reserve", "authorize", "commit"}
    BY <1>2, <1>7 DEF Found, Terminal, StepAfter, Instance, SagaState
  <2> QED
    BY <1>2, <1>5, <1>7, <2>1 DEF Step, RemoteStep
<1> QED
  BY <1>4, <1>6, <1>7

(***************************************************************************)
(* The remaining steps start inside Handle and set the instance, the next  *)
(* step and the version of w to values it may have.                        *)
(***************************************************************************)
LEMMA MoveKeepsInv ==
  ASSUME IInv, NEW w \in Workers, step[w] # "idle",
         NEW i \in Instance, NEW s \in Step, NEW n \in Nat,
         inst' = [inst EXCEPT ![w] = i], Goto(w, s),
         version' = [version EXCEPT ![w] = n],
         s \in {"appendConfirm", "appendCancel"} => n = 1,
         s = "save" => i.state # "NONE" /\ Agrees(i, Order(w))',
         OneWorker => ~Terminal(sagas'[Order(w)].state),
         UNCHANGED consumerVars, Grows, OneDecision',
         LedgerTypeOK', PaymentTypeOK', StoreTypeOK',
         sagas' \in [Orders -> Instance], late' = late, faults' = faults,
         \A o \in Orders : Agrees(sagas[o], o)'
  PROVE  IInv'
<1> USE DEF Goto
<1>1. TypeOK'
  BY DEF IInv, TypeOK, ConsumerTypeOK, consumerVars
<1>2. step'[w] = s /\ inst'[w] = i /\ version'[w] = n
  BY DEF IInv, TypeOK
<1>3. /\ loop[w] = "handle"
      /\ current[w] \in 1..Len(log)
      /\ InHand(w).type = "order.placed"
  BY HandlerTyped DEF IInv, WorkerInv
<1>4. InHand(w)' = InHand(w) /\ Order(w)' = Order(w)
  BY <1>3, InHandStays DEF consumerVars
<1>5. HandlerInv(w)'
  <2>1. OneWorker' => ~Terminal(sagas[Order(w)].state)'
    BY <1>4 DEF OneWorker
  <2> QED
    BY <1>2, <1>3, <1>4, <2>1 DEF HandlerInv, consumerVars, Agrees
<1>6. \A v \in Workers \ {w} :
        step'[v] = step[v] /\ inst'[v] = inst[v] /\ version'[v] = version[v]
  BY DEF IInv, TypeOK
<1> QED
  BY <1>1, <1>5, <1>6, GoOnKeepsInv

\* The same for a step that changes no history and no saga row.
LEMMA CallKeepsInv ==
  ASSUME IInv, NEW w \in Workers, step[w] # "idle",
         NEW i \in Instance, NEW s \in Step \ {"appendConfirm", "appendCancel"},
         inst' = [inst EXCEPT ![w] = i], Goto(w, s),
         s = "save" => i.state \notin {"NONE", "COMPLETED", "CANCELLED"},
         UNCHANGED <<consumerVars, storeVars, sagas, version, late, faults>>,
         LedgerTypeOK', PaymentTypeOK'
  PROVE  IInv'
<1> USE DEF storeVars, consumerVars
<1>1. Grows
  BY SameGrows DEF IInv
<1>2. version[w] \in Nat /\ version' = [version EXCEPT ![w] = version[w]]
  BY DEF IInv, TypeOK
<1>3. StoreTypeOK' /\ sagas' \in [Orders -> Instance] /\ OneDecision'
  BY DEF IInv, TypeOK, StoreTypeOK, OneDecision
<1>4. \A o \in Orders : Agrees(sagas[o], o)'
  BY DEF IInv, Agrees
<1>5. Agrees(i, Order(w))' \/ s # "save"
  BY DEF Agrees
<1>6. OneWorker => ~Terminal(sagas'[Order(w)].state)
  BY DEF IInv, WorkerInv, HandlerInv
<1> QED
  BY <1>1, <1>2, <1>3, <1>4, <1>5, <1>6, MoveKeepsInv

LEMMA SaveSagaKeepsInv ==
  ASSUME IInv, NEW w \in Workers, SaveSaga(w)
  PROVE  IInv'
<1> DEFINE o == Order(w)
<1> USE DEF SaveSaga, services, storeVars
<1>1. /\ step[w] = "save"
      /\ loop[w] = "handle"
      /\ current[w] \in 1..Len(log)
      /\ o \in Orders
      /\ InHand(w).type = "order.placed"
      /\ inst[w] \in Instance
      /\ inst[w].state # "NONE"
      /\ Agrees(inst[w], o)
      /\ OneWorker => ~Terminal(sagas[o].state)
  BY HandlerTyped DEF IInv, WorkerInv, HandlerInv, TypeOK
<1>2. /\ sagas' \in [Orders -> Instance] /\ sagas'[o] = inst[w]
      /\ \A p \in Orders \ {o} : sagas'[p] = sagas[p]
      /\ \A p \in Orders : Agrees(sagas[p], p)'
  BY <1>1 DEF IInv, TypeOK, Agrees
<1>6. Grows
  <2>1. log' = log /\ deadLetters' = deadLetters /\ events' = events
    BY DEF consumerVars, Finish, Handled
  <2>2. Len(log) \in Nat
    BY LenProperties DEF IInv, TypeOK, ConsumerTypeOK
  <2> QED
    BY <1>1, <1>2, <2>1, <2>2 DEF Grows
<1>3. LedgerTypeOK' /\ PaymentTypeOK' /\ StoreTypeOK'
  BY DEF IInv, TypeOK, LedgerTypeOK, PaymentTypeOK, StoreTypeOK, ledgerVars
<1>4. CASE Terminal(inst[w].state) /\ Finish(w)
  <2>1. TypeOK'
    BY <1>2, <1>3, <1>4, FinishTyped DEF IInv, TypeOK
  <2>2. IsDecided(o)
    BY <1>1, <1>4 DEF Terminal, Agrees, IsDecided
  <2> QED
    BY <1>1, <1>2, <1>4, <1>6, <2>1, <2>2, FinishKeepsInv
<1>5. CASE /\ ~Terminal(inst[w].state)
           /\ Goto(w, StepAfter(inst[w].state))
           /\ UNCHANGED <<consumerVars, inst, version>>
  <2>1. StepAfter(inst[w].state) \in {"reserve", "authorize", "commit"}
    BY <1>1, <1>5 DEF Terminal, StepAfter, Instance, SagaState
  <2>2. version[w] \in Nat /\ version' = [version EXCEPT ![w] = version[w]]
          /\ inst' = [inst EXCEPT ![w] = inst[w]]
    BY <1>5 DEF IInv, TypeOK
  <2>3. OneWorker => ~Terminal(sagas'[o].state)
    BY <1>2, <1>5
  <2>4. OneDecision'
    BY DEF IInv, OneDecision
  <2>5. StepAfter(inst[w].state) \in Step
    BY <2>1 DEF Step, RemoteStep
  <2> HIDE DEF SaveSaga
  <2>6. UNCHANGED <<late, faults>>
    BY DEF SaveSaga
  <2>7. /\ UNCHANGED consumerVars
        /\ Goto(w, StepAfter(inst[w].state))
        /\ step[w] # "idle"
    BY <1>1, <1>5
  <2>8. \A p \in Orders : Agrees(sagas[p], p)'
    BY <1>2
  <2>9. StepAfter(inst[w].state) \notin {"appendConfirm", "appendCancel", "save"}
    BY <2>1
  <2> QED
    BY <1>1, <1>2, <1>3, <1>6, <2>2, <2>3, <2>4, <2>5, <2>6, <2>7, <2>8, <2>9, MoveKeepsInv
<1> QED
  BY <1>4, <1>5

LEMMA ReserveStockKeepsInv ==
  ASSUME IInv, NEW w \in Workers, ReserveStock(w) \/ TakeStock(w)
  PROVE  IInv'
<1>1. Order(w) \in Orders /\ inst[w] \in Instance /\ step[w] # "idle"
  BY HandlerTyped DEF IInv, WorkerInv, TypeOK, ReserveStock, TakeStock
<1>2. LedgerTypeOK'
  <2>1. LedgerTypeOK
    BY DEF IInv, TypeOK
  <2>2. CASE UNCHANGED ledgerVars
    BY <2>1, <2>2 DEF LedgerTypeOK, ledgerVars
  <2>3. CASE CanReserve(Order(w)) /\ Take(Order(w))
    BY <1>1, <2>1, <2>3, TakeTyped
  <2> QED
    BY <2>2, <2>3 DEF ReserveStock, TakeStock, services
<1>3. PaymentTypeOK'
  BY DEF IInv, TypeOK, PaymentTypeOK, ReserveStock, TakeStock, services
<1>4. UNCHANGED <<consumerVars, storeVars, sagas, version, late, faults>>
  BY DEF ReserveStock, TakeStock, services
<1>5. CASE SetInst(w, "RESERVED", TRUE) /\ Goto(w, "save")
  <2>1. [state |-> "RESERVED", held |-> TRUE] \in Instance
    BY DEF Instance, SagaState
  <2>2. "save" \in Step \ {"appendConfirm", "appendCancel"}
    BY DEF Step
  <2> QED
    BY <1>1, <1>2, <1>3, <1>4, <1>5, <2>1, <2>2, CallKeepsInv DEF SetInst
<1>6. CASE (Goto(w, "cancel") \/ Goto(w, "reserving")) /\ UNCHANGED inst
  <2>1. inst' = [inst EXCEPT ![w] = inst[w]]
    BY <1>6 DEF IInv, TypeOK
  <2>2. {"cancel", "reserving"} \subseteq Step \ {"save", "appendConfirm", "appendCancel"}
    BY DEF Step, RemoteStep
  <2> QED
    BY <1>1, <1>2, <1>3, <1>4, <1>6, <2>1, <2>2, CallKeepsInv
<1> QED
  BY <1>5, <1>6 DEF ReserveStock, TakeStock

LEMMA CaptureTyped ==
  ASSUME PaymentTypeOK, NEW o \in Orders, NEW status, Capture(o, status)
  PROVE  PaymentTypeOK'
BY DEF PaymentTypeOK, PaymentStatus, Capture

LEMMA AuthorizePaymentKeepsInv ==
  ASSUME IInv, NEW w \in Workers, AuthorizePayment(w)
  PROVE  IInv'
<1>1. Order(w) \in Orders /\ inst[w] \in Instance /\ step[w] # "idle"
  BY HandlerTyped DEF IInv, WorkerInv, TypeOK, AuthorizePayment
<1>2. LedgerTypeOK'
  BY DEF IInv, TypeOK, LedgerTypeOK, ledgerVars, AuthorizePayment
<1>3. UNCHANGED <<ledgerVars, storeVars, sagas, late, faults>>
  BY DEF AuthorizePayment
<1>4. ASSUME NEW status \in PaymentStatus, Capture(Order(w), status),
             UNCHANGED <<consumerVars, version>>,
             \/ SetInst(w, "PAID", inst[w].held) /\ Goto(w, "save")
             \/ Goto(w, "release") /\ UNCHANGED inst
      PROVE  IInv'
  <2>1. PaymentTypeOK'
    BY <1>1, <1>4, CaptureTyped DEF IInv, TypeOK
  <2>2. {"save", "release"} \subseteq Step \ {"appendConfirm", "appendCancel"}
    BY DEF Step, RemoteStep
  <2>3. CASE SetInst(w, "PAID", inst[w].held) /\ Goto(w, "save")
    <3>1. [state |-> "PAID", held |-> inst[w].held] \in Instance
      BY <1>1 DEF Instance, SagaState
    <3> QED
      BY <1>1, <1>2, <1>3, <1>4, <2>1, <2>2, <2>3, <3>1, CallKeepsInv DEF SetInst
  <2>4. CASE Goto(w, "release") /\ UNCHANGED inst
    <3>1. inst' = [inst EXCEPT ![w] = inst[w]]
      BY <2>4 DEF IInv, TypeOK
    <3> QED
      BY <1>1, <1>2, <1>3, <1>4, <2>1, <2>2, <2>4, <3>1, CallKeepsInv
  <2> QED
    BY <1>4, <2>3, <2>4
<1>5. CASE GiveUp(w) /\ UNCHANGED payment
  <2>1. TypeOK'
    BY <1>2, <1>3, <1>5, GiveUpTyped
       DEF IInv, TypeOK, PaymentTypeOK, StoreTypeOK, storeVars
  <2> QED
    BY <1>3, <1>5, <2>1, GiveUpKeepsInv DEF storeVars
<1> QED
  BY <1>4, <1>5 DEF AuthorizePayment

\* A transition of the reservation w is about, in either of its two steps.
LEMMA TransitionKeepsInv ==
  ASSUME IInv, NEW w \in Workers, step[w] # "idle", NEW target \in Targets,
         NEW writing \in {"releasing", "committing"},
         AskTransition(w, target, writing) \/ WriteTransition(w, target)
  PROVE  IInv'
<1>1. Order(w) \in Orders /\ inst[w] \in Instance
  BY HandlerTyped DEF IInv, WorkerInv, TypeOK
<1>2. LedgerTypeOK'
  <2>1. LedgerTypeOK
    BY DEF IInv, TypeOK
  <2>2. CASE UNCHANGED ledgerVars
    BY <2>1, <2>2 DEF LedgerTypeOK, ledgerVars
  <2>3. CASE Unhold(Order(w), target)
    BY <1>1, <2>1, <2>3, UnholdTyped
  <2> QED
    BY <2>2, <2>3 DEF AskTransition, WriteTransition, services
<1>3. PaymentTypeOK' /\ UNCHANGED <<payment, storeVars, sagas, late, faults>>
  BY DEF IInv, TypeOK, PaymentTypeOK, AskTransition, WriteTransition, services
<1>4. ASSUME NEW i \in Instance, inst' = [inst EXCEPT ![w] = i],
             NEW s \in {"releasing", "committing", "confirm", "cancel"}, Goto(w, s),
             UNCHANGED <<consumerVars, version>>
      PROVE  IInv'
  <2>1. s \in Step \ {"save", "appendConfirm", "appendCancel"}
    BY DEF Step, RemoteStep
  <2> QED
    BY <1>1, <1>2, <1>3, <1>4, <2>1, CallKeepsInv
<1>5. CASE Goto(w, writing) /\ UNCHANGED <<consumerVars, inst, version>>
  <2>1. inst' = [inst EXCEPT ![w] = inst[w]]
    BY <1>5 DEF IInv, TypeOK
  <2> QED
    BY <1>1, <1>4, <1>5, <2>1
<1>6. CASE Transitioned(w, target)
  <2>1. CASE Goto(w, "confirm") /\ UNCHANGED inst
    <3>1. inst' = [inst EXCEPT ![w] = inst[w]]
      BY <2>1 DEF IInv, TypeOK
    <3> QED
      BY <1>1, <1>4, <1>6, <2>1, <3>1 DEF Transitioned
  <2>2. CASE Goto(w, "cancel") /\ SetInst(w, inst[w].state, FALSE)
    <3>1. [state |-> inst[w].state, held |-> FALSE] \in Instance
      BY <1>1 DEF Instance
    <3> QED
      BY <1>4, <1>6, <2>2, <3>1 DEF Transitioned, SetInst
  <2> QED
    BY <1>6, <2>1, <2>2 DEF Transitioned
<1>7. CASE GiveUp(w)
  <2>1. TypeOK'
    BY <1>2, <1>3, <1>7, GiveUpTyped DEF IInv, TypeOK, StoreTypeOK, storeVars
  <2> QED
    BY <1>3, <1>7, <2>1, GiveUpKeepsInv DEF storeVars
<1> QED
  BY <1>5, <1>6, <1>7 DEF AskTransition, WriteTransition

-----------------------------------------------------------------------------
(* ConfirmOrderHandler and CancelOrderHandler.                             *)

(***************************************************************************)
(* The instance of a decided saga agrees with the order the decision made. *)
(***************************************************************************)
LEMMA DecidedAgrees ==
  ASSUME TypeOK, NEW w \in Workers, NEW d \in Decisions, Decided(w, d)
  PROVE  \E i \in Instance :
           /\ inst' = [inst EXCEPT ![w] = i]
           /\ i.state # "NONE"
           /\ i.state = "COMPLETED" => StatusOf(d) = "CONFIRMED"
           /\ i.state = "CANCELLED" => StatusOf(d) = "CANCELLED"
<1>1. CASE d = "order.confirmed"
  <2>1. inst' = [inst EXCEPT ![w] = [state |-> "COMPLETED", held |-> FALSE]]
    BY <1>1 DEF Decided, SetInst
  <2>2. [state |-> "COMPLETED", held |-> FALSE] \in Instance
    BY DEF Instance, SagaState
  <2> QED
    BY <1>1, <2>1, <2>2 DEF StatusOf
<1>2. CASE d # "order.confirmed"
  <2>1. inst' = [inst EXCEPT ![w] = [state |-> "CANCELLED", held |-> inst[w].held]]
    BY <1>2 DEF Decided, SetInst
  <2>2. [state |-> "CANCELLED", held |-> inst[w].held] \in Instance
    BY DEF Instance, SagaState, TypeOK
  <2> QED
    BY <1>2, <2>1, <2>2 DEF StatusOf
<1> QED
  BY <1>1, <1>2

LEMMA LoadOrderKeepsInv ==
  ASSUME IInv, NEW w \in Workers, step[w] # "idle", NEW d \in Decisions,
         NEW append \in {"appendConfirm", "appendCancel"}, LoadOrder(w, d, append)
  PROVE  IInv'
<1> DEFINE status == Status(events[Order(w)])
<1>1. Order(w) \in Orders /\ inst[w] \in Instance
  BY HandlerTyped DEF IInv, WorkerInv, TypeOK
<1>2. UNCHANGED <<services, sagas, late, faults>>
  BY DEF LoadOrder
<1>3. /\ LedgerTypeOK' /\ PaymentTypeOK' /\ StoreTypeOK'
      /\ sagas' \in [Orders -> Instance]
      /\ UNCHANGED events
  BY <1>2 DEF IInv, TypeOK, LedgerTypeOK, PaymentTypeOK, StoreTypeOK, services,
              ledgerVars, storeVars
<1>4. OneDecision' /\ \A o \in Orders : Agrees(sagas[o], o)'
  BY <1>2, <1>3 DEF IInv, OneDecision, Agrees
<1>8. OneWorker => ~Terminal(sagas'[Order(w)].state)
  BY <1>2 DEF IInv, WorkerInv, HandlerInv
<1>5. CASE /\ MayRaise(status)
           /\ version' = [version EXCEPT ![w] = Len(events[Order(w)])]
           /\ Goto(w, append)
           /\ UNCHANGED <<consumerVars, inst>>
  <2>1. Len(events[Order(w)]) = 1
    BY <1>1, <1>5, PendingHistory DEF IInv, MayRaise
  <2>2. inst' = [inst EXCEPT ![w] = inst[w]]
    BY <1>5 DEF IInv, TypeOK
  <2>3. Grows
    BY <1>2, <1>3, <1>5, SameGrows DEF IInv, consumerVars
  <2>4. append \in Step
    BY DEF Step
  <2> QED
    BY <1>1, <1>2, <1>3, <1>4, <1>5, <1>8, <2>1, <2>2, <2>3, <2>4, MoveKeepsInv
<1>6. CASE AlreadyDecided(status, d) /\ Decided(w, d) /\ UNCHANGED <<consumerVars, version>>
  <2>1. PICK i \in Instance :
          /\ inst' = [inst EXCEPT ![w] = i]
          /\ i.state # "NONE"
          /\ i.state = "COMPLETED" => StatusOf(d) = "CONFIRMED"
          /\ i.state = "CANCELLED" => StatusOf(d) = "CANCELLED"
    BY <1>6, DecidedAgrees DEF IInv
  <2>2. current[w] \in 1..Len(log) /\ current'[w] = current[w]
    BY <1>6, HandlerTyped DEF IInv, WorkerInv, consumerVars
  <2>3. Grows
    BY <1>2, <1>3, <1>6, SameGrows DEF IInv, consumerVars
  <2>4. Agrees(i, Order(w))'
    BY <1>3, <1>6, <2>1, <2>2, <2>3, InHandStays DEF Agrees, AlreadyDecided
  <2>5. version[w] \in Nat /\ version' = [version EXCEPT ![w] = version[w]]
    BY <1>6 DEF IInv, TypeOK
  <2>6. Goto(w, "save") /\ "save" \in Step
    BY <1>6 DEF Decided, Step
  <2> QED
    BY <1>1, <1>2, <1>3, <1>4, <1>6, <1>8, <2>1, <2>3, <2>4, <2>5, <2>6, MoveKeepsInv
<1>7. CASE GiveUp(w)
  <2>1. TypeOK'
    BY <1>2, <1>3, <1>7, GiveUpTyped DEF IInv, TypeOK
  <2> QED
    BY <1>2, <1>3, <1>7, <2>1, GiveUpKeepsInv
<1> QED
  BY <1>5, <1>6, <1>7 DEF LoadOrder

LEMMA AppendDecisionKeepsInv ==
  ASSUME IInv, NEW w \in Workers, step[w] \in {"appendConfirm", "appendCancel"},
         NEW d \in Decisions, AppendDecision(w, d)
  PROVE  IInv'
<1> DEFINE o == Order(w)
<1>1. /\ o \in Orders
      /\ current[w] \in 1..Len(log)
      /\ version[w] = 1
      /\ step[w] # "idle"
  BY HandlerTyped DEF IInv, WorkerInv, HandlerInv
<1>2. UNCHANGED <<ledgerVars, payment, sagas, late, faults>>
  BY DEF AppendDecision
<1>3. LedgerTypeOK' /\ PaymentTypeOK' /\ sagas' \in [Orders -> Instance]
  BY <1>2 DEF IInv, TypeOK, LedgerTypeOK, PaymentTypeOK, ledgerVars
<1>4. CASE /\ VersionFree(o, version[w])
           /\ Record(o, d)
           /\ Decided(w, d)
           /\ version' = [version EXCEPT ![w] = 0]
           /\ UNCHANGED consumerVars
  <2>1. events[o] = <<"order.placed">> /\ Status(events[o]) = "PENDING"
    BY <1>1, <1>4, PendingHistory, StatusFacts DEF IInv, VersionFree
  <2>2. d \in EventTypes
    BY DEF EventTypes
  <2>3. /\ StoreTypeOK'
        /\ events'[o] = Append(events[o], d)
        /\ \A p \in Orders \ {o} : events'[p] = events[p]
    BY <1>1, <1>4, <2>2, RecordTyped DEF IInv, TypeOK
  <2>4. events'[o] = <<"order.placed", d>>
    BY <2>1, <2>3, DecisionAppended
  <2>5. Status(events'[o]) = StatusOf(d)
    BY <2>4, StatusFacts DEF StatusOf, Decisions
  <2>6. Grows
    <3>1. Len(log) \in Nat
      BY LenProperties DEF IInv, TypeOK, ConsumerTypeOK
    <3> QED
      BY <1>2, <1>4, <2>1, <2>3, <3>1 DEF Grows, IsDecided, consumerVars
  <2>7. OneDecision'
    BY <2>3, <2>4 DEF IInv, OneDecision
  <2>8. \A p \in Orders : Agrees(sagas[p], p)'
    BY <1>2, <2>6, RowsStay DEF IInv
  <2>9. PICK i \in Instance :
          /\ inst' = [inst EXCEPT ![w] = i]
          /\ i.state # "NONE"
          /\ i.state = "COMPLETED" => StatusOf(d) = "CONFIRMED"
          /\ i.state = "CANCELLED" => StatusOf(d) = "CANCELLED"
    BY <1>4, DecidedAgrees DEF IInv
  <2>10. Order(w)' = o
    BY <1>1, <1>4, <2>6, InHandStays DEF consumerVars
  <2>11. Agrees(i, Order(w))'
    BY <2>5, <2>9, <2>10 DEF Agrees
  <2>12. Goto(w, "save") /\ "save" \in Step
    BY <1>4 DEF Decided, Step
  <2>13. OneWorker => ~Terminal(sagas'[o].state)
    BY <1>1, <1>2 DEF IInv, WorkerInv, HandlerInv
  <2> QED
    BY <2>13, <1>1, <1>2, <1>3, <1>4, <2>3, <2>6, <2>7, <2>8, <2>9, <2>11, <2>12, MoveKeepsInv
<1>5. CASE GiveUp(w) /\ UNCHANGED storeVars
  <2>1. TypeOK'
    BY <1>2, <1>3, <1>5, GiveUpTyped DEF IInv, TypeOK, StoreTypeOK, storeVars
  <2> QED
    BY <1>2, <1>5, <2>1, GiveUpKeepsInv DEF storeVars
<1> QED
  BY <1>4, <1>5 DEF AppendDecision

-----------------------------------------------------------------------------
(* Failures, and the environment.                                          *)

LEMMA FailKeepsInv ==
  ASSUME IInv, NEW w \in Workers, Fail(w)
  PROVE  IInv'
<1>1. GiveUp(w) /\ UNCHANGED <<services, sagas>>
  BY DEF Fail
<1>2. faults' \in 0..MaxFaults
  BY SagaAssumption DEF IInv, TypeOK, Fail
<1>3. late' \subseteq Call
  <2>1. CASE step[w] \in RemoteStep /\ late' = late \cup {[op |-> step[w], order |-> Order(w)]}
    <3>1. step[w] # "idle"
      BY <2>1 DEF RemoteStep
    <3>2. Order(w) \in Orders
      BY <3>1, HandlerTyped DEF IInv, WorkerInv
    <3> QED
      BY <2>1, <3>2 DEF IInv, TypeOK, Call
  <2>2. CASE UNCHANGED late
    BY <2>2 DEF IInv, TypeOK
  <2> QED
    BY <2>1, <2>2 DEF Fail
<1>4. TypeOK'
  BY <1>1, <1>2, <1>3, GiveUpTyped
     DEF IInv, TypeOK, LedgerTypeOK, PaymentTypeOK, StoreTypeOK, services,
         ledgerVars, storeVars
<1> QED
  BY <1>1, <1>4, GiveUpKeepsInv DEF services, storeVars

(***************************************************************************)
(* A step no worker takes part in keeps what the workers know, as long as  *)
(* it keeps the histories in order and the log growing.                    *)
(***************************************************************************)
LEMMA EnvironmentKeepsInv ==
  ASSUME IInv, TypeOK', Grows, OneDecision',
         UNCHANGED <<committed, owner, position, current, loop, sagaVars>>
  PROVE  IInv'
<1>1. CommittedInv' /\ \A o \in Orders : Agrees(sagas[o], o)'
  BY CommittedStays, RowsStay DEF IInv, sagaVars
<1>2. RowsUntouched /\ \A v \in Workers : Untouched(v)
  BY DEF Untouched, RowsUntouched, sagaVars
<1>3. \A p \in Partitions : ReaderInv(p)'
  BY <1>2, ReadersStay
<1> QED
  BY <1>1, <1>2, <1>3, StepKeepsInv

\* The Inventory and Payment services answer somebody else.
LEMMA ServiceKeepsInv ==
  ASSUME IInv, LedgerTypeOK', PaymentTypeOK', late' \subseteq Call,
         UNCHANGED <<storeVars, consumerVars, sagaVars, faults>>
  PROVE  IInv'
<1> USE DEF storeVars, consumerVars, sagaVars
<1>1. TypeOK'
  BY DEF IInv, TypeOK, StoreTypeOK, ConsumerTypeOK
<1>2. Grows
  BY SameGrows DEF IInv
<1>3. OneDecision'
  BY DEF IInv, OneDecision
<1> QED
  BY <1>1, <1>2, <1>3, EnvironmentKeepsInv

LEMMA LateCallKeepsInv ==
  ASSUME IInv, NEW call \in late,
         LateCallGoesOn(call) \/ LateCallWrites(call) \/ LateCallEnds(call)
  PROVE  IInv'
<1>1. call \in Call /\ call.order \in Orders
  BY DEF IInv, TypeOK, Call
<1>2. LedgerTypeOK /\ PaymentTypeOK /\ late \subseteq Call
  BY DEF IInv, TypeOK
<1>3. CASE LateCallGoesOn(call)
  <2>1. Writing(call.op) \in RemoteStep
    BY <1>3 DEF LateCallGoesOn, LateRead, Writing, RemoteStep
  <2>2. late' \subseteq Call
    BY <1>1, <1>2, <1>3, <2>1 DEF LateCallGoesOn, Call
  <2>3. LedgerTypeOK' /\ PaymentTypeOK'
    BY <1>2, <1>3 DEF LateCallGoesOn, LedgerTypeOK, PaymentTypeOK, services, ledgerVars
  <2> QED
    BY <1>3, <2>2, <2>3, ServiceKeepsInv DEF LateCallGoesOn, services
<1>4. CASE LateCallWrites(call)
  <2>1. late' \subseteq Call
    BY <1>2, <1>4 DEF LateCallWrites
  <2>2. LedgerTypeOK' /\ PaymentTypeOK'
    <3>1. CASE CanReserve(call.order) /\ Take(call.order) /\ UNCHANGED payment
      BY <1>1, <1>2, <3>1, TakeTyped DEF PaymentTypeOK
    <3>2. CASE /\ \E target \in Targets : Unhold(call.order, target)
               /\ UNCHANGED payment
      BY <1>1, <1>2, <3>2, UnholdTyped DEF PaymentTypeOK
    <3>3. CASE /\ \E status \in PaymentStatus : Capture(call.order, status)
               /\ UNCHANGED ledgerVars
      BY <1>1, <1>2, <3>3, CaptureTyped DEF LedgerTypeOK, ledgerVars
    <3> QED
      BY <1>4, <3>1, <3>2, <3>3 DEF LateCallWrites, LateWrite, Targets
  <2> QED
    BY <1>4, <2>1, <2>2, ServiceKeepsInv DEF LateCallWrites
<1>5. CASE LateCallEnds(call)
  <2>1. LedgerTypeOK' /\ PaymentTypeOK' /\ late' \subseteq Call
    BY <1>2, <1>5
       DEF LateCallEnds, LedgerTypeOK, PaymentTypeOK, services, ledgerVars
  <2> QED
    BY <1>5, <2>1, ServiceKeepsInv DEF LateCallEnds, services
<1> QED
  BY <1>3, <1>4, <1>5

LEMMA ProviderMovesKeepsInv ==
  ASSUME IInv, NEW o \in Orders, NEW to \in PaymentStatus, ProviderMoves(o, to)
  PROVE  IInv'
<1>1. LedgerTypeOK' /\ PaymentTypeOK'
  BY DEF IInv, TypeOK, LedgerTypeOK, ledgerVars, PaymentTypeOK, ProviderMoves,
         ProviderUpdate
<1> QED
  BY <1>1, ServiceKeepsInv DEF ProviderMoves, IInv, TypeOK

LEMMA CorrectStockKeepsInv ==
  ASSUME IInv, NEW s \in Skus, NEW n \in 0..MaxStock, CorrectStock(s, n)
  PROVE  IInv'
<1>1. LedgerTypeOK' /\ PaymentTypeOK'
  BY SetStockTyped DEF IInv, TypeOK, PaymentTypeOK, CorrectStock
<1> QED
  BY <1>1, ServiceKeepsInv DEF CorrectStock, IInv, TypeOK

(***************************************************************************)
(* What producers append is behind everything the workers have read.       *)
(***************************************************************************)
LEMMA ProduceKeepsInv ==
  ASSUME IInv, NEW messages \in Seq(Message), Produce(messages), StoreTypeOK',
         UNCHANGED <<ledgerVars, payment, events, sagaVars, late, faults>>
  PROVE  IInv'
<1>1. log \in Seq(Message)
  BY DEF IInv, TypeOK, ConsumerTypeOK
<1>2. /\ log' \in Seq(Message)
      /\ Len(log) \in Nat
      /\ Len(messages) \in Nat
      /\ Len(log') = Len(log) + Len(messages)
      /\ \A i \in 1..(Len(log) + Len(messages)) :
           log'[i] = IF i <= Len(log) THEN log[i] ELSE messages[i - Len(log)]
  BY <1>1, ConcatProperties, LenProperties DEF Produce
<1>3. Grows
  <2>1. \A i \in 1..Len(log) : log'[i] = log[i]
    BY <1>2
  <2> QED
    BY <1>2, <2>1 DEF Grows, Produce, sagaVars
<1>4. TypeOK'
  BY <1>2 DEF IInv, TypeOK, ConsumerTypeOK, LedgerTypeOK, PaymentTypeOK, Produce,
              ledgerVars, sagaVars
<1>5. OneDecision'
  BY DEF IInv, OneDecision
<1> QED
  BY <1>3, <1>4, <1>5, EnvironmentKeepsInv DEF Produce

LEMMA BatchTyped ==
  ASSUME StoreTypeOK, NEW k \in Nat, relayed + k <= Len(outbox)
  PROVE  Batch(k) \in Seq(Message)
<1>1. OutboxRow \subseteq Message
  BY DEF OutboxRow, Message
<1>2. outbox \in Seq(OutboxRow) /\ Len(outbox) \in Nat /\ relayed \in 0..Len(outbox)
  BY LenProperties DEF StoreTypeOK
<1>3. outbox \in Seq(Message)
  BY <1>1, <1>2
<1>4. \A i \in (relayed + 1)..(relayed + k) : outbox[i] \in Message
  BY <1>2, <1>3, ElementOfSeq
<1> QED
  BY <1>2, <1>3, <1>4, SubSeqProperties DEF Batch

LEMMA RelayKeepsInv ==
  ASSUME IInv, NEW k \in 1..Len(outbox), Relay(k) \/ RelayUnmarked(k)
  PROVE  IInv'
<1>1. StoreTypeOK /\ k \in Nat /\ Len(outbox) \in Nat /\ relayed \in Nat
  BY LenProperties DEF IInv, TypeOK, StoreTypeOK
<1>2. Batch(k) \in Seq(Message)
  BY <1>1, BatchTyped DEF Relay, RelayUnmarked
<1>3. CASE Relay(k)
  <2>1. StoreTypeOK'
    BY <1>1, <1>3 DEF Relay, MarkRelayed, StoreTypeOK
  <2> QED
    BY <1>2, <1>3, <2>1, ProduceKeepsInv DEF Relay, MarkRelayed
<1>4. CASE RelayUnmarked(k)
  <2>1. StoreTypeOK'
    BY <1>1, <1>4 DEF RelayUnmarked, services, storeVars, StoreTypeOK
  <2> QED
    BY <1>2, <1>4, <2>1, ProduceKeepsInv DEF RelayUnmarked, services, storeVars
<1> QED
  BY <1>3, <1>4

LEMMA UnparseableKeepsInv ==
  ASSUME IInv, NEW o \in Orders, ProduceUnparseable(o)
  PROVE  IInv'
<1> DEFINE m == [type |-> "unparseable", order |-> o]
<1>1. <<m>> \in Seq(Message)
  BY DEF Message
<1>2. StoreTypeOK'
  BY DEF IInv, TypeOK, ProduceUnparseable, services, storeVars, StoreTypeOK
<1> QED
  BY <1>1, <1>2, ProduceKeepsInv DEF ProduceUnparseable, services, storeVars

LEMMA PlaceOrderKeepsInv ==
  ASSUME IInv, NEW o \in Orders, PlaceOrder(o)
  PROVE  IInv'
<1>1. events[o] = << >> /\ Record(o, "order.placed")
  BY DEF PlaceOrder, Place
<1>2. /\ StoreTypeOK'
      /\ events'[o] = Append(events[o], "order.placed")
      /\ \A p \in Orders \ {o} : events'[p] = events[p]
  BY <1>1, RecordTyped DEF IInv, TypeOK, EventTypes
<1>3. events'[o] = <<"order.placed">>
  BY <1>1, <1>2
<1>4. OneDecision'
  BY <1>2, <1>3 DEF IInv, OneDecision
<1>5. TypeOK'
  BY <1>2 DEF IInv, TypeOK, LedgerTypeOK, PaymentTypeOK, ConsumerTypeOK, PlaceOrder,
              ledgerVars, consumerVars, sagaVars
<1>6. Grows
  <2>1. ~IsDecided(o)
    BY <1>1, StatusFacts DEF IsDecided
  <2>2. Len(log) \in Nat
    BY LenProperties DEF IInv, TypeOK, ConsumerTypeOK
  <2> QED
    BY <1>2, <2>1, <2>2 DEF Grows, PlaceOrder, consumerVars, sagaVars
<1> QED
  BY <1>4, <1>5, <1>6, EnvironmentKeepsInv DEF PlaceOrder, consumerVars

-----------------------------------------------------------------------------
(* The invariant, and what follows from it.                                *)

LEMMA InitInv == Init => IInv
<1> SUFFICES ASSUME Init PROVE IInv
  OBVIOUS
<1> USE DEF Init, LedgerInit, PaymentInit, StoreInit, ConsumerInit
<1>1. LedgerTypeOK
  BY LedgerAssumption DEF LedgerTypeOK, ReservationStatus
<1>2. PaymentTypeOK
  BY DEF PaymentTypeOK, PaymentStatus
<1>3. StoreTypeOK
  <2>1. << >> \in Seq(EventTypes) /\ << >> \in Seq(OutboxRow) /\ Len(<< >>) = 0
    BY EmptySeq
  <2> QED
    BY <2>1 DEF StoreTypeOK
<1>4. ConsumerTypeOK(Message)
  <2>1. << >> \in Seq(Message)
    BY EmptySeq
  <2> QED
    BY <2>1, ConsumerAssumption DEF ConsumerTypeOK, LoopState
<1>5. TypeOK
  BY <1>1, <1>2, <1>3, <1>4, SagaAssumption
     DEF TypeOK, NoInstance, Instance, SagaState, Step
<1>6. OneDecision
  BY DEF OneDecision
<1>7. \A o \in Orders : Agrees(sagas[o], o)
  BY DEF Agrees, NoInstance
<1>8. Len(log) = 0
  BY EmptySeq
<1>9. CommittedInv
  BY <1>8 DEF CommittedInv
<1>10. \A p \in Partitions : ReaderInv(p)
  BY <1>8 DEF ReaderInv
<1>11. \A w \in Workers : WorkerInv(w)
  BY <1>8 DEF WorkerInv, LoopInv, HandlerInv
<1> QED
  BY <1>5, <1>6, <1>7, <1>9, <1>10, <1>11 DEF IInv

LEMMA WorkerStepKeepsInv ==
  ASSUME IInv, NEW w \in Workers, WorkerStep(w)
  PROVE  IInv'
<1>1. CASE LoadToConfirm(w) \/ LoadToCancel(w)
  BY <1>1, LoadOrderKeepsInv DEF LoadToConfirm, LoadToCancel, Decisions
<1>2. CASE AppendConfirm(w) \/ AppendCancel(w)
  BY <1>2, AppendDecisionKeepsInv DEF AppendConfirm, AppendCancel, Decisions
<1>3. CASE ReleaseStock(w) \/ FinishRelease(w) \/ CommitStock(w) \/ FinishCommit(w)
  BY <1>3, TransitionKeepsInv
     DEF ReleaseStock, FinishRelease, CommitStock, FinishCommit, Targets
<1> QED
  BY <1>1, <1>2, <1>3, FetchMessageKeepsInv, IgnoreEventKeepsInv,
     CommitKeepsInv, LoadSagaKeepsInv, SaveSagaKeepsInv, ReserveStockKeepsInv,
     AuthorizePaymentKeepsInv
     DEF WorkerStep

LEMMA StutterKeepsInv ==
  ASSUME IInv, UNCHANGED vars
  PROVE  IInv'
<1>1. LedgerTypeOK' /\ PaymentTypeOK' /\ late' \subseteq Call
  BY DEF IInv, TypeOK, LedgerTypeOK, PaymentTypeOK, vars, ledgerVars
<1> QED
  BY <1>1, ServiceKeepsInv DEF vars

LEMMA NextKeepsInv == IInv /\ [Next]_vars => IInv'
<1> SUFFICES ASSUME IInv, [Next]_vars PROVE IInv'
  OBVIOUS
<1>1. ASSUME NEW w \in Workers,
             WorkerStep(w) \/ LoseCommit(w) \/ Fail(w) \/ RestartWorker(w)
      PROVE  IInv'
  BY <1>1, WorkerStepKeepsInv, LoseCommitKeepsInv, FailKeepsInv, RestartKeepsInv
<1>2. CASE Environment
  BY <1>2, PlaceOrderKeepsInv, UnparseableKeepsInv, RelayKeepsInv, ProviderMovesKeepsInv,
     CorrectStockKeepsInv, LateCallKeepsInv
     DEF Environment
<1>3. CASE UNCHANGED vars
  BY <1>3, StutterKeepsInv
<1>4. CASE \E assignment \in [Partitions -> Workers] : RebalanceTo(assignment)
  BY <1>4, RebalanceKeepsInv
<1> QED
  BY <1>1, <1>2, <1>3, <1>4 DEF Next

(***************************************************************************)
(* IInv holds in every reachable state.                                    *)
(***************************************************************************)
THEOREM InvariantHolds == Spec => []IInv
BY InitInv, NextKeepsInv, PTL DEF Spec

(***************************************************************************)
(* Every variable keeps its type; in particular the orchestrator never     *)
(* resumes a saga at a state Handle has no step for.                       *)
(***************************************************************************)
THEOREM TypeCorrect == Spec => []TypeOK
<1>1. IInv => TypeOK
  BY DEF IInv
<1> QED
  BY <1>1, InvariantHolds, PTL

(***************************************************************************)
(* However many workers run an order's saga, at most one decision is       *)
(* recorded, after the placement (order.go, the version constraint).       *)
(***************************************************************************)
THEOREM DecidedOnce == Spec => []OneDecision
<1>1. IInv => OneDecision
  BY DEF IInv
<1> QED
  BY <1>1, InvariantHolds, PTL

(***************************************************************************)
(* A saga row is terminal only when its order is decided the same way,     *)
(* although a save overwrites whatever another worker wrote.               *)
(***************************************************************************)
THEOREM RowsAgree == Spec => []RowAgreesWithOrder
<1>1. IInv => RowAgreesWithOrder
  BY DEF IInv, Agrees, RowAgreesWithOrder
<1> QED
  BY <1>1, InvariantHolds, PTL

\* (what the group is past is done)
LEMMA PassedIsDone ==
  ASSUME IInv, NEW i \in DOMAIN log, Passed(i)
  PROVE  i \in 1..Len(log) /\ Done(i)
<1>1. i \in 1..Len(log)
  BY LenProperties DEF IInv, TypeOK, ConsumerTypeOK
<1>2. PartitionAt(i) \in Partitions
  BY <1>1, LogTyped DEF IInv
<1>3. i \in 1..committed[PartitionAt(i)]
  BY <1>1, <1>2 DEF Passed, IInv, TypeOK, ConsumerTypeOK
<1> QED
  BY <1>1, <1>2, <1>3 DEF IInv, CommittedInv

(***************************************************************************)
(* No crash, restart, rebalance or refused commit makes the group pass     *)
(* over an undecided placement or lose a poison message (worker.go Run).   *)
(***************************************************************************)
THEOREM NoMessageSkipped == Spec => []NothingSkipped
<1>1. IInv => NothingSkipped
  <2> SUFFICES ASSUME IInv, NEW i \in DOMAIN log, Passed(i)
               PROVE  /\ log[i].type = "order.placed" => IsDecided(log[i].order)
                      /\ log[i].type = "unparseable" => i \in deadLetters
    BY DEF NothingSkipped
  <2> QED
    BY PassedIsDone DEF Done, Settled
<1> QED
  BY <1>1, InvariantHolds, PTL

-----------------------------------------------------------------------------
(* The payments: whatever workers, late calls and the provider do, they    *)
(* change as the contract of the payment service says.                     *)

\* (the calls a worker makes are about an order)
LEMMA CallsKnowOrder ==
  ASSUME IInv, NEW w \in Workers, step[w] # "idle"
  PROVE  Order(w) \in Orders /\ current[w] \in 1..Len(log)
BY HandlerTyped DEF IInv, WorkerInv

\* (a capture or an update of the provider is a move of the desk)
LEMMA DeskMoves ==
  ASSUME PaymentTypeOK, NEW o \in Orders, NEW status \in PaymentStatus,
         Capture(o, status) \/ ProviderUpdate(o, status)
  PROVE  [DeskNext]_payment
<1>1. CASE UNCHANGED payment
  BY <1>1
<1>2. CASE /\ payment' = [payment EXCEPT ![o] = status]
           /\ MayMove(payment[o], status)
  <2>1. /\ payment' \in [Orders -> PaymentStatus]
        /\ \A p \in {o} : MayMove(payment[p], payment'[p])
        /\ \A p \in Orders \ {o} : payment'[p] = payment[p]
    BY <1>2 DEF PaymentTypeOK
  <2>2. {o} \in SUBSET Orders
    OBVIOUS
  <2>3. QED
    BY <2>1, <2>2 DEF DeskNext
<1>3. QED
  BY <1>1, <1>2 DEF Capture, ProviderUpdate, MayMove

\* (a step changes the payments by one such move, or not at all)
LEMMA StepAtDesk == IInv /\ [Next]_vars => [DeskNext]_payment
<1> SUFFICES ASSUME IInv, [Next]_vars PROVE [DeskNext]_payment
  OBVIOUS
<1>1. PaymentTypeOK
  BY DEF IInv, TypeOK
<1>2. CASE \E w \in Workers : AuthorizePayment(w)
  <2>1. PICK w \in Workers : AuthorizePayment(w)
    BY <1>2
  <2>2. Order(w) \in Orders
    BY <2>1, CallsKnowOrder DEF AuthorizePayment
  <2>3. QED
    BY <1>1, <2>1, <2>2, DeskMoves DEF AuthorizePayment
<1>3. CASE \E call \in late : LateCallWrites(call)
  <2>1. PICK call \in late : LateCallWrites(call)
    BY <1>3
  <2>2. call.order \in Orders
    BY DEF IInv, TypeOK, Call
  <2>3. CASE \E status \in PaymentStatus : Capture(call.order, status)
    BY <1>1, <2>2, <2>3, DeskMoves
  <2>4. CASE UNCHANGED payment
    BY <2>4
  <2>5. QED
    BY <2>1, <2>3, <2>4 DEF LateCallWrites, LateWrite
<1>4. CASE \E o \in Orders, to \in PaymentStatus : ProviderMoves(o, to)
  BY <1>1, <1>4, DeskMoves DEF ProviderMoves
<1>5. CASE UNCHANGED payment
  BY <1>5
<1>6. QED
  BY <1>2, <1>3, <1>4, <1>5
  DEF Next, Environment, WorkerStep, FetchMessage, IgnoreEvent, PublishDeadLetter, LoadSaga,
      SaveSaga, ReserveStock, TakeStock, ReleaseStock, FinishRelease, CommitStock,
      FinishCommit, AskTransition, WriteTransition, LoadToConfirm, AppendConfirm,
      LoadToCancel, AppendCancel, LoadOrder, AppendDecision, Commit, LoseCommit, Fail,
      RestartWorker, RebalanceTo, PlaceOrder, ProduceUnparseable, Relay, RelayUnmarked,
      LateCallGoesOn, LateCallEnds, CorrectStock, services, vars

(***************************************************************************)
(* Seen by the payment service the saga is a caller: every behaviour of it *)
(* is one of the contract the payment transactions implement.              *)
(***************************************************************************)
THEOREM SagaKeepsDesk == Spec => DeskSpec
<1>1. Init => PaymentInit
  BY DEF Init
<1>2. QED
  BY <1>1, StepAtDesk, InvariantHolds, PTL DEF Spec, DeskSpec

-----------------------------------------------------------------------------
(* What backs a confirmation, whoever works on the saga.  A reservation is *)
(* released only on a payment that is refused for good, so that a commit   *)
(* that finds it released (INVALID_STATE, taken for success) leaves a      *)
(* confirmed order without stock and without the customer's money.         *)

Row(o) == sagas[o].state

\* The provider does not have the customer's money, and never will again.
Refused(o) == payment[o] \in {"DECLINED", "REFUNDED", "FAILED"}

Backing(o) == WasCharged(o) /\ (reservation[o] = "COMMITTED" \/ Refused(o))

OrderBacked(o) ==
  /\ reservation[o] = "RELEASED" => Refused(o)
  /\ Row(o) = "PAID" => WasCharged(o)
  /\ Status(events[o]) = "CONFIRMED" => Backing(o)

\* What is true of o when a handler, with instance i, is at step s.
StepBacked(o, s, i) ==
  /\ s \in {"release", "releasing"} => Refused(o)
  /\ s \in {"commit", "committing"} => WasCharged(o)
  /\ s = "save" /\ i.state = "PAID" => WasCharged(o)
  /\ s \in {"confirm", "appendConfirm"} => Backing(o)

WorkerBacked(w) == step[w] # "idle" => StepBacked(Order(w), step[w], inst[w])

CallBacked(call) == call.op \in {"release", "releasing"} => Refused(call.order)

BackedInv ==
  /\ \A o \in Orders : OrderBacked(o)
  /\ \A w \in Workers : WorkerBacked(w)
  /\ \A call \in late : CallBacked(call)

\* No step takes back what a confirmation may rest on.
Backs ==
  \A o \in Orders :
    /\ Refused(o) => Refused(o)'
    /\ WasCharged(o) => WasCharged(o)'
    /\ reservation[o] = "COMMITTED" => reservation'[o] = "COMMITTED" \/ Refused(o)
    /\ reservation'[o] = "RELEASED" => Refused(o)

LogKept ==
  /\ Len(log) <= Len(log')
  /\ \A i \in 1..Len(log) : log'[i] = log[i]

LEMMA SameLogKept ==
  ASSUME TypeOK, log' = log
  PROVE  LogKept
<1> Len(log) \in Nat
  BY LenProperties DEF TypeOK, ConsumerTypeOK
<1> QED
  BY DEF LogKept

LEMMA ProducedLogKept ==
  ASSUME TypeOK, NEW messages \in Seq(Message), log' = log \o messages
  PROVE  LogKept
<1>1. log \in Seq(Message)
  BY DEF TypeOK, ConsumerTypeOK
<1>2. /\ Len(log) \in Nat
      /\ Len(messages) \in Nat
      /\ Len(log') = Len(log) + Len(messages)
      /\ \A i \in 1..(Len(log) + Len(messages)) :
           log'[i] = IF i <= Len(log) THEN log[i] ELSE messages[i - Len(log)]
  BY <1>1, ConcatProperties, LenProperties
<1> QED
  BY <1>2 DEF LogKept

LEMMA LogIsKept ==
  ASSUME IInv, [Next]_vars
  PROVE  LogKept
<1>1. CASE \E k \in 1..Len(outbox) : Relay(k) \/ RelayUnmarked(k)
  <2>1. PICK k \in 1..Len(outbox) : Relay(k) \/ RelayUnmarked(k)
    BY <1>1
  <2>2. StoreTypeOK /\ k \in Nat
    BY LenProperties DEF IInv, TypeOK, StoreTypeOK
  <2>3. Batch(k) \in Seq(Message)
    BY <2>1, <2>2, BatchTyped DEF Relay, RelayUnmarked
  <2> QED
    BY <2>1, <2>3, ProducedLogKept DEF IInv, Relay, RelayUnmarked, Produce
<1>2. CASE \E o \in Orders : ProduceUnparseable(o)
  <2>1. PICK o \in Orders : ProduceUnparseable(o)
    BY <1>2
  <2>2. <<[type |-> "unparseable", order |-> o]>> \in Seq(Message)
    BY DEF Message
  <2> QED
    BY <2>1, <2>2, ProducedLogKept DEF IInv, ProduceUnparseable, Produce
<1>3. CASE log' = log
  BY <1>3, SameLogKept DEF IInv
<1>4. ASSUME NEW w \in Workers, WorkerStep(w) PROVE log' = log
  BY <1>4
  DEF WorkerStep, FetchMessage, FetchFrom, IgnoreEvent, PublishDeadLetter, LoadSaga, SaveSaga,
      ReserveStock, TakeStock, AuthorizePayment, ReleaseStock, FinishRelease, CommitStock,
      FinishCommit, AskTransition, WriteTransition, Transitioned, LoadToConfirm, AppendConfirm,
      LoadToCancel, AppendCancel, LoadOrder, AppendDecision, Commit, CommitOffset, GiveUp,
      Finish, Handled, DeadLetter, Stop, consumerVars
<1>5. ASSUME NEW w \in Workers, LoseCommit(w) \/ Fail(w) \/ RestartWorker(w) PROVE log' = log
  BY <1>5 DEF LoseCommit, CommitRefused, Fail, RestartWorker, Restart, GiveUp, Stop
<1>6. ASSUME NEW a \in [Partitions -> Workers], RebalanceTo(a) PROVE log' = log
  BY <1>6 DEF RebalanceTo, Rebalance
<1>7. CASE \/ \E o \in Orders : PlaceOrder(o)
           \/ \E o \in Orders, to \in PaymentStatus : ProviderMoves(o, to)
           \/ \E s \in Skus, n \in 0..MaxStock : CorrectStock(s, n)
           \/ \E call \in late :
                LateCallGoesOn(call) \/ LateCallWrites(call) \/ LateCallEnds(call)
           \/ UNCHANGED vars
  BY <1>3, <1>7
  DEF PlaceOrder, ProviderMoves, CorrectStock, LateCallGoesOn, LateCallWrites, LateCallEnds,
      consumerVars, vars
<1> QED
  BY <1>1, <1>2, <1>3, <1>4, <1>5, <1>6, <1>7 DEF Next, Environment

\* (a release is decided on a refused payment)
LEMMA StepBacks ==
  ASSUME IInv, BackedInv, [Next]_vars
  PROVE  Backs
<1>1. \A o \in Orders : payment'[o] = payment[o] \/ MayMove(payment[o], payment'[o])
  BY StepAtDesk DEF DeskNext
<1>2. \A o \in Orders : /\ Refused(o) => Refused(o)'
                        /\ WasCharged(o) => WasCharged(o)'
  BY <1>1 DEF MayMove, CanBecome, Refused, WasCharged, PaymentStatus
<1>3. ASSUME NEW o \in Orders
      PROVE  /\ reservation[o] = "COMMITTED" => reservation'[o] = "COMMITTED" \/ Refused(o)
             /\ reservation'[o] = "RELEASED" => Refused(o)
  <2>0. reservation \in [Orders -> ReservationStatus] /\ OrderBacked(o)
    BY DEF IInv, TypeOK, LedgerTypeOK, BackedInv
  <2>1. CASE \E p \in Orders : Take(p)
    BY <2>0, <2>1 DEF Take, Hold, OrderBacked, ledgerVars
  <2>2. CASE \E p \in Orders : Unhold(p, "COMMITTED")
    BY <2>0, <2>2 DEF Unhold, OrderBacked
  <2>3. CASE \E p \in Orders : Unhold(p, "RELEASED") /\ Refused(p)
    BY <2>0, <2>3 DEF Unhold, OrderBacked
  <2>4. CASE UNCHANGED reservation
    BY <2>0, <2>4 DEF OrderBacked
  <2>5. ASSUME NEW w \in Workers, step[w] # "idle"
        PROVE  Order(w) \in Orders /\ StepBacked(Order(w), step[w], inst[w])
    BY <2>5, CallsKnowOrder DEF BackedInv, WorkerBacked
  <2>6. CASE \E w \in Workers : TakeStock(w)
    BY <2>1, <2>4, <2>5, <2>6 DEF TakeStock, ledgerVars
  <2>7. CASE \E w \in Workers : FinishRelease(w)
    BY <2>3, <2>4, <2>5, <2>7 DEF FinishRelease, WriteTransition, ledgerVars, StepBacked
  <2>8. CASE \E w \in Workers : FinishCommit(w)
    BY <2>2, <2>4, <2>5, <2>8 DEF FinishCommit, WriteTransition, ledgerVars
  <2>9. CASE \E call \in late : LateCallWrites(call)
    <3>1. PICK call \in late : LateCallWrites(call)
      BY <2>9
    <3>2. call.order \in Orders /\ CallBacked(call)
      BY DEF IInv, TypeOK, Call, BackedInv
    <3> QED
      BY <2>1, <2>2, <2>3, <2>4, <3>1, <3>2
      DEF LateCallWrites, LateWrite, CallBacked, ledgerVars
  <2>10. CASE \E s \in Skus, n \in 0..MaxStock : CorrectStock(s, n)
    BY <2>4, <2>10 DEF CorrectStock, SetStock
  <2> QED
    BY <2>4, <2>6, <2>7, <2>8, <2>9, <2>10
    DEF Next, Environment, WorkerStep, FetchMessage, IgnoreEvent, PublishDeadLetter, LoadSaga,
        SaveSaga, ReserveStock, AuthorizePayment, ReleaseStock, CommitStock, AskTransition,
        LoadToConfirm, AppendConfirm, LoadToCancel, AppendCancel, LoadOrder, AppendDecision,
        Commit, LoseCommit, Fail, RestartWorker, RebalanceTo, PlaceOrder, ProduceUnparseable,
        Relay, RelayUnmarked, ProviderMoves, LateCallGoesOn, LateCallEnds, services,
        ledgerVars, vars
<1> QED
  BY <1>2, <1>3 DEF Backs

LEMMA BackingStays ==
  ASSUME Backs, NEW o \in Orders, Backing(o)
  PROVE  Backing(o)'
BY DEF Backs, Backing

\* (a worker that takes no part in the step)
LEMMA OthersBacked ==
  ASSUME IInv, BackedInv, Backs, LogKept, NEW v \in Workers,
         step'[v] = step[v],
         step[v] # "idle" => inst'[v] = inst[v] /\ current'[v] = current[v]
  PROVE  WorkerBacked(v)'
<1> SUFFICES ASSUME step[v] # "idle"
             PROVE  StepBacked(Order(v), step[v], inst[v])'
  BY DEF WorkerBacked
<1>1. Order(v) \in Orders /\ current[v] \in 1..Len(log)
  BY CallsKnowOrder
<1>2. Order(v)' = Order(v)
  BY <1>1 DEF Order, InHand, LogKept
<1>3. StepBacked(Order(v), step[v], inst[v])
  BY DEF BackedInv, WorkerBacked
<1> QED
  BY <1>1, <1>2, <1>3, BackingStays DEF StepBacked, Backs

\* (the worker that takes it and stays in the handler)
LEMMA MoverBacked ==
  ASSUME IInv, NEW w \in Workers, UNCHANGED consumerVars, NEW o, o = Order(w),
         NEW s, Goto(w, s),
         s \in {"release", "releasing"} => Refused(o)',
         s \in {"commit", "committing"} => WasCharged(o)',
         s = "save" /\ inst'[w].state = "PAID" => WasCharged(o)',
         s \in {"confirm", "appendConfirm"} => Backing(o)'
  PROVE  WorkerBacked(w)'
<1>1. step'[w] = s
  BY DEF Goto, IInv, TypeOK
<1>2. Order(w)' = o
  BY DEF Order, InHand, consumerVars
<1> QED
  BY <1>1, <1>2 DEF WorkerBacked, StepBacked

LEMMA IdleBacked ==
  ASSUME IInv, NEW w \in Workers, Forget(w)
  PROVE  WorkerBacked(w)'
<1>1. step'[w] = "idle"
  BY DEF Forget, Goto, IInv, TypeOK
<1> QED
  BY <1>1 DEF WorkerBacked

LEMMA LoadSagaBacked ==
  ASSUME IInv, BackedInv, Backs, NEW w \in Workers, LoadSaga(w)
  PROVE  WorkerBacked(w)'
<1>0. PICK o \in Orders : o = Order(w)
  BY InHandTyped DEF LoadSaga, IInv, WorkerInv, LoopInv
<1>1. OrderBacked(o) /\ sagas[o].state \in SagaState
  BY DEF BackedInv, IInv, TypeOK, Instance
<1>2. CASE Finish(w)
  BY <1>2, IdleBacked DEF Finish
<1>3. CASE /\ inst' = [inst EXCEPT ![w] = NewInstance]
           /\ Goto(w, "save") /\ UNCHANGED consumerVars
  <2>1. inst'[w].state = "STARTED"
    BY <1>3 DEF IInv, TypeOK, NewInstance
  <2> QED
    BY <1>0, <1>3, <2>1, MoverBacked
<1>4. CASE /\ Found(sagas[o]) /\ ~Terminal(sagas[o].state)
           /\ Goto(w, StepAfter(sagas[o].state)) /\ UNCHANGED consumerVars
  <2>1. /\ StepAfter(sagas[o].state) \in {"reserve", "authorize", "commit"}
        /\ StepAfter(sagas[o].state) = "commit" => Row(o) = "PAID"
    BY <1>1, <1>4 DEF Found, Terminal, StepAfter, SagaState, Row
  <2>2. StepAfter(sagas[o].state) = "commit" => WasCharged(o)'
    BY <1>1, <2>1 DEF OrderBacked, Backs
  <2>3. PICK s : s = StepAfter(sagas[o].state)
    OBVIOUS
  <2> QED
    BY <1>0, <1>4, <2>1, <2>2, <2>3, MoverBacked
<1> QED
  BY <1>0, <1>2, <1>3, <1>4 DEF LoadSaga

LEMMA SaveSagaBacked ==
  ASSUME IInv, BackedInv, Backs, NEW w \in Workers, SaveSaga(w)
  PROVE  WorkerBacked(w)'
<1>0. PICK o \in Orders : o = Order(w)
  BY CallsKnowOrder DEF SaveSaga
<1>1. /\ step[w] = "save" /\ StepBacked(o, step[w], inst[w])
      /\ inst[w].state \in SagaState /\ inst[w].state # "NONE"
  BY <1>0 DEF BackedInv, WorkerBacked, SaveSaga, IInv, TypeOK, Instance, WorkerInv, HandlerInv
<1>2. CASE Finish(w)
  BY <1>2, IdleBacked DEF Finish
<1>3. CASE /\ ~Terminal(inst[w].state)
           /\ Goto(w, StepAfter(inst[w].state))
           /\ UNCHANGED <<consumerVars, inst, version>>
  <2>1. /\ StepAfter(inst[w].state) \in {"reserve", "authorize", "commit"}
        /\ StepAfter(inst[w].state) = "commit" => inst[w].state = "PAID"
    BY <1>1, <1>3 DEF Terminal, StepAfter, SagaState
  <2>2. StepAfter(inst[w].state) = "commit" => WasCharged(o)'
    BY <1>1, <2>1 DEF StepBacked, Backs
  <2>3. PICK s : s = StepAfter(inst[w].state)
    OBVIOUS
  <2> QED
    BY <1>0, <1>3, <2>1, <2>2, <2>3, MoverBacked
<1> QED
  BY <1>2, <1>3 DEF SaveSaga

LEMMA StockStepsBacked ==
  ASSUME IInv, BackedInv, Backs, NEW w \in Workers, ReserveStock(w) \/ TakeStock(w)
  PROVE  WorkerBacked(w)'
<1>0. PICK o : o = Order(w)
  OBVIOUS
<1>1. UNCHANGED consumerVars
  BY DEF ReserveStock, TakeStock
<1>2. CASE SetInst(w, "RESERVED", TRUE) /\ Goto(w, "save")
  <2>1. inst'[w].state = "RESERVED"
    BY <1>2 DEF SetInst, IInv, TypeOK
  <2> QED
    BY <1>0, <1>1, <1>2, <2>1, MoverBacked
<1>3. CASE Goto(w, "reserving") \/ Goto(w, "cancel")
  BY <1>0, <1>1, <1>3, MoverBacked
<1> QED
  BY <1>2, <1>3 DEF ReserveStock, TakeStock

LEMMA AuthorizeBacked ==
  ASSUME IInv, NEW w \in Workers, AuthorizePayment(w)
  PROVE  WorkerBacked(w)'
<1>0. PICK o \in Orders : o = Order(w)
  BY CallsKnowOrder DEF AuthorizePayment
<1>1. CASE GiveUp(w)
  BY <1>1, IdleBacked DEF GiveUp
<1>2. ASSUME NEW status \in PaymentStatus, Capture(o, status), UNCHANGED consumerVars,
             \/ Approved(status) /\ Goto(w, "save")
             \/ ~Approved(status) /\ Goto(w, "release")
      PROVE  WorkerBacked(w)'
  <2>1. payment'[o] = status /\ status \in PaymentStatus \ {"NONE"}
    BY <1>2 DEF Capture, IInv, TypeOK, PaymentTypeOK
  <2>2. CASE Approved(status) /\ Goto(w, "save")
    <3>1. WasCharged(o)'
      BY <2>1, <2>2 DEF Approved, WasCharged
    <3> QED
      BY <1>0, <1>2, <2>2, <3>1, MoverBacked
  <2>3. CASE ~Approved(status) /\ Goto(w, "release")
    <3>1. Refused(o)'
      BY <2>1, <2>3 DEF Approved, Refused, PaymentStatus
    <3> QED
      BY <1>0, <1>2, <2>3, <3>1, MoverBacked
  <2> QED
    BY <1>2, <2>2, <2>3
<1> QED
  BY <1>0, <1>1, <1>2 DEF AuthorizePayment

LEMMA TransitionBacked ==
  ASSUME IInv, BackedInv, Backs, NEW w \in Workers,
         ReleaseStock(w) \/ FinishRelease(w) \/ CommitStock(w) \/ FinishCommit(w)
  PROVE  WorkerBacked(w)'
<1>0. PICK o \in Orders : o = Order(w)
  BY CallsKnowOrder DEF ReleaseStock, FinishRelease, CommitStock, FinishCommit
<1>1. StepBacked(o, step[w], inst[w]) /\ OrderBacked(o)
  BY <1>0 DEF BackedInv, WorkerBacked, ReleaseStock, FinishRelease, CommitStock, FinishCommit
<1>2. CASE GiveUp(w)
  BY <1>2, IdleBacked DEF GiveUp
<1>3. CASE UNCHANGED consumerVars /\ Goto(w, "cancel")
  BY <1>0, <1>3, MoverBacked
<1>4. CASE step[w] = "release" /\ UNCHANGED consumerVars /\ Goto(w, "releasing")
  <2>1. Refused(o)'
    BY <1>1, <1>4 DEF StepBacked, Backs
  <2> QED
    BY <1>0, <1>4, <2>1, MoverBacked
<1>5. CASE step[w] = "commit" /\ UNCHANGED consumerVars /\ Goto(w, "committing")
  <2>1. WasCharged(o)'
    BY <1>1, <1>5 DEF StepBacked, Backs
  <2> QED
    BY <1>0, <1>5, <2>1, MoverBacked
<1>6. CASE /\ step[w] \in {"commit", "committing"}
           /\ \/ reservation[o] \in Targets /\ UNCHANGED reservation
              \/ reservation'[o] = "COMMITTED"
           /\ UNCHANGED consumerVars /\ Goto(w, "confirm")
  <2>1. WasCharged(o)'
    BY <1>1, <1>6 DEF StepBacked, Backs
  <2>2. reservation'[o] = "COMMITTED" \/ Refused(o)'
    BY <1>1, <1>6 DEF OrderBacked, Backs, Targets
  <2>3. Backing(o)'
    BY <2>1, <2>2 DEF Backing
  <2> QED
    BY <1>0, <1>6, <2>3, MoverBacked
<1>7. CASE ReleaseStock(w)
  BY <1>2, <1>3, <1>4, <1>7 DEF ReleaseStock, AskTransition, Transitioned
<1>8. CASE FinishRelease(w)
  BY <1>2, <1>3, <1>8 DEF FinishRelease, WriteTransition, Transitioned
<1>9. CASE CommitStock(w)
  <2>1. UNCHANGED reservation
    BY <1>9 DEF CommitStock, AskTransition, services, ledgerVars
  <2>2. CASE Goto(w, "committing") /\ UNCHANGED <<consumerVars, inst, version>>
    BY <1>5, <1>9, <2>2 DEF CommitStock
  <2>3. ASSUME NEW reply \in {"OK", "INVALID_STATE", "NOT_FOUND"},
               AnsweredByStatus(o, "COMMITTED", reply),
               TransitionAccepted(reply), Transitioned(w, "COMMITTED")
        PROVE  WorkerBacked(w)'
    <3>1. reservation[o] \in Targets
      BY <2>3 DEF AnsweredByStatus, TransitionAccepted, Targets
    <3> QED
      BY <1>6, <1>9, <2>1, <2>3, <3>1 DEF CommitStock, Transitioned
  <2> QED
    BY <1>0, <1>2, <1>9, <2>2, <2>3 DEF CommitStock, AskTransition
<1>10. CASE FinishCommit(w)
  <2>1. Unhold(o, "COMMITTED") => reservation'[o] = "COMMITTED"
    BY DEF Unhold, IInv, TypeOK, LedgerTypeOK
  <2> QED
    BY <1>0, <1>2, <1>6, <1>10, <2>1 DEF FinishCommit, WriteTransition, Transitioned
<1> QED
  BY <1>7, <1>8, <1>9, <1>10

LEMMA DecisionBacked ==
  ASSUME IInv, BackedInv, Backs, NEW w \in Workers,
         LoadToConfirm(w) \/ LoadToCancel(w) \/ AppendConfirm(w) \/ AppendCancel(w)
  PROVE  WorkerBacked(w)'
<1>0. PICK o \in Orders : o = Order(w)
  BY CallsKnowOrder DEF LoadToConfirm, LoadToCancel, AppendConfirm, AppendCancel
<1>1. StepBacked(o, step[w], inst[w])
  BY <1>0 DEF BackedInv, WorkerBacked, LoadToConfirm, LoadToCancel, AppendConfirm, AppendCancel
<1>2. CASE GiveUp(w)
  BY <1>2, IdleBacked DEF GiveUp
<1>3. ASSUME NEW d \in Decisions, Decided(w, d), UNCHANGED consumerVars
      PROVE  WorkerBacked(w)'
  <2>1. inst'[w].state \in {"COMPLETED", "CANCELLED"}
    BY <1>3 DEF Decided, SetInst, IInv, TypeOK
  <2>2. Goto(w, "save")
    BY <1>3 DEF Decided
  <2> QED
    BY <1>0, <1>3, <2>1, <2>2, MoverBacked
<1>4. CASE step[w] = "confirm" /\ UNCHANGED consumerVars /\ Goto(w, "appendConfirm")
  <2>1. Backing(o)'
    BY <1>1, <1>4, BackingStays DEF StepBacked
  <2> QED
    BY <1>0, <1>4, <2>1, MoverBacked
<1>5. CASE UNCHANGED consumerVars /\ Goto(w, "appendCancel")
  BY <1>0, <1>5, MoverBacked
<1> QED
  BY <1>2, <1>3, <1>4, <1>5
     DEF LoadToConfirm, LoadToCancel, AppendConfirm, AppendCancel, LoadOrder, AppendDecision,
         Decisions


\* (the worker whose turn it is, and the others)
LEMMA WorkersBacked ==
  ASSUME IInv, BackedInv, Backs, LogKept, [Next]_vars
  PROVE  \A v \in Workers : WorkerBacked(v)'
<1> USE DEF IInv, TypeOK, ConsumerTypeOK
<1>1. ASSUME NEW w \in Workers, WorkerBacked(w)',
             \A v \in Workers \ {w} : /\ step'[v] = step[v]
                                      /\ inst'[v] = inst[v]
                                      /\ current'[v] = current[v]
      PROVE  \A v \in Workers : WorkerBacked(v)'
  BY <1>1, OthersBacked
<1>2. CASE UNCHANGED <<step, inst, current>>
  BY <1>2, OthersBacked
<1>3. ASSUME NEW w \in Workers,
             \/ \E p \in Partitions : FetchMessage(w, p)
             \/ IgnoreEvent(w) \/ PublishDeadLetter(w) \/ Commit(w) \/ LoseCommit(w)
             \/ RestartWorker(w)
      PROVE  \A v \in Workers : WorkerBacked(v)'
  <2>1. step[w] = "idle" /\ step'[w] = "idle"
    BY <1>3 DEF FetchMessage, FetchFrom, IgnoreEvent, PublishDeadLetter, Commit, CommitOffset,
       LoseCommit, CommitRefused, RestartWorker, Restart, sagaVars, WorkerInv, HandlerInv
  <2>2. WorkerBacked(w)'
    BY <2>1 DEF WorkerBacked
  <2> QED
    BY <1>1, <1>3, <2>2
    DEF FetchMessage, FetchFrom, IgnoreEvent, PublishDeadLetter, Handled, DeadLetter, Commit,
        CommitOffset, LoseCommit, CommitRefused, Stop, RestartWorker, Restart, sagaVars
<1>4. ASSUME NEW w \in Workers,
             LoadSaga(w) \/ SaveSaga(w) \/ ReserveStock(w) \/ TakeStock(w) \/ AuthorizePayment(w)
      PROVE  \A v \in Workers : WorkerBacked(v)'
  <2>1. WorkerBacked(w)'
    BY <1>4, LoadSagaBacked, SaveSagaBacked, StockStepsBacked, AuthorizeBacked
  <2> QED
    BY <1>1, <1>4, <2>1
    DEF LoadSaga, SaveSaga, ReserveStock, TakeStock, AuthorizePayment, Finish, GiveUp, Forget,
        Handled, Stop, SetInst, Goto, consumerVars
<1>5. ASSUME NEW w \in Workers,
             ReleaseStock(w) \/ FinishRelease(w) \/ CommitStock(w) \/ FinishCommit(w)
      PROVE  \A v \in Workers : WorkerBacked(v)'
  <2>1. WorkerBacked(w)'
    BY <1>5, TransitionBacked
  <2> QED
    BY <1>1, <1>5, <2>1
    DEF ReleaseStock, FinishRelease, CommitStock, FinishCommit, AskTransition, WriteTransition,
        Transitioned, GiveUp, Forget, Stop, SetInst, Goto, consumerVars
<1>6. ASSUME NEW w \in Workers,
             LoadToConfirm(w) \/ LoadToCancel(w) \/ AppendConfirm(w) \/ AppendCancel(w)
      PROVE  \A v \in Workers : WorkerBacked(v)'
  <2>1. WorkerBacked(w)'
    BY <1>6, DecisionBacked
  <2> QED
    BY <1>1, <1>6, <2>1
    DEF LoadToConfirm, LoadToCancel, AppendConfirm, AppendCancel, LoadOrder, AppendDecision,
        Decided, GiveUp, Forget, Stop, SetInst, Goto, consumerVars
<1>7. ASSUME NEW w \in Workers, Fail(w)
      PROVE  \A v \in Workers : WorkerBacked(v)'
  <2>1. WorkerBacked(w)'
    BY <1>7, IdleBacked DEF Fail, GiveUp
  <2> QED
    BY <1>1, <1>7, <2>1 DEF Fail, GiveUp, Forget, Stop, Goto
<1>8. CASE Environment \/ \E assignment \in [Partitions -> Workers] : RebalanceTo(assignment)
  BY <1>2, <1>8
  DEF Environment, RebalanceTo, Rebalance, PlaceOrder, ProduceUnparseable, Relay, RelayUnmarked,
      Produce, ProviderMoves, CorrectStock, LateCallGoesOn, LateCallWrites, LateCallEnds,
      sagaVars, consumerVars
<1>9. CASE UNCHANGED vars
  BY <1>2, <1>9 DEF vars, sagaVars, consumerVars
<1> QED
  BY <1>3, <1>4, <1>5, <1>6, <1>7, <1>8, <1>9 DEF Next, WorkerStep

\* (rows are written by SaveSaga, histories by Place and AppendConfirm)
LEMMA OrdersBacked ==
  ASSUME IInv, BackedInv, Backs, [Next]_vars
  PROVE  \A o \in Orders : OrderBacked(o)'
<1> USE DEF IInv, TypeOK
<1>1. ASSUME NEW o \in Orders,
             Row(o)' = "PAID" => Row(o) = "PAID" \/ WasCharged(o),
             Status(events'[o]) = "CONFIRMED" => Status(events[o]) = "CONFIRMED" \/ Backing(o)
      PROVE  OrderBacked(o)'
  <2>1. OrderBacked(o)
    BY DEF BackedInv
  <2>2. WasCharged(o) => WasCharged(o)'
    BY DEF Backs
  <2>3. Backing(o) => Backing(o)'
    BY BackingStays
  <2>4. reservation'[o] = "RELEASED" => Refused(o)'
    BY DEF Backs
  <2> QED
    BY <1>1, <2>1, <2>2, <2>3, <2>4 DEF OrderBacked
<1>2. ASSUME NEW w \in Workers, SaveSaga(w), NEW o \in Orders
      PROVE  OrderBacked(o)'
  <2>1. step[w] = "save" /\ WorkerBacked(w) /\ Order(w) \in Orders
    BY <1>2, CallsKnowOrder DEF SaveSaga, BackedInv
  <2>2. Row(o)' = "PAID" => Row(o) = "PAID" \/ WasCharged(o)
    BY <1>2, <2>1 DEF SaveSaga, WorkerBacked, StepBacked, Row
  <2>3. events' = events
    BY <1>2 DEF SaveSaga, services, storeVars
  <2> QED
    BY <1>1, <2>2, <2>3
<1>3. ASSUME NEW w \in Workers, NEW d \in Decisions, AppendDecision(w, d), step[w] # "idle",
             d = "order.confirmed" => Backing(Order(w)), NEW o \in Orders
      PROVE  OrderBacked(o)'
  <2>1. Order(w) \in Orders /\ sagas' = sagas
    BY <1>3, CallsKnowOrder DEF AppendDecision
  <2>2. CASE Record(Order(w), d)
    <3>1. /\ events'[Order(w)] = Append(events[Order(w)], d)
          /\ \A p \in Orders \ {Order(w)} : events'[p] = events[p]
      BY <2>1, <2>2, RecordTyped DEF EventTypes
    <3>2. Status(events'[Order(w)]) = StatusOf(d)
      <4>1. PICK h \in Seq(EventTypes) : h = events[Order(w)]
        BY <2>1 DEF StoreTypeOK
      <4>2. /\ Len(h) \in Nat
            /\ Append(h, d) # << >>
            /\ Len(Append(h, d)) = Len(h) + 1
            /\ Append(h, d)[Len(h) + 1] = d
        BY AppendProperties, LenProperties DEF EventTypes
      <4> QED
        BY <3>1, <4>1, <4>2 DEF Status, StatusOf, Decisions
    <3> QED
      BY <1>1, <1>3, <2>1, <3>1, <3>2 DEF StatusOf, Row
  <2>3. CASE events' = events
    BY <1>1, <2>1, <2>3 DEF Row
  <2> QED
    BY <1>3, <2>2, <2>3 DEF AppendDecision, storeVars
<1>4. ASSUME NEW w \in Workers, AppendConfirm(w) \/ AppendCancel(w), NEW o \in Orders
      PROVE  OrderBacked(o)'
  <2>1. WorkerBacked(w)
    BY DEF BackedInv
  <2> QED
    BY <1>3, <1>4, <2>1
    DEF AppendConfirm, AppendCancel, WorkerBacked, StepBacked, Decisions
<1>5. ASSUME NEW p \in Orders, PlaceOrder(p), NEW o \in Orders
      PROVE  OrderBacked(o)'
  <2>1. /\ events'[p] = Append(events[p], "order.placed")
        /\ \A q \in Orders \ {p} : events'[q] = events[q]
    BY <1>5, RecordTyped DEF PlaceOrder, Place, EventTypes
  <2>2. Status(events'[p]) = "PENDING"
    BY <1>5, <2>1, StatusFacts DEF PlaceOrder, Place
  <2> QED
    BY <1>1, <1>5, <2>1, <2>2 DEF PlaceOrder, sagaVars, Row
<1>6. ASSUME UNCHANGED <<sagas, events>>, NEW o \in Orders
      PROVE  OrderBacked(o)'
  BY <1>1, <1>6 DEF Row
<1> QED
  BY <1>2, <1>4, <1>5, <1>6
  DEF Next, Environment, WorkerStep, FetchMessage, IgnoreEvent, PublishDeadLetter, LoadSaga,
      ReserveStock, TakeStock, AuthorizePayment, ReleaseStock, FinishRelease, CommitStock,
      FinishCommit, AskTransition, WriteTransition, LoadToConfirm, LoadToCancel, LoadOrder,
      Commit, LoseCommit, Fail, RestartWorker, RebalanceTo, ProduceUnparseable, Relay,
      RelayUnmarked, MarkRelayed, ProviderMoves, CorrectStock, LateCallGoesOn, LateCallWrites,
      LateCallEnds, services, storeVars, sagaVars, vars

\* (an abandoned call is what its worker was about to do)
LEMMA CallsBacked ==
  ASSUME IInv, BackedInv, Backs, [Next]_vars
  PROVE  \A call \in late' : CallBacked(call)'
<1>1. ASSUME NEW call \in late
      PROVE  CallBacked(call)'
  BY DEF BackedInv, CallBacked, Backs, IInv, TypeOK, Call
<1>2. CASE late' \subseteq late
  BY <1>1, <1>2
<1>3. ASSUME NEW w \in Workers, Fail(w)
      PROVE  \A call \in late' : CallBacked(call)'
  <2>1. CASE late' = late
    BY <1>1, <2>1
  <2>2. CASE /\ step[w] \in RemoteStep
             /\ late' = late \cup {[op |-> step[w], order |-> Order(w)]}
    <3>1. Order(w) \in Orders /\ StepBacked(Order(w), step[w], inst[w])
      BY <2>2, CallsKnowOrder DEF RemoteStep, BackedInv, WorkerBacked
    <3>2. PICK made : made = [op |-> step[w], order |-> Order(w)]
      OBVIOUS
    <3>3. CallBacked(made)'
      BY <3>1, <3>2 DEF CallBacked, StepBacked, Backs
    <3> QED
      BY <1>1, <2>2, <3>2, <3>3
  <2> QED
    BY <1>3, <2>1, <2>2 DEF Fail
<1>4. ASSUME NEW c \in late, LateCallGoesOn(c)
      PROVE  \A call \in late' : CallBacked(call)'
  <2>1. c.order \in Orders /\ c \in Call
    BY DEF IInv, TypeOK, Call
  <2>2. PICK writing : writing = [c EXCEPT !.op = Writing(c.op)]
    OBVIOUS
  <2>3. /\ writing.op = Writing(c.op)
        /\ writing.order = c.order
    BY <2>1, <2>2 DEF Call
  <2>4. Writing(c.op) \in {"release", "releasing"} => c.op = "release"
    BY <1>4 DEF LateCallGoesOn, LateRead, Writing
  <2>5. CallBacked(writing)'
    BY <2>1, <2>3, <2>4 DEF CallBacked, BackedInv, Backs
  <2> QED
    BY <1>1, <1>4, <2>2, <2>5 DEF LateCallGoesOn
<1> QED
  BY <1>2, <1>3, <1>4
  DEF Next, Environment, WorkerStep, FetchMessage, IgnoreEvent, PublishDeadLetter, LoadSaga,
      SaveSaga, ReserveStock, TakeStock, AuthorizePayment, ReleaseStock, FinishRelease,
      CommitStock, FinishCommit, AskTransition, WriteTransition, LoadToConfirm, AppendConfirm,
      LoadToCancel, AppendCancel, LoadOrder, AppendDecision, Commit, LoseCommit, RestartWorker,
      RebalanceTo, PlaceOrder, ProduceUnparseable, Relay, RelayUnmarked, ProviderMoves,
      CorrectStock, LateCallWrites, LateCallEnds, vars

LEMMA BackedInit == Init => BackedInv
BY StatusFacts
DEF Init, LedgerInit, StoreInit, NoInstance, BackedInv, OrderBacked, Row, WorkerBacked

LEMMA BackedInvariant == Spec => []BackedInv
<1>1. IInv /\ BackedInv /\ [Next]_vars => BackedInv'
  <2> SUFFICES ASSUME IInv, BackedInv, [Next]_vars PROVE BackedInv'
    OBVIOUS
  <2>1. Backs /\ LogKept
    BY StepBacks, LogIsKept
  <2> QED
    BY <2>1, OrdersBacked, WorkersBacked, CallsBacked DEF BackedInv
<1> QED
  BY <1>1, BackedInit, InvariantHolds, PTL DEF Spec

(***************************************************************************)
(* However many workers run a saga and whatever abandoned calls do, and    *)
(* although a commit refused with INVALID_STATE is taken for success: a    *)
(* confirmed order was charged, and as long as the provider has the money  *)
(* its stock is committed (client.go, transition).                         *)
(***************************************************************************)
THEOREM ConfirmedOrdersAreBacked == Spec => []ConfirmedIsBacked
<1>1. BackedInv => ConfirmedIsBacked
  BY DEF BackedInv, OrderBacked, Backing, Refused, Charged, ConfirmedIsBacked
<1> QED
  BY <1>1, BackedInvariant, PTL

-----------------------------------------------------------------------------
(***************************************************************************)
(* One orchestrator.                                                       *)
(*                                                                         *)
(* Theorems about Saga when one orchestrator runs and calls do not outlive *)
(* their caller: whatever crashes, redeliveries, repeated placements,      *)
(* rebalances, stock corrections and the provider do, the calls keep to    *)
(* the contract of the inventory service, a confirmed order is paid and    *)
(* its stock committed, a saga row only moves forward, and a cancelled     *)
(* order the group is done with is not charged and holds nothing.          *)
(*                                                                         *)
(* Each argument is about one order: its saga row lags behind what the     *)
(* services did for it by one step at most, and a crash in between is made *)
(* up for when the message is redelivered.  A cancelled order whose row    *)
(* lags may find stock on redelivery and be charged, but then the handler  *)
(* never gets past the confirmation, and the offset is not committed.      *)
(***************************************************************************)
\* One worker process, no abandoned calls.
SoleOrchestrator == OneWorker /\ MaxLate = 0

\* What the services hold for an order whose row is in a given state.  A row
\* lags behind: the call of its step may have been made, and not noted.
OrderKnown(o) ==
  /\ Row(o) = "NONE" =>
       reservation[o] = "NONE" /\ payment[o] = "NONE" /\ ~IsDecided(o)
  /\ Row(o) = "STARTED" =>
       /\ reservation[o] \in {"NONE", "HELD"} /\ payment[o] = "NONE"
       /\ Status(events[o]) # "CONFIRMED"
  /\ Row(o) = "RESERVED" =>
       /\ reservation[o] \in {"HELD", "RELEASED"}
       /\ reservation[o] = "RELEASED" => Refused(o)
       /\ Status(events[o]) # "CONFIRMED"
  /\ Row(o) = "PAID" =>
       /\ reservation[o] \in {"HELD", "COMMITTED"} /\ WasCharged(o)
       /\ Status(events[o]) = "CONFIRMED" => reservation[o] = "COMMITTED"
  /\ Row(o) = "COMPLETED" => reservation[o] = "COMMITTED" /\ WasCharged(o)
  /\ Row(o) = "CANCELLED" =>
       \/ reservation[o] = "NONE" /\ payment[o] = "NONE"
       \/ reservation[o] = "RELEASED" /\ Refused(o)

\* The two ways to a cancellation: nothing was reserved, or it was released.
MayCancel(o) ==
  \/ Row(o) = "STARTED" /\ reservation[o] = "NONE"
  \/ Row(o) = "RESERVED" /\ reservation[o] = "RELEASED"

\* What is known of o when its handler, with instance i, is at step s.
StepKnown(o, s, i) ==
  /\ s = "save" =>
       \/ i.state = "STARTED" /\ Row(o) = "NONE"
       \/ i.state = "RESERVED" /\ Row(o) = "STARTED" /\ reservation[o] = "HELD"
       \/ i.state = "PAID" /\ Row(o) = "RESERVED" /\ reservation[o] = "HELD" /\ WasCharged(o)
       \/ i.state = "COMPLETED" /\ Row(o) = "PAID" /\ reservation[o] = "COMMITTED"
       \/ i.state = "CANCELLED" /\ MayCancel(o)
  /\ s = "reserve" => Row(o) = "STARTED"
  /\ s = "reserving" => Row(o) = "STARTED" /\ reservation[o] = "NONE"
  /\ s = "authorize" => Row(o) = "RESERVED"
  /\ s = "release" => Row(o) = "RESERVED" /\ Refused(o)
  /\ s = "releasing" => Row(o) = "RESERVED" /\ Refused(o) /\ reservation[o] = "HELD"
  /\ s = "commit" => Row(o) = "PAID"
  /\ s = "committing" => Row(o) = "PAID" /\ reservation[o] = "HELD"
  /\ s \in {"confirm", "appendConfirm"} => Row(o) = "PAID" /\ reservation[o] = "COMMITTED"
  /\ s \in {"cancel", "appendCancel"} => MayCancel(o)

BusyKnown(w) == step[w] # "idle" => StepKnown(Order(w), step[w], inst[w])

SoleInv ==
  /\ late = {}
  /\ \A o \in Orders : OrderKnown(o)
  /\ \A w \in Workers : BusyKnown(w)

-----------------------------------------------------------------------------
(* What is known between two steps.                                        *)

LEMMA SoleBusy ==
  ASSUME IInv, SoleInv, NEW w \in Workers, step[w] # "idle"
  PROVE  /\ Order(w) \in Orders
         /\ current[w] \in 1..Len(log)
         /\ OrderKnown(Order(w))
         /\ StepKnown(Order(w), step[w], inst[w])
BY CallsKnowOrder DEF SoleInv, BusyKnown

\* What is known of an order stays known while its row, its reservation and
\* its history do: what the provider refused or took back it never gives again.
LEMMA OrderStays ==
  ASSUME NEW o, OrderKnown(o), sagas'[o] = sagas[o],
         reservation'[o] = reservation[o], events'[o] = events[o],
         Refused(o) => Refused(o)', WasCharged(o) => WasCharged(o)',
         payment[o] = "NONE" => payment'[o] = "NONE"
  PROVE  OrderKnown(o)'
BY DEF OrderKnown, Row, IsDecided

LEMMA SamePayment ==
  ASSUME NEW o, payment'[o] = payment[o]
  PROVE  Refused(o)' = Refused(o) /\ WasCharged(o)' = WasCharged(o)
BY DEF Refused, WasCharged

\* What a handler relies on is not taken away while its loop stands still.
LEMMA BusyStays ==
  ASSUME IInv, SoleInv, LogKept, NEW w \in Workers, step'[w] = step[w],
         step[w] # "idle" => inst'[w] = inst[w] /\ current'[w] = current[w],
         UNCHANGED <<sagas, reservation>>,
         \A o \in Orders : Refused(o) => Refused(o)',
         \A o \in Orders : WasCharged(o) => WasCharged(o)'
  PROVE  BusyKnown(w)'
<1> SUFFICES ASSUME step[w] # "idle"
             PROVE  StepKnown(Order(w), step[w], inst[w])'
  BY DEF BusyKnown
<1>1. PICK o \in Orders : o = Order(w)
  BY SoleBusy
<1>2. StepKnown(o, step[w], inst[w]) /\ current[w] \in 1..Len(log)
  BY <1>1, SoleBusy
<1>3. Order(w)' = o
  BY <1>1, <1>2 DEF Order, InHand, LogKept
<1> QED
  BY <1>1, <1>2, <1>3 DEF StepKnown, MayCancel, Row

\* A step that leaves rows, reservations, payments and histories alone.
LEMMA QuietStep ==
  ASSUME IInv, SoleInv, LogKept, UNCHANGED <<sagas, reservation, payment, events>>,
         late' = {},
         \A w \in Workers :
           \/ step'[w] = "idle"
           \/ /\ step'[w] = step[w]
              /\ step[w] # "idle" => inst'[w] = inst[w] /\ current'[w] = current[w]
  PROVE  SoleInv'
<1>1. \A o : /\ Refused(o)' = Refused(o)
             /\ WasCharged(o)' = WasCharged(o)
  BY SamePayment
<1>2. \A o \in Orders : OrderKnown(o)'
  BY <1>1, OrderStays DEF SoleInv
<1>3. ASSUME NEW w \in Workers
      PROVE  BusyKnown(w)'
  <2>1. CASE step'[w] = "idle"
    BY <2>1 DEF BusyKnown
  <2>2. CASE /\ step'[w] = step[w]
             /\ step[w] # "idle" => inst'[w] = inst[w] /\ current'[w] = current[w]
    BY <1>1, <2>2, BusyStays
  <2> QED
    BY <2>1, <2>2
<1> QED
  BY <1>2, <1>3 DEF SoleInv

LEMMA SoleGiveUp ==
  ASSUME IInv, SoleInv, SoleOrchestrator, NEW w \in Workers, GiveUp(w), LogKept,
         UNCHANGED <<sagas, reservation, payment, events, late>>
  PROVE  SoleInv'
<1>1. step'[w] = "idle"
  BY DEF GiveUp, Forget, Goto, IInv, TypeOK
<1>2. \A v \in Workers : v = w
  BY DEF SoleOrchestrator, OneWorker
<1> QED
  BY <1>1, <1>2, QuietStep DEF SoleInv

\* A call is abandoned only where calls may outlive their caller.
LEMMA SoleFail ==
  ASSUME IInv, SoleInv, SoleOrchestrator, LogKept, NEW w \in Workers, Fail(w)
  PROVE  SoleInv'
<1>1. Cardinality(late) = 0
  BY FS_EmptySet DEF SoleInv
<1>2. UNCHANGED late
  BY <1>1 DEF Fail, SoleOrchestrator
<1> QED
  BY <1>2, SoleGiveUp DEF Fail, services, ledgerVars, storeVars

\* The loop around the handler, and what does not concern it.
LEMMA SoleLoop ==
  ASSUME IInv, SoleInv, LogKept,
         \/ \E w \in Workers :
              \/ \E p \in Partitions : FetchMessage(w, p)
              \/ IgnoreEvent(w) \/ PublishDeadLetter(w) \/ Commit(w) \/ LoseCommit(w)
              \/ RestartWorker(w)
         \/ \E assignment \in [Partitions -> Workers] : RebalanceTo(assignment)
         \/ \E k \in 1..Len(outbox) : Relay(k) \/ RelayUnmarked(k)
         \/ \E o \in Orders : ProduceUnparseable(o)
         \/ \E s \in Skus, n \in 0..MaxStock : CorrectStock(s, n)
         \/ UNCHANGED vars
  PROVE  SoleInv'
<1> USE DEF IInv, TypeOK, ConsumerTypeOK, services, ledgerVars, storeVars, sagaVars
<1>1. ASSUME NEW w \in Workers,
             \/ \E p \in Partitions : FetchMessage(w, p)
             \/ IgnoreEvent(w) \/ PublishDeadLetter(w) \/ Commit(w) \/ LoseCommit(w)
             \/ RestartWorker(w)
      PROVE  SoleInv'
  <2>1. /\ step[w] = "idle"
        /\ UNCHANGED <<sagas, inst, step, reservation, payment, events, late>>
        /\ \A v \in Workers \ {w} : current'[v] = current[v]
    BY <1>1 DEF FetchMessage, FetchFrom, IgnoreEvent, PublishDeadLetter, Handled, DeadLetter,
       Commit, CommitOffset, LoseCommit, CommitRefused, Stop, RestartWorker, Restart,
       WorkerInv, HandlerInv
  <2> QED
    BY <2>1, QuietStep DEF SoleInv
<1>2. CASE UNCHANGED <<sagas, inst, step, current, reservation, payment, events, late>>
  BY <1>2, QuietStep DEF SoleInv
<1>3. CASE \E assignment \in [Partitions -> Workers] : RebalanceTo(assignment)
  BY <1>2, <1>3 DEF RebalanceTo, Rebalance
<1>4. CASE \E k \in 1..Len(outbox) : Relay(k) \/ RelayUnmarked(k)
  BY <1>2, <1>4 DEF Relay, RelayUnmarked, MarkRelayed, Produce
<1>5. CASE \E o \in Orders : ProduceUnparseable(o)
  BY <1>2, <1>5 DEF ProduceUnparseable, Produce
<1>6. CASE \E s \in Skus, n \in 0..MaxStock : CorrectStock(s, n)
  BY <1>2, <1>6 DEF CorrectStock, SetStock, consumerVars
<1>7. CASE UNCHANGED vars
  BY <1>2, <1>7 DEF vars, consumerVars
<1> QED
  BY <1>1, <1>3, <1>4, <1>5, <1>6, <1>7

-----------------------------------------------------------------------------
(* Orchestrator.Handle: a step concerns the order in hand only.            *)

LEMMA OthersStay ==
  ASSUME SoleInv, NEW o \in Orders,
         \A p \in Orders \ {o} :
           /\ sagas'[p] = sagas[p] /\ reservation'[p] = reservation[p]
           /\ payment'[p] = payment[p] /\ events'[p] = events[p]
  PROVE  \A p \in Orders \ {o} : OrderKnown(p)'
BY OrderStays, SamePayment DEF SoleInv

LEMMA HandlerStep ==
  ASSUME IInv, SoleInv, SoleOrchestrator, NEW w \in Workers,
         NEW o \in Orders, o = Order(w), UNCHANGED <<log, current>>, late' = late,
         \A p \in Orders \ {o} :
           /\ sagas'[p] = sagas[p] /\ reservation'[p] = reservation[p]
           /\ payment'[p] = payment[p] /\ events'[p] = events[p],
         OrderKnown(o)',
         NEW s, NEW i, s = "idle" \/ StepKnown(o, s, i)', Goto(w, s), i = inst'[w]
  PROVE  SoleInv'
<1>1. step'[w] = s /\ Order(w)' = o
  BY DEF Goto, IInv, TypeOK, Order, InHand
<1>2. BusyKnown(w)'
  BY <1>1 DEF BusyKnown
<1>3. \A v \in Workers : v = w
  BY DEF SoleOrchestrator, OneWorker
<1>4. \A p \in Orders \ {o} : OrderKnown(p)'
  BY OthersStay
<1> QED
  BY <1>2, <1>3, <1>4 DEF SoleInv

LEMMA SoleLoadSaga ==
  ASSUME IInv, SoleInv, SoleOrchestrator, NEW w \in Workers, LoadSaga(w)
  PROVE  SoleInv'
<1>0. PICK o \in Orders : o = Order(w)
  BY InHandTyped DEF LoadSaga, IInv, WorkerInv, LoopInv
<1>1. UNCHANGED <<sagas, reservation, payment, events, late>>
  BY DEF LoadSaga, services, ledgerVars, storeVars
<1>2. OrderKnown(o)'
  BY <1>1, OrderStays, SamePayment DEF SoleInv
<1>3. PICK i : i = inst'[w]
  OBVIOUS
<1>4. sagas[o].state \in SagaState
  BY DEF IInv, TypeOK, Instance
<1>5. CASE Finish(w)
  <2>1. Goto(w, "idle") /\ UNCHANGED <<log, current>>
    BY <1>5 DEF Finish, Forget, Handled
  <2> QED
    BY <1>0, <1>1, <1>2, <1>3, <2>1, HandlerStep
<1>6. CASE /\ ~Found(sagas[o])
           /\ inst' = [inst EXCEPT ![w] = NewInstance]
           /\ Goto(w, "save")
           /\ UNCHANGED consumerVars
  <2>1. StepKnown(o, "save", i)'
    BY <1>1, <1>3, <1>6 DEF StepKnown, Found, Row, NewInstance, IInv, TypeOK
  <2> QED
    BY <1>0, <1>1, <1>2, <1>3, <1>6, <2>1, HandlerStep DEF consumerVars
<1>7. CASE /\ Found(sagas[o])
           /\ ~Terminal(sagas[o].state)
           /\ Goto(w, StepAfter(sagas[o].state))
           /\ UNCHANGED consumerVars
  <2>1. PICK s : s = StepAfter(sagas[o].state)
    OBVIOUS
  <2>2. StepKnown(o, s, i)'
    BY <1>1, <1>4, <1>7, <2>1 DEF StepKnown, StepAfter, Found, Terminal, SagaState, Row
  <2> QED
    BY <1>0, <1>1, <1>2, <1>3, <1>7, <2>1, <2>2, HandlerStep DEF consumerVars
<1> QED
  BY <1>0, <1>5, <1>6, <1>7 DEF LoadSaga

LEMMA SoleReserve ==
  ASSUME IInv, SoleInv, SoleOrchestrator, NEW w \in Workers, ReserveStock(w)
  PROVE  SoleInv'
<1>0. PICK o \in Orders : o = Order(w)
  BY SoleBusy DEF ReserveStock
<1>1. UNCHANGED <<log, current, sagas, reservation, payment, events, late>>
  BY DEF ReserveStock, services, ledgerVars, storeVars, consumerVars
<1>2. OrderKnown(o)'
  BY <1>1, OrderStays, SamePayment DEF SoleInv
<1>3. Row(o)' = "STARTED" /\ reservation'[o] \in {"NONE", "HELD"}
  BY <1>0, <1>1, SoleBusy DEF ReserveStock, StepKnown, OrderKnown, Row
<1>4. PICK i : i = inst'[w]
  OBVIOUS
<1>5. CASE reservation[o] # "NONE" /\ SetInst(w, "RESERVED", TRUE) /\ Goto(w, "save")
  <2>1. StepKnown(o, "save", i)'
    BY <1>1, <1>3, <1>4, <1>5 DEF StepKnown, SetInst, IInv, TypeOK
  <2> QED
    BY <1>0, <1>1, <1>2, <1>4, <1>5, <2>1, HandlerStep
<1>6. CASE reservation[o] = "NONE" /\ Goto(w, "reserving")
  <2>1. StepKnown(o, "reserving", i)'
    BY <1>1, <1>3, <1>6 DEF StepKnown
  <2> QED
    BY <1>0, <1>1, <1>2, <1>4, <1>6, <2>1, HandlerStep
<1> QED
  BY <1>0, <1>5, <1>6 DEF ReserveStock

LEMMA SoleTake ==
  ASSUME IInv, SoleInv, SoleOrchestrator, NEW w \in Workers, TakeStock(w)
  PROVE  SoleInv'
<1>0. PICK o \in Orders : o = Order(w)
  BY SoleBusy DEF TakeStock
<1>1. UNCHANGED <<log, current, sagas, payment, events, late>>
  BY DEF TakeStock, storeVars, consumerVars
<1>2. Row(o) = "STARTED" /\ reservation[o] = "NONE" /\ OrderKnown(o)
  BY <1>0, SoleBusy DEF TakeStock, StepKnown
<1>3. PICK i : i = inst'[w]
  OBVIOUS
<1>4. CASE Take(o) /\ SetInst(w, "RESERVED", TRUE) /\ Goto(w, "save")
  <2>1. reservation'[o] = "HELD" /\ \A p \in Orders \ {o} : reservation'[p] = reservation[p]
    BY <1>2, <1>4 DEF Take, Hold, IInv, TypeOK, LedgerTypeOK
  <2>2. OrderKnown(o)'
    BY <1>1, <1>2, <2>1 DEF OrderKnown, Row
  <2>3. StepKnown(o, "save", i)'
    BY <1>1, <1>2, <1>3, <1>4, <2>1 DEF StepKnown, SetInst, Row, IInv, TypeOK
  <2> QED
    BY <1>0, <1>1, <1>3, <1>4, <2>1, <2>2, <2>3, HandlerStep
<1>5. CASE Goto(w, "cancel") /\ UNCHANGED ledgerVars
  <2>1. OrderKnown(o)'
    BY <1>1, <1>2, <1>5, OrderStays, SamePayment DEF ledgerVars
  <2>2. StepKnown(o, "cancel", i)'
    BY <1>1, <1>2, <1>5 DEF StepKnown, MayCancel, Row, ledgerVars
  <2> QED
    BY <1>0, <1>1, <1>3, <1>5, <2>1, <2>2, HandlerStep DEF ledgerVars
<1> QED
  BY <1>0, <1>4, <1>5 DEF TakeStock

LEMMA SoleAuthorize ==
  ASSUME IInv, SoleInv, SoleOrchestrator, LogKept, NEW w \in Workers, AuthorizePayment(w)
  PROVE  SoleInv'
<1>0. PICK o \in Orders : o = Order(w)
  BY SoleBusy DEF AuthorizePayment
<1>1. UNCHANGED <<reservation, events, sagas, late>>
  BY DEF AuthorizePayment, ledgerVars, storeVars
<1>2. Row(o) = "RESERVED" /\ OrderKnown(o)
  BY <1>0, SoleBusy DEF AuthorizePayment, StepKnown
<1>3. PICK i : i = inst'[w]
  OBVIOUS
<1>4. CASE GiveUp(w) /\ UNCHANGED payment
  BY <1>1, <1>4, SoleGiveUp
<1>5. ASSUME NEW status \in PaymentStatus, Capture(o, status), UNCHANGED consumerVars,
             \/ Approved(status) /\ SetInst(w, "PAID", inst[w].held) /\ Goto(w, "save")
             \/ ~Approved(status) /\ Goto(w, "release")
      PROVE  SoleInv'
  <2>1. /\ payment'[o] = status
        /\ payment[o] # "NONE" => payment'[o] = payment[o]
        /\ status \in PaymentStatus \ {"NONE"}
        /\ \A p \in Orders \ {o} : payment'[p] = payment[p]
    BY <1>5 DEF Capture, IInv, TypeOK, PaymentTypeOK, PaymentStatus
  <2>2. OrderKnown(o)'
    BY <1>1, <1>2, <2>1 DEF OrderKnown, Row, Refused
  <2>3. CASE Approved(status) /\ SetInst(w, "PAID", inst[w].held) /\ Goto(w, "save")
    <3>1. ~Refused(o)' /\ WasCharged(o)'
      BY <2>1, <2>3 DEF Approved, Refused, WasCharged, PaymentStatus
    <3>2. reservation'[o] = "HELD" /\ Row(o)' = "RESERVED"
      BY <1>1, <1>2, <2>2, <3>1 DEF OrderKnown, Row
    <3>3. i.state = "PAID"
      BY <1>3, <2>3 DEF SetInst, IInv, TypeOK
    <3>4. StepKnown(o, "save", i)'
      BY <3>1, <3>2, <3>3 DEF StepKnown
    <3> QED
      BY <1>0, <1>1, <1>3, <1>5, <2>1, <2>2, <2>3, <3>4, HandlerStep DEF consumerVars
  <2>4. CASE ~Approved(status) /\ Goto(w, "release")
    <3>1. Refused(o)'
      BY <2>1, <2>4 DEF Approved, Refused, PaymentStatus
    <3>2. StepKnown(o, "release", i)'
      BY <1>1, <1>2, <3>1 DEF StepKnown, Row
    <3> QED
      BY <1>0, <1>1, <1>3, <1>5, <2>1, <2>2, <2>4, <3>2, HandlerStep DEF consumerVars
  <2> QED
    BY <1>5, <2>3, <2>4
<1> QED
  BY <1>0, <1>4, <1>5 DEF AuthorizePayment

\* A release is asked for with the payment refused, a commit with it made.
LEMMA SoleAsk ==
  ASSUME IInv, SoleInv, SoleOrchestrator, LogKept, NEW w \in Workers,
         ReleaseStock(w) \/ CommitStock(w)
  PROVE  SoleInv'
<1>0. PICK o \in Orders : o = Order(w)
  BY SoleBusy DEF ReleaseStock, CommitStock
<1>1. UNCHANGED <<sagas, reservation, payment, events, late>>
  BY DEF ReleaseStock, CommitStock, AskTransition, services, ledgerVars, storeVars
<1>2. OrderKnown(o)'
  BY <1>1, OrderStays, SamePayment DEF SoleInv
<1>3. StepKnown(o, step[w], inst[w]) /\ OrderKnown(o)
  BY <1>0, SoleBusy DEF ReleaseStock, CommitStock
<1>4. PICK i : i = inst'[w]
  OBVIOUS
<1>5. CASE GiveUp(w)
  BY <1>1, <1>5, SoleGiveUp
<1>6. ASSUME NEW s, Goto(w, s), UNCHANGED consumerVars, StepKnown(o, s, i)'
      PROVE  SoleInv'
  BY <1>0, <1>1, <1>2, <1>4, <1>6, HandlerStep DEF consumerVars
<1>7. Refused(o)' = Refused(o) /\ Row(o)' = Row(o)
  BY <1>1, SamePayment DEF Row
<1>8. CASE ReleaseStock(w)
  <2>1. Row(o) = "RESERVED" /\ Refused(o) /\ reservation[o] \in {"HELD", "RELEASED"}
    BY <1>3, <1>8 DEF ReleaseStock, StepKnown, OrderKnown
  <2>2. reservation[o] = "HELD" => StepKnown(o, "releasing", i)'
    BY <1>1, <1>7, <2>1 DEF StepKnown
  <2>3. reservation[o] = "RELEASED" => StepKnown(o, "cancel", i)'
    BY <1>1, <1>7, <2>1 DEF StepKnown, MayCancel
  <2>4. Goto(w, "releasing") /\ UNCHANGED consumerVars /\ reservation[o] = "HELD" => SoleInv'
    BY <1>6, <2>2
  <2>5. Goto(w, "cancel") /\ UNCHANGED consumerVars /\ reservation[o] = "RELEASED" => SoleInv'
    BY <1>6, <2>3
  <2>6. \/ Goto(w, "releasing") /\ UNCHANGED consumerVars /\ reservation[o] = "HELD"
        \/ /\ Goto(w, "cancel") /\ UNCHANGED consumerVars
           /\ \E reply \in {"OK", "INVALID_STATE", "NOT_FOUND"} :
                AnsweredByStatus(o, "RELEASED", reply)
        \/ GiveUp(w)
    BY <1>0, <1>8 DEF ReleaseStock, AskTransition, Transitioned
  <2>7. (\E reply \in {"OK", "INVALID_STATE", "NOT_FOUND"} :
           AnsweredByStatus(o, "RELEASED", reply)) => reservation[o] = "RELEASED"
    BY <2>1 DEF AnsweredByStatus, Targets
  <2> QED
    BY <1>5, <2>4, <2>5, <2>6, <2>7
<1>9. CASE CommitStock(w)
  <2>1. Row(o) = "PAID" /\ reservation[o] \in {"HELD", "COMMITTED"}
    BY <1>3, <1>9 DEF CommitStock, StepKnown, OrderKnown
  <2>2. reservation[o] = "HELD" => StepKnown(o, "committing", i)'
    BY <1>1, <1>7, <2>1 DEF StepKnown
  <2>3. reservation[o] = "COMMITTED" => StepKnown(o, "confirm", i)'
    BY <1>1, <1>7, <2>1 DEF StepKnown
  <2>4. Goto(w, "committing") /\ UNCHANGED consumerVars /\ reservation[o] = "HELD" => SoleInv'
    BY <1>6, <2>2
  <2>5. Goto(w, "confirm") /\ UNCHANGED consumerVars /\ reservation[o] = "COMMITTED" => SoleInv'
    BY <1>6, <2>3
  <2>6. \/ Goto(w, "committing") /\ UNCHANGED consumerVars /\ reservation[o] = "HELD"
        \/ /\ Goto(w, "confirm") /\ UNCHANGED consumerVars
           /\ \E reply \in {"OK", "INVALID_STATE", "NOT_FOUND"} :
                AnsweredByStatus(o, "COMMITTED", reply)
        \/ GiveUp(w)
    BY <1>0, <1>9 DEF CommitStock, AskTransition, Transitioned
  <2>7. (\E reply \in {"OK", "INVALID_STATE", "NOT_FOUND"} :
           AnsweredByStatus(o, "COMMITTED", reply)) => reservation[o] = "COMMITTED"
    BY <2>1 DEF AnsweredByStatus, Targets
  <2> QED
    BY <1>5, <2>4, <2>5, <2>6, <2>7
<1> QED
  BY <1>8, <1>9

LEMMA SoleWrite ==
  ASSUME IInv, SoleInv, SoleOrchestrator, LogKept, NEW w \in Workers,
         FinishRelease(w) \/ FinishCommit(w)
  PROVE  SoleInv'
<1>0. PICK o \in Orders : o = Order(w)
  BY SoleBusy DEF FinishRelease, FinishCommit
<1>1. UNCHANGED <<sagas, payment, events, late>>
  BY DEF FinishRelease, FinishCommit, WriteTransition, storeVars
<1>2. PICK i : i = inst'[w]
  OBVIOUS
<1>3. StepKnown(o, step[w], inst[w]) /\ OrderKnown(o)
  BY <1>0, SoleBusy DEF FinishRelease, FinishCommit
<1>4. /\ Row(o)' = Row(o) /\ IsDecided(o)' = IsDecided(o)
      /\ Refused(o)' = Refused(o) /\ WasCharged(o)' = WasCharged(o)
  BY <1>1, SamePayment DEF Row, IsDecided
<1>5. CASE GiveUp(w) /\ UNCHANGED ledgerVars
  BY <1>1, <1>5, SoleGiveUp DEF ledgerVars
<1>6. ASSUME NEW t, NEW s, Unhold(o, t), Goto(w, s), UNCHANGED consumerVars,
             OrderKnown(o)', StepKnown(o, s, i)'
      PROVE  SoleInv'
  <2>1. \A p \in Orders \ {o} : reservation'[p] = reservation[p]
    BY <1>6 DEF Unhold, IInv, TypeOK, LedgerTypeOK
  <2> QED
    BY <1>0, <1>1, <1>2, <1>6, <2>1, HandlerStep DEF consumerVars
<1>7. \A t : Unhold(o, t) => reservation'[o] = t
  BY DEF Unhold, IInv, TypeOK, LedgerTypeOK
<1>8. CASE FinishRelease(w)
  <2>1. Row(o) = "RESERVED" /\ Refused(o)
    BY <1>3, <1>8 DEF FinishRelease, StepKnown
  <2>2. reservation'[o] = "RELEASED" => OrderKnown(o)' /\ StepKnown(o, "cancel", i)'
    BY <1>1, <1>3, <1>4, <2>1 DEF OrderKnown, StepKnown, MayCancel
  <2> QED
    BY <1>0, <1>5, <1>6, <1>7, <1>8, <2>2 DEF FinishRelease, WriteTransition, Transitioned
<1>9. CASE FinishCommit(w)
  <2>1. Row(o) = "PAID"
    BY <1>3, <1>9 DEF FinishCommit, StepKnown
  <2>2. reservation'[o] = "COMMITTED" => OrderKnown(o)' /\ StepKnown(o, "confirm", i)'
    BY <1>1, <1>3, <1>4, <2>1 DEF OrderKnown, StepKnown
  <2> QED
    BY <1>0, <1>5, <1>6, <1>7, <1>9, <2>2 DEF FinishCommit, WriteTransition, Transitioned
<1> QED
  BY <1>8, <1>9

LEMMA SoleLoadOrder ==
  ASSUME IInv, SoleInv, SoleOrchestrator, LogKept, NEW w \in Workers,
         LoadToConfirm(w) \/ LoadToCancel(w)
  PROVE  SoleInv'
<1>0. PICK o \in Orders : o = Order(w)
  BY SoleBusy DEF LoadToConfirm, LoadToCancel
<1>1. StepKnown(o, step[w], inst[w])
  BY <1>0, SoleBusy DEF LoadToConfirm, LoadToCancel
<1>2. PICK d \in Decisions, append \in {"appendConfirm", "appendCancel"} :
        /\ LoadOrder(w, d, append)
        /\ d = "order.confirmed" => step[w] = "confirm" /\ append = "appendConfirm"
        /\ d = "order.cancelled" => step[w] = "cancel" /\ append = "appendCancel"
  BY DEF LoadToConfirm, LoadToCancel, Decisions
<1>3. UNCHANGED <<sagas, reservation, payment, events, late>>
  BY <1>2 DEF LoadOrder, services, ledgerVars, storeVars
<1>4. OrderKnown(o)'
  BY <1>3, OrderStays, SamePayment DEF SoleInv
<1>5. PICK i : i = inst'[w]
  OBVIOUS
<1>6. CASE Goto(w, append) /\ UNCHANGED consumerVars
  <2>1. StepKnown(o, append, i)'
    BY <1>1, <1>2, <1>3 DEF StepKnown, Decisions, MayCancel, Row
  <2> QED
    BY <1>0, <1>3, <1>4, <1>5, <1>6, <2>1, HandlerStep DEF consumerVars
<1>7. CASE Decided(w, d) /\ UNCHANGED consumerVars
  <2>1. i.state = IF d = "order.confirmed" THEN "COMPLETED" ELSE "CANCELLED"
    BY <1>5, <1>7 DEF Decided, SetInst, IInv, TypeOK
  <2>2. StepKnown(o, "save", i)'
    BY <1>1, <1>2, <1>3, <2>1 DEF StepKnown, Decisions, MayCancel, Row
  <2> QED
    BY <1>0, <1>3, <1>4, <1>5, <1>7, <2>2, HandlerStep DEF Decided, consumerVars
<1>8. CASE GiveUp(w)
  BY <1>3, <1>8, SoleGiveUp
<1> QED
  BY <1>0, <1>2, <1>6, <1>7, <1>8 DEF LoadOrder

LEMMA SoleAppend ==
  ASSUME IInv, SoleInv, SoleOrchestrator, LogKept, NEW w \in Workers,
         AppendConfirm(w) \/ AppendCancel(w)
  PROVE  SoleInv'
<1>0. PICK o \in Orders : o = Order(w)
  BY SoleBusy DEF AppendConfirm, AppendCancel
<1>1. StepKnown(o, step[w], inst[w]) /\ OrderKnown(o) /\ version[w] = 1
  BY <1>0, SoleBusy DEF AppendConfirm, AppendCancel, IInv, WorkerInv, HandlerInv
<1>2. PICK d \in Decisions :
        /\ AppendDecision(w, d)
        /\ d = "order.confirmed" => step[w] = "appendConfirm"
        /\ d = "order.cancelled" => step[w] = "appendCancel"
  BY DEF AppendConfirm, AppendCancel, Decisions
<1>3. UNCHANGED <<reservation, payment, sagas, late>>
  BY <1>2 DEF AppendDecision, ledgerVars
<1>4. PICK i : i = inst'[w]
  OBVIOUS
<1>5. CASE VersionFree(o, version[w]) /\ Record(o, d) /\ Decided(w, d) /\ UNCHANGED consumerVars
  <2>1. events[o] = <<"order.placed">>
    BY <1>1, <1>5, PendingHistory DEF IInv, VersionFree
  <2>2. /\ events'[o] = Append(events[o], d)
        /\ \A p \in Orders \ {o} : events'[p] = events[p]
    BY <1>5, RecordTyped DEF IInv, TypeOK, EventTypes
  <2>3. Status(events'[o]) = StatusOf(d)
    BY <2>1, <2>2, DecisionAppended, StatusFacts DEF StatusOf, Decisions
  <2>4. Row(o)' = Row(o) /\ Refused(o)' = Refused(o) /\ WasCharged(o)' = WasCharged(o)
    BY <1>3, SamePayment DEF Row
  <2>5. OrderKnown(o)'
    <3>1. CASE d = "order.confirmed"
      <4>1. Row(o) = "PAID" /\ reservation[o] = "COMMITTED"
        BY <1>1, <1>2, <3>1 DEF StepKnown
      <4> QED
        BY <1>1, <1>3, <2>4, <4>1 DEF OrderKnown
    <3>2. CASE d = "order.cancelled"
      <4>1. MayCancel(o) /\ Status(events'[o]) = "CANCELLED"
        BY <1>1, <1>2, <2>3, <3>2 DEF StepKnown, StatusOf
      <4> QED
        BY <1>1, <1>3, <2>4, <4>1 DEF OrderKnown, MayCancel
    <3> QED
      BY <3>1, <3>2 DEF Decisions
  <2>6. i.state = IF d = "order.confirmed" THEN "COMPLETED" ELSE "CANCELLED"
    BY <1>4, <1>5 DEF Decided, SetInst, IInv, TypeOK
  <2>7. StepKnown(o, "save", i)'
    BY <1>1, <1>2, <1>3, <2>4, <2>6 DEF StepKnown, Decisions, MayCancel
  <2> QED
    BY <1>0, <1>3, <1>4, <1>5, <2>2, <2>5, <2>7, HandlerStep DEF Decided, consumerVars
<1>6. CASE GiveUp(w) /\ UNCHANGED storeVars
  BY <1>3, <1>6, SoleGiveUp DEF storeVars
<1> QED
  BY <1>0, <1>2, <1>5, <1>6 DEF AppendDecision

(***************************************************************************)
(* A save is the one step that moves a row.  It moves it forward, because  *)
(* the instance is as old as the row it was loaded from, and what the next *)
(* step relies on has been done before the save.                           *)
(***************************************************************************)
LEMMA SaveMovesForward ==
  ASSUME IInv, SoleInv, NEW w \in Workers, SaveSaga(w), NEW o \in Orders, o = Order(w)
  PROVE  /\ Row(o)' = inst[w].state
         /\ Rank(Row(o)) < Rank(Row(o)')
         /\ \A p \in Orders \ {o} : sagas'[p] = sagas[p]
<1>1. step[w] = "save" /\ StepKnown(o, step[w], inst[w])
  BY SoleBusy DEF SaveSaga
<1>2. /\ Row(o)' = inst[w].state
      /\ \A p \in Orders \ {o} : sagas'[p] = sagas[p]
  BY DEF SaveSaga, Row, IInv, TypeOK
<1>3. Rank(Row(o)) < Rank(inst[w].state)
  BY <1>1 DEF StepKnown, MayCancel, Rank
<1> QED
  BY <1>2, <1>3

LEMMA SoleSave ==
  ASSUME IInv, SoleInv, SoleOrchestrator, NEW w \in Workers, SaveSaga(w)
  PROVE  SoleInv'
<1>0. PICK o \in Orders : o = Order(w)
  BY SoleBusy DEF SaveSaga
<1>1. StepKnown(o, "save", inst[w]) /\ OrderKnown(o) /\ Agrees(inst[w], o)
  BY <1>0, SoleBusy DEF SaveSaga, IInv, WorkerInv, HandlerInv
<1>2. UNCHANGED <<reservation, payment, events, late>>
  BY DEF SaveSaga, services, ledgerVars, storeVars
<1>3. Row(o)' = inst[w].state /\ \A p \in Orders \ {o} : sagas'[p] = sagas[p]
  BY <1>0, SaveMovesForward
<1>4. /\ Refused(o)' = Refused(o) /\ WasCharged(o)' = WasCharged(o)
      /\ IsDecided(o)' = IsDecided(o)
  BY <1>2, SamePayment DEF IsDecided
<1>5. OrderKnown(o)'
  <2>1. CASE inst[w].state = "STARTED" /\ Row(o) = "NONE"
    BY <1>1, <1>2, <1>3, <1>4, <2>1 DEF OrderKnown, IsDecided
  <2>2. CASE inst[w].state = "RESERVED" /\ Row(o) = "STARTED" /\ reservation[o] = "HELD"
    BY <1>1, <1>2, <1>3, <1>4, <2>2 DEF OrderKnown
  <2>3. CASE /\ inst[w].state = "PAID" /\ Row(o) = "RESERVED"
             /\ reservation[o] = "HELD" /\ WasCharged(o)
    BY <1>1, <1>2, <1>3, <1>4, <2>3 DEF OrderKnown
  <2>4. CASE inst[w].state = "COMPLETED" /\ Row(o) = "PAID" /\ reservation[o] = "COMMITTED"
    BY <1>1, <1>2, <1>3, <1>4, <2>4 DEF OrderKnown
  <2>5. CASE inst[w].state = "CANCELLED" /\ MayCancel(o)
    BY <1>1, <1>2, <1>3, <1>4, <2>5 DEF OrderKnown, MayCancel
  <2> QED
    BY <1>1, <2>1, <2>2, <2>3, <2>4, <2>5 DEF StepKnown
<1>6. PICK i : i = inst'[w]
  OBVIOUS
<1>7. CASE Finish(w)
  <2>1. Goto(w, "idle") /\ UNCHANGED <<log, current>>
    BY <1>7 DEF Finish, Forget, Handled
  <2> QED
    BY <1>0, <1>2, <1>3, <1>5, <1>6, <2>1, HandlerStep
<1>8. CASE /\ ~Terminal(inst[w].state)
           /\ Goto(w, StepAfter(inst[w].state))
           /\ UNCHANGED consumerVars
  <2>1. PICK s : s = StepAfter(inst[w].state)
    OBVIOUS
  <2>2. inst[w].state \in {"STARTED", "RESERVED", "PAID"}
    BY <1>1, <1>8 DEF StepKnown, Terminal
  <2>3. StepKnown(o, s, i)'
    BY <1>3, <2>1, <2>2 DEF StepKnown, StepAfter
  <2> QED
    BY <1>0, <1>2, <1>3, <1>5, <1>6, <1>8, <2>1, <2>3, HandlerStep DEF consumerVars
<1> QED
  BY <1>7, <1>8 DEF SaveSaga

-----------------------------------------------------------------------------
(* Clients and the provider.                                               *)

LEMMA SolePlace ==
  ASSUME IInv, SoleInv, LogKept, NEW o \in Orders, PlaceOrder(o)
  PROVE  SoleInv'
<1> USE DEF PlaceOrder, Place
<1>1. UNCHANGED <<sagas, inst, step, current, reservation, payment, late>>
  BY DEF ledgerVars, sagaVars, consumerVars
<1>2. /\ events'[o] = Append(events[o], "order.placed")
      /\ \A p \in Orders \ {o} : events'[p] = events[p]
  BY RecordTyped DEF IInv, TypeOK, EventTypes
<1>3. Status(events[o]) = "NOT_FOUND" /\ Status(events'[o]) = "PENDING"
  BY <1>2, StatusFacts
<1>4. OrderKnown(o)'
  <2>1. /\ Row(o)' = Row(o) /\ Refused(o)' = Refused(o) /\ WasCharged(o)' = WasCharged(o)
        /\ ~IsDecided(o)'
    BY <1>1, <1>3, SamePayment DEF Row, IsDecided
  <2> QED
    BY <1>1, <1>3, <2>1 DEF SoleInv, OrderKnown
<1>5. \A p \in Orders \ {o} : OrderKnown(p)'
  BY <1>1, <1>2, OthersStay
<1>6. \A w \in Workers : BusyKnown(w)'
  BY <1>1, BusyStays, SamePayment
<1> QED
  BY <1>1, <1>4, <1>5, <1>6 DEF SoleInv

LEMMA SoleProvider ==
  ASSUME IInv, SoleInv, LogKept, Backs, NEW o \in Orders, NEW to \in PaymentStatus,
         ProviderMoves(o, to)
  PROVE  SoleInv'
<1>1. UNCHANGED <<sagas, inst, step, current, reservation, events, late>>
  BY DEF ProviderMoves, ledgerVars, storeVars, sagaVars, consumerVars
<1>2. \A p \in Orders : payment[p] = "NONE" => payment'[p] = "NONE"
  BY DEF ProviderMoves, ProviderUpdate, CanBecome, IInv, TypeOK, PaymentTypeOK
<1>3. \A p \in Orders : OrderKnown(p)'
  BY <1>1, <1>2, OrderStays DEF SoleInv, Backs
<1>4. \A w \in Workers : BusyKnown(w)'
  BY <1>1, BusyStays DEF Backs
<1> QED
  BY <1>1, <1>3, <1>4 DEF SoleInv

-----------------------------------------------------------------------------
(* The invariant, and what follows from it.                                *)

LEMMA SoleInit == Init => SoleInv
<1> SUFFICES ASSUME Init PROVE SoleInv
  OBVIOUS
<1> USE DEF Init, LedgerInit, PaymentInit, StoreInit
<1>1. \A o \in Orders : OrderKnown(o)
  BY StatusFacts DEF OrderKnown, Row, NoInstance, IsDecided
<1> QED
  BY <1>1 DEF SoleInv, BusyKnown

\* (BackedInv lends what the provider does not take back)
LEMMA SoleNext ==
  ASSUME SoleOrchestrator
  PROVE  IInv /\ BackedInv /\ SoleInv /\ [Next]_vars => SoleInv'
<1> SUFFICES ASSUME IInv, BackedInv, SoleInv, [Next]_vars PROVE SoleInv'
  OBVIOUS
<1>1. LogKept /\ Backs
  BY LogIsKept, StepBacks
<1>2. ASSUME NEW w \in Workers, WorkerStep(w)
      PROVE  SoleInv'
  BY <1>1, <1>2, SoleLoop, SoleLoadSaga, SoleSave, SoleReserve, SoleTake, SoleAuthorize,
     SoleAsk, SoleWrite, SoleLoadOrder, SoleAppend DEF WorkerStep
<1>3. ASSUME NEW w \in Workers, LoseCommit(w) \/ Fail(w) \/ RestartWorker(w)
      PROVE  SoleInv'
  BY <1>1, <1>3, SoleLoop, SoleFail
<1>4. CASE \E assignment \in [Partitions -> Workers] : RebalanceTo(assignment)
  BY <1>1, <1>4, SoleLoop
<1>5. CASE Environment
  BY <1>1, <1>5, SolePlace, SoleProvider, SoleLoop DEF Environment, SoleInv
<1>6. CASE UNCHANGED vars
  BY <1>1, <1>6, SoleLoop
<1> QED
  BY <1>2, <1>3, <1>4, <1>5, <1>6 DEF Next

\* (with one orchestrator SoleInv holds in every reachable state)
LEMMA SoleInvariantHolds ==
  ASSUME SoleOrchestrator
  PROVE  Spec => []SoleInv
<1>1. IInv /\ BackedInv /\ SoleInv /\ [Next]_vars => SoleInv'
  BY SoleNext
<1> QED
  BY <1>1, SoleInit, BackedInvariant, InvariantHolds, PTL DEF Spec

(***************************************************************************)
(* The calls of the saga keep to the contract of the inventory service,    *)
(* although each takes two steps: nobody acts on a reservation between the *)
(* read and the write (inventory_repository.go Reserve, transitionOnce).   *)
(***************************************************************************)
THEOREM SagaKeepsLedger ==
  ASSUME SoleOrchestrator
  PROVE  Spec => LedgerSpec
<1>1. Init => LedgerInit
  BY DEF Init
<1>2. IInv /\ SoleInv /\ [Next]_vars => [LedgerNext]_ledgerVars
  <2> SUFFICES ASSUME IInv, SoleInv, [Next]_vars, ledgerVars' # ledgerVars PROVE LedgerNext
    OBVIOUS
  <2>1. ASSUME NEW w \in Workers, step[w] # "idle"
        PROVE  Order(w) \in Orders /\ StepKnown(Order(w), step[w], inst[w])
    BY <2>1, SoleBusy
  <2>2. CASE \E w \in Workers : TakeStock(w)
    <3>1. PICK w \in Workers : TakeStock(w)
      BY <2>2
    <3>2. reservation[Order(w)] = "NONE" /\ Order(w) \in Orders
      BY <2>1, <3>1 DEF TakeStock, StepKnown
    <3>3. Reserve(Order(w), "OK")
      BY <3>1, <3>2 DEF TakeStock, Take, Reserve, ledgerVars
    <3> QED
      BY <3>2, <3>3 DEF LedgerNext
  <2>3. CASE \E w \in Workers : FinishRelease(w) \/ FinishCommit(w)
    <3>1. PICK w \in Workers : FinishRelease(w) \/ FinishCommit(w)
      BY <2>3
    <3>2. reservation[Order(w)] = "HELD" /\ Order(w) \in Orders
      BY <2>1, <3>1 DEF FinishRelease, FinishCommit, StepKnown
    <3>3. PICK t \in Targets : Unhold(Order(w), t)
      BY <3>1 DEF FinishRelease, FinishCommit, WriteTransition, Targets, ledgerVars
    <3>4. Transition(Order(w), t, "OK")
      BY <3>2, <3>3 DEF Transition
    <3> QED
      BY <3>2, <3>4 DEF LedgerNext
  <2>4. CASE \E s \in Skus, n \in 0..MaxStock : CorrectStock(s, n)
    BY <2>4 DEF CorrectStock, LedgerNext
  <2> QED
    BY <2>2, <2>3, <2>4
    DEF Next, Environment, WorkerStep, FetchMessage, IgnoreEvent, PublishDeadLetter, LoadSaga,
        SaveSaga, ReserveStock, AuthorizePayment, ReleaseStock, CommitStock, AskTransition,
        LoadToConfirm, AppendConfirm, LoadToCancel, AppendCancel, LoadOrder, AppendDecision,
        Commit, LoseCommit, Fail, RestartWorker, RebalanceTo, PlaceOrder, ProduceUnparseable,
        Relay, RelayUnmarked, ProviderMoves, SoleInv, services, ledgerVars, vars
<1> QED
  BY <1>1, <1>2, SoleInvariantHolds, InvariantHolds, PTL DEF Spec, LedgerSpec

(***************************************************************************)
(* A confirmed order was paid for and its stock is committed: no crash     *)
(* between authorize, commit and confirm, and no refund meanwhile, makes   *)
(* the handler confirm what it did not commit (events.go, OrderConfirmed). *)
(***************************************************************************)
THEOREM ConfirmedOrdersArePaid ==
  ASSUME SoleOrchestrator
  PROVE  Spec => []ConfirmedIsPaidAndCommitted
<1>1. IInv /\ SoleInv => ConfirmedIsPaidAndCommitted
  <2> SUFFICES ASSUME IInv, SoleInv, NEW o \in Orders, Status(events[o]) = "CONFIRMED"
               PROVE  WasCharged(o) /\ reservation[o] = "COMMITTED"
    BY DEF ConfirmedIsPaidAndCommitted
  <2>1. Row(o) \in SagaState /\ Agrees(sagas[o], o) /\ OrderKnown(o)
    BY DEF IInv, TypeOK, Instance, SoleInv, Row
  <2> QED
    BY <2>1 DEF SagaState, OrderKnown, Agrees, Row, IsDecided
<1> QED
  BY <1>1, SoleInvariantHolds, InvariantHolds, PTL

(***************************************************************************)
(* A saga row only moves forward, although the upsert has no guard: a save *)
(* is never older than the row it overwrites (saga_repository.go Save).    *)
(***************************************************************************)
THEOREM RowsMoveForward ==
  ASSUME SoleOrchestrator
  PROVE  Spec => SagaMovesForward
<1>1. IInv /\ SoleInv /\ [Next]_vars
        => [\A o \in Orders :
              \/ sagas'[o] = sagas[o]
              \/ Rank(sagas[o].state) < Rank(sagas'[o].state)]_sagas
  <2> SUFFICES ASSUME IInv, SoleInv, [Next]_vars, sagas' # sagas
               PROVE  \A o \in Orders :
                        \/ sagas'[o] = sagas[o]
                        \/ Rank(sagas[o].state) < Rank(sagas'[o].state)
    OBVIOUS
  <2>1. PICK w \in Workers : SaveSaga(w)
    BY DEF Next, vars, Environment, WorkerStep, sagaVars,
           FetchMessage, IgnoreEvent, PublishDeadLetter, LoadSaga, ReserveStock, TakeStock,
           AuthorizePayment, ReleaseStock, FinishRelease, CommitStock, FinishCommit,
           AskTransition, WriteTransition, LoadToConfirm, LoadToCancel,
           LoadOrder, AppendConfirm, AppendCancel, AppendDecision, Commit, LoseCommit,
           Fail, RestartWorker, RebalanceTo, PlaceOrder, ProduceUnparseable, Relay,
           RelayUnmarked, ProviderMoves, CorrectStock, LateCallGoesOn, LateCallWrites,
           LateCallEnds
  <2>2. PICK o \in Orders : o = Order(w)
    BY <2>1, SoleBusy DEF SaveSaga
  <2> QED
    BY <2>1, <2>2, SaveMovesForward DEF Row
<1> QED
  BY <1>1, SoleInvariantHolds, InvariantHolds, PTL DEF Spec, SagaMovesForward

\* (a cancelled order the group is done with has a row that says so)
LEMMA ClosedIsOver ==
  ASSUME SoleOrchestrator, IInv, SoleInv, NEW o \in Orders,
         Status(events[o]) = "CANCELLED", Closed(o)
  PROVE  \/ reservation[o] = "NONE" /\ payment[o] = "NONE"
         \/ reservation[o] = "RELEASED" /\ Refused(o)
<1>1. Terminal(Row(o))
  <2>1. ASSUME NEW i \in DOMAIN log, log[i] = Placement(o), Passed(i)
        PROVE  Terminal(Row(o))
    <3>1. Done(i)
      BY <2>1, PassedIsDone
    <3>2. log[i].type = "order.placed" /\ log[i].order = o
      BY <2>1 DEF Placement
    <3> QED
      BY <3>1, <3>2 DEF Done, Settled, SoleOrchestrator, Row
  <2> QED
    BY <2>1 DEF Closed, Row
<1>2. Agrees(sagas[o], o) /\ OrderKnown(o)
  BY DEF IInv, SoleInv
<1>3. Row(o) = "CANCELLED"
  BY <1>1, <1>2 DEF Terminal, Agrees, Row
<1> QED
  BY <1>2, <1>3 DEF OrderKnown

(***************************************************************************)
(* A cancelled order whose saga has ended, or whose placement the group is *)
(* past, is not charged, whatever other sagas, restocks and the provider   *)
(* do: a charge made on redelivery keeps the message in hand.              *)
(***************************************************************************)
THEOREM ClosedOrdersAreNotCharged ==
  ASSUME SoleOrchestrator
  PROVE  Spec => []ClosedIsNotCharged
<1>1. IInv /\ SoleInv => ClosedIsNotCharged
  BY ClosedIsOver DEF ClosedIsNotCharged, Charged, Refused
<1> QED
  BY <1>1, SoleInvariantHolds, InvariantHolds, PTL

(***************************************************************************)
(* Nor does it hold stock, nor has it taken any out of the warehouse.      *)
(***************************************************************************)
THEOREM ClosedOrdersHoldNothing ==
  ASSUME SoleOrchestrator
  PROVE  Spec => []ClosedHoldsNoStock
<1>1. IInv /\ SoleInv => ClosedHoldsNoStock
  BY ClosedIsOver DEF ClosedHoldsNoStock
<1> QED
  BY <1>1, SoleInvariantHolds, InvariantHolds, PTL
=============================================================================
