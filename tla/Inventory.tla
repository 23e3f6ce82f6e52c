------------------------------ MODULE Inventory ------------------------------
(***************************************************************************)
(* The Inventory service as it runs: handlers of its HTTP replicas that    *)
(* execute reserve, release and commit as READ COMMITTED transactions on   *)
(* PostgreSQL, with optimistic versions on the stock rows, a bounded       *)
(* number of attempts, and stock corrections in between.                   *)
(*                                                                         *)
(* One action per SELECT and per UPDATE.  A transaction sees what is       *)
(* committed at each read; its own updates lock their rows and stay        *)
(* invisible until its last statement, which is modelled together with the *)
(* commit (no other transaction can be affected in between: whoever writes *)
(* the reservation row of an order holds the locks of all its lines).      *)
(*                                                                         *)
(* Abstracted: reservation ids and line rows (the lines of an order are    *)
(* those of its Demand), timestamps, the pure reads (GET endpoints).       *)
(***************************************************************************)
EXTENDS Domain, Integers, FiniteSets

CONSTANTS
  Skus, Demand, MaxStock,   \* as in InventoryLedger
  Handlers,        \* request handlers working at the same time
  GoRank,          \* position of a SKU in the order sort.Slice gives
  DbRank,          \* position of a SKU in the order ORDER BY sku gives
  MaxAttempts,     \* maxOCCRetries (5 in the code)
  Overlap,         \* whether two transitions of one order may be under way
  MaxCorrections   \* bound: stock corrections

ASSUME InventoryAssumption ==
  /\ Demand \in [Orders -> [Skus -> Nat]]
  /\ \A o \in Orders : \E s \in Skus : Demand[o][s] > 0
  /\ Orders # {}
  /\ MaxStock \in Nat
  /\ GoRank \in [Skus -> Nat] /\ DbRank \in [Skus -> Nat]
  /\ \A s, t \in Skus : s # t => GoRank[s] # GoRank[t] /\ DbRank[s] # DbRank[t]
  /\ MaxAttempts \in Nat \ {0}
  /\ Overlap \in BOOLEAN
  /\ MaxCorrections \in Nat

VARIABLES
  stock,        \* stock[s]: the committed row of s, NoRow when there is none
  reservation,  \* reservation[o]: the committed status, "NONE" without a row
  at,           \* at[h]: the statement h executes next, "idle" between calls
  op,           \* op[h]: the operation h serves
  order,        \* order[h]: the order it is about
  attempt,      \* attempt[h]: attempts that ended in a version conflict
  seen,         \* seen[h]: the rows h read in this transaction, by SKU
  loaded,       \* loaded[h]: the SKUs it read
  wrote,        \* wrote[h]: the rows it updated, and keeps locked
  answer,       \* answer[h]: what h last answered
  corrections   \* stock corrections so far

rows == <<stock, reservation>>
tx == <<seen, loaded, wrote>>
invVars == <<rows, at, op, order, attempt, tx, answer, corrections>>

Row == [available : Nat, reserved : Nat, version : Nat]
NoRow == [available |-> 0, reserved |-> 0, version |-> -1]
Statement == {"idle", "lookup", "load", "update", "insert", "replay",
              "read", "write", "settle"}
Operations == {"reserve", "RELEASED", "COMMITTED"}
Answers == {"NONE", "OK", "DECLINED", "NOT_FOUND", "INVALID_STATE", "CONFLICT", "ERROR"}

TypeOK ==
  /\ stock \in [Skus -> Row \cup {NoRow}]
  /\ reservation \in [Orders -> {"NONE", "HELD", "RELEASED", "COMMITTED"}]
  /\ at \in [Handlers -> Statement]
  /\ op \in [Handlers -> Operations]
  /\ order \in [Handlers -> Orders]
  /\ attempt \in [Handlers -> 0..(MaxAttempts - 1)]
  /\ seen \in [Handlers -> [Skus -> Row \cup {NoRow}]]
  /\ loaded \in [Handlers -> SUBSET Skus]
  /\ wrote \in [Handlers -> SUBSET Skus]
  /\ answer \in [Handlers -> Answers]
  /\ corrections \in 0..MaxCorrections

AnyOrder == CHOOSE o \in Orders : TRUE
Unseen == [s \in Skus |-> NoRow]

Init ==
  /\ stock \in [Skus -> {NoRow} \cup
                 {[available |-> n, reserved |-> 0, version |-> 0] : n \in 0..MaxStock}]
  /\ reservation = [o \in Orders |-> "NONE"]
  /\ at = [h \in Handlers |-> "idle"]
  /\ op = [h \in Handlers |-> "reserve"]
  /\ order = [h \in Handlers |-> AnyOrder]
  /\ attempt = [h \in Handlers |-> 0]
  /\ seen = [h \in Handlers |-> Unseen]
  /\ loaded = [h \in Handlers |-> {}]
  /\ wrote = [h \in Handlers |-> {}]
  /\ answer = [h \in Handlers |-> "NONE"]
  /\ corrections = 0

-----------------------------------------------------------------------------
(* The domain objects.                                                     *)

Lines(o) == {s \in Skus : Demand[o][s] > 0}

Qty(h, s) == Demand[order[h]][s]

Found(row) == row.version >= 0

\* (mutant: one unit too many)
CanHoldOneMore(row, qty) == qty <= row.available + 1

\* StockItem.Reserve, and StockItem.Release and Commit: when they refuse.
CanHold(row, qty) == qty <= row.available
CanUnhold(row, qty) == qty <= row.reserved

Held(row, qty) ==
  [row EXCEPT !.available = @ - qty, !.reserved = @ + qty, !.version = @ + 1]

\* (mutants: the units stay reserved; committed units go back on sale)
UnheldStillReserved(row, qty, target) ==
  [row EXCEPT !.available = IF target = "RELEASED" THEN @ + qty ELSE @,
              !.version = @ + 1]
UnheldRestocked(row, qty, target) ==
  [row EXCEPT !.available = @ + qty, !.reserved = @ - qty, !.version = @ + 1]

Unheld(row, qty, target) ==
  [row EXCEPT !.available = IF target = "RELEASED" THEN @ + qty ELSE @,
              !.reserved = @ - qty, !.version = @ + 1]

\* The row h writes for s, computed from the row it read.
NewRow(h, s) ==
  IF op[h] = "reserve" THEN Held(seen[h][s], Qty(h, s))
  ELSE Unheld(seen[h][s], Qty(h, s), op[h])

-----------------------------------------------------------------------------
(* Transactions.                                                           *)

Goto(h, statement) == at' = [at EXCEPT ![h] = statement]

First(skus, rank) == CHOOSE s \in skus : \A t \in skus : rank[s] <= rank[t]

\* The next line to read and the next one to update.
NextRead(h) ==
  First(Lines(order[h]) \ loaded[h], IF op[h] = "reserve" THEN GoRank ELSE DbRank)
\* (mutant: a reserve updates its lines in another order than it sorts them)
NextWriteUnsorted(h) ==
  First(Lines(order[h]) \ wrote[h],
        IF op[h] = "reserve" THEN [s \in Skus |-> -GoRank[s]] ELSE DbRank)
NextWrite(h) ==
  First(Lines(order[h]) \ wrote[h], IF op[h] = "reserve" THEN GoRank ELSE DbRank)

LockedByOther(h, s) == \E g \in Handlers \ {h} : s \in wrote[g]

\* Rollback and commit both end the transaction and free its locks.
EndTx(h) ==
  /\ seen' = [seen EXCEPT ![h] = Unseen]
  /\ loaded' = [loaded EXCEPT ![h] = {}]
  /\ wrote' = [wrote EXCEPT ![h] = {}]

\* The answer ends the request; op and order of an idle handler mean nothing.
Respond(h, a) ==
  /\ Goto(h, "idle")
  /\ answer' = [answer EXCEPT ![h] = a]
  /\ op' = [op EXCEPT ![h] = "reserve"]
  /\ order' = [order EXCEPT ![h] = AnyOrder]
  /\ attempt' = [attempt EXCEPT ![h] = 0]
  /\ EndTx(h)
  /\ UNCHANGED corrections

\* A version moved: roll back and begin again, five times at most.
MayRetry(h) == attempt[h] + 1 < MaxAttempts

\* (mutant: the conflict of the last attempt is not answered)
RetryUnanswered(h) ==
  /\ MayRetry(h)
  /\ Goto(h, "lookup")
  /\ attempt' = [attempt EXCEPT ![h] = @ + 1]
  /\ EndTx(h)
  /\ UNCHANGED <<op, order, answer, corrections>>

Retry(h) ==
  \/ /\ MayRetry(h)
     /\ Goto(h, "lookup")
     /\ attempt' = [attempt EXCEPT ![h] = @ + 1]
     /\ EndTx(h)
     /\ UNCHANGED <<op, order, answer, corrections>>
  \/ /\ ~MayRetry(h)
     /\ Respond(h, "CONFLICT")

\* SELECT of one stock row.
ReadRow(h, s) ==
  /\ seen' = [seen EXCEPT ![h][s] = stock[s]]
  /\ loaded' = [loaded EXCEPT ![h] = @ \cup {s}]

\* (mutant: the UPDATE does not compare versions)
VersionIgnored(h, s) == Found(stock[s])

\* UPDATE ... WHERE version = the one read: waits for the lock of the row,
\* then matches the row or none.
VersionMatches(h, s) == stock[s].version = seen[h][s].version

WriteRow(h, s, done) ==
  /\ ~LockedByOther(h, s)
  /\ \/ /\ VersionMatches(h, s)
        /\ wrote' = [wrote EXCEPT ![h] = @ \cup {s}]
        /\ Goto(h, IF wrote'[h] = Lines(order[h]) THEN done
                   ELSE IF op[h] = "reserve" THEN "update" ELSE "read")
        /\ UNCHANGED <<op, order, attempt, seen, loaded, answer, corrections>>
     \/ /\ ~VersionMatches(h, s)
        /\ Retry(h)
  /\ UNCHANGED rows

\* Commit: the rows written and the status of the reservation.
CommitTx(h, status) ==
  /\ stock' = [s \in Skus |-> IF s \in wrote[h] THEN NewRow(h, s) ELSE stock[s]]
  /\ reservation' = [reservation EXCEPT ![order[h]] = status]
  /\ Respond(h, "OK")

-----------------------------------------------------------------------------
(* Requests.                                                               *)

\* Without Overlap a caller waits for the other transition of the order.
Admitted(o, operation) ==
  \/ Overlap
  \/ operation = "reserve"
  \/ \A g \in Handlers : at[g] = "idle" \/ order[g] # o \/ op[g] = "reserve"

Begin(h, o, operation) ==
  /\ at[h] = "idle"
  /\ Admitted(o, operation)
  /\ Goto(h, "lookup")
  /\ op' = [op EXCEPT ![h] = operation]
  /\ order' = [order EXCEPT ![h] = o]
  /\ answer' = [answer EXCEPT ![h] = "NONE"]
  /\ UNCHANGED <<rows, attempt, tx, corrections>>

\* reserveOnce: findReservationByOrder ...
LookupReserve(h) ==
  /\ at[h] = "lookup" /\ op[h] = "reserve"
  /\ \/ /\ reservation[order[h]] # "NONE"
        /\ Respond(h, "OK")
     \/ /\ reservation[order[h]] = "NONE"
        /\ Goto(h, "load")
        /\ UNCHANGED <<op, order, attempt, tx, answer, corrections>>
  /\ UNCHANGED rows

\* ... read every line and let the domain object reserve ...
LoadLine(h) ==
  /\ at[h] = "load"
  /\ LET s == NextRead(h) IN
       \/ /\ Found(stock[s])
          /\ CanHold(stock[s], Qty(h, s))
          /\ ReadRow(h, s)
          /\ Goto(h, IF loaded'[h] = Lines(order[h]) THEN "update" ELSE "load")
          /\ UNCHANGED <<op, order, attempt, wrote, answer, corrections>>
       \/ /\ ~(Found(stock[s]) /\ CanHold(stock[s], Qty(h, s)))
          /\ Respond(h, "DECLINED")
  /\ UNCHANGED rows

\* ... write every line back ...
UpdateLine(h) == at[h] = "update" /\ WriteRow(h, NextWrite(h), "insert")

\* ... and create the reservation, unless another request did meanwhile.
InsertReservation(h) ==
  /\ at[h] = "insert"
  /\ \/ /\ reservation[order[h]] = "NONE"
        /\ CommitTx(h, "HELD")
     \/ /\ reservation[order[h]] # "NONE"
        /\ Goto(h, "replay")
        /\ EndTx(h)
        /\ UNCHANGED <<rows, op, order, attempt, answer, corrections>>

\* The reservation of the winner is read outside the transaction.
ReplayReserve(h) ==
  /\ at[h] = "replay"
  /\ reservation[order[h]] # "NONE"
  /\ Respond(h, "OK")
  /\ UNCHANGED rows

\* transitionOnce: read the reservation and let the domain object decide ...
LookupTransition(h) ==
  /\ at[h] = "lookup" /\ op[h] # "reserve"
  /\ LET status == reservation[order[h]] IN
       \/ status = "NONE" /\ Respond(h, "NOT_FOUND")
       \/ status = op[h] /\ Respond(h, "OK")
       \/ status \notin {"NONE", "HELD", op[h]} /\ Respond(h, "INVALID_STATE")
       \/ /\ status = "HELD"
          /\ Goto(h, "read")
          /\ UNCHANGED <<op, order, attempt, tx, answer, corrections>>
  /\ UNCHANGED rows

\* ... read a line and let the domain object release or commit it ...
ReadLine(h) ==
  /\ at[h] = "read"
  /\ LET s == NextRead(h) IN
       \/ /\ CanUnhold(stock[s], Qty(h, s))
          /\ ReadRow(h, s)
          /\ Goto(h, "write")
          /\ UNCHANGED <<op, order, attempt, wrote, answer, corrections>>
       \/ /\ ~CanUnhold(stock[s], Qty(h, s))
          /\ Respond(h, "ERROR")
  /\ UNCHANGED rows

\* ... write it back before the next one ...
WriteLine(h) == at[h] = "write" /\ WriteRow(h, NextWrite(h), "settle")

\* ... and set the status of the reservation, whatever it is by now.
SettleReservation(h) ==
  /\ at[h] = "settle"
  /\ CommitTx(h, op[h])

\* The client is gone, the connection broke or the replica crashed.
Abort(h) ==
  /\ at[h] # "idle"
  /\ Respond(h, "ERROR")
  /\ UNCHANGED rows

\* h waits for a row that g has locked.
WaitsFor(h, g) ==
  /\ h # g
  /\ at[h] \in {"update", "write"}
  /\ NextWrite(h) \in wrote[g]

LockCycle(S) ==
  /\ S # {}
  /\ \A h \in S : (\E g \in S : WaitsFor(h, g)) /\ (\E g \in S : WaitsFor(g, h))

\* PostgreSQL breaks a cycle of waiting transactions; the error is not retried.
DeadlockVictim(h) ==
  /\ \E S \in SUBSET Handlers : h \in S /\ LockCycle(S)
  /\ Respond(h, "ERROR")
  /\ UNCHANGED rows

\* UpsertStock: one statement, which waits for the lock of the row.
UpsertStock(s, n) ==
  /\ corrections < MaxCorrections
  /\ corrections' = corrections + 1
  /\ \A h \in Handlers : s \notin wrote[h]
  /\ stock' = [stock EXCEPT ![s].available = n, ![s].version = @ + 1]
  /\ UNCHANGED <<reservation, at, op, order, attempt, tx, answer>>

HandlerStep(h) ==
  \/ LookupReserve(h) \/ LoadLine(h) \/ UpdateLine(h)
  \/ InsertReservation(h) \/ ReplayReserve(h)
  \/ LookupTransition(h) \/ ReadLine(h) \/ WriteLine(h) \/ SettleReservation(h)

Next ==
  \/ \E h \in Handlers :
       \/ HandlerStep(h) \/ Abort(h) \/ DeadlockVictim(h)
       \/ \E o \in Orders, operation \in Operations : Begin(h, o, operation)
  \/ \E s \in Skus, n \in 0..MaxStock : UpsertStock(s, n)

Spec == Init /\ [][Next]_invVars

(***************************************************************************)
(* Fairness: a handler whose statement can run runs it; one that waits for *)
(* a row lock is granted it if it becomes free again and again (PostgreSQL *)
(* queues the waiters); every deadlock is found (deadlock_timeout).        *)
(* Requests, corrections and aborts come or do not come.                   *)
(***************************************************************************)
FairSpec ==
  Spec /\ \A h \in Handlers : SF_invVars(HandlerStep(h)) /\ WF_invVars(DeadlockVictim(h))

-----------------------------------------------------------------------------
Ledger == INSTANCE InventoryLedger WITH
  available <- [s \in Skus |-> stock[s].available],
  reserved <- [s \in Skus |-> stock[s].reserved]

(***************************************************************************)
(* The transactions together do what the ledger promises: whatever their   *)
(* interleaving, each changes stock and reservation in one step, at its    *)
(* commit, as if it had run alone (inventory_repository.go, all the        *)
(* versioned updates of a request are one transaction).                    *)
(***************************************************************************)
ImplementsLedger == Ledger!LedgerSpec

(***************************************************************************)
(* The reserved column of a SKU is what the HELD reservations hold of it.  *)
(* Reserve, release and commit are idempotent, so a repeated call does not *)
(* move the ledger again (inventory/README.md).                            *)
(***************************************************************************)
ReservedIsHeld == Ledger!ReservedIsHeld

(***************************************************************************)
(* No version is reused: a row a handler read and then updated is, while   *)
(* it holds the lock, still the row it read; a lost update would be a row  *)
(* overwritten from a stale read (optimistic concurrency, the version column).*)
(***************************************************************************)
NoLostUpdate ==
  \A h \in Handlers : \A s \in wrote[h] : stock[s] = seen[h][s]

(***************************************************************************)
(* As long as the database sorts SKUs the way the service does, requests   *)
(* lock rows in one order and never wait for each other in a cycle         *)
(* (Reserve sorts its lines, loadLines reads them ORDER BY sku).           *)
(***************************************************************************)
NoLockCycle ==
  GoRank = DbRank => \A S \in SUBSET Handlers : ~LockCycle(S)

(***************************************************************************)
(* Every request is answered: version conflicts end after the last         *)
(* attempt, and lock waits end because their holder answers or PostgreSQL  *)
(* breaks the cycle.                                                       *)
(***************************************************************************)
EveryRequestAnswered == \A h \in Handlers : at[h] # "idle" ~> at[h] = "idle"
=============================================================================
