--------------------------- MODULE InventoryProofs ---------------------------
(***************************************************************************)
(* Theorems about Inventory for any orders, SKUs, demands, handlers and    *)
(* number of attempts: no update is lost, no cycle of lock waits forms     *)
(* while both sides sort alike, and the transactions implement the ledger  *)
(* as long as two transitions of one order do not overlap.                 *)
(*                                                                         *)
(* These rest on what a transaction knows of the rows it has read: a   *)
(* row whose version is still the one read is the row that was read, since *)
(* every write moves the version, and a row it has written stays that way  *)
(* under its lock.                                                         *)
(***************************************************************************)
EXTENDS Inventory, SumProofs

-----------------------------------------------------------------------------
(* The inductive invariant.                                                *)

Reserving == {"load", "update", "insert"}
Moving == {"read", "write", "settle"}

OwnLines(h) == Lines(order[h])
Rank(h) == IF op[h] = "reserve" THEN GoRank ELSE DbRank

\* How far a transaction has come, by the statement it executes next.
PlaceInv(h) ==
  /\ wrote[h] \subseteq loaded[h] /\ loaded[h] \subseteq OwnLines(h)
  /\ at[h] \in Reserving => op[h] = "reserve"
  /\ at[h] \in Moving => op[h] # "reserve"
  /\ at[h] \notin Reserving \cup Moving => loaded[h] = {}
  /\ at[h] = "load" => wrote[h] = {} /\ loaded[h] # OwnLines(h)
  /\ at[h] = "update" => loaded[h] = OwnLines(h) /\ wrote[h] # OwnLines(h)
  /\ at[h] = "read" => loaded[h] = wrote[h] /\ wrote[h] # OwnLines(h)
  /\ at[h] = "write" => wrote[h] # OwnLines(h) /\ loaded[h] = wrote[h] \cup {NextWrite(h)}
  /\ at[h] \in {"insert", "settle"} => wrote[h] = OwnLines(h)

\* What a transaction knows of a row it has read.
ReadInv(h, s) ==
  /\ seen[h][s] \in Row
  /\ IF op[h] = "reserve" THEN CanHold(seen[h][s], Qty(h, s)) ELSE CanUnhold(seen[h][s], Qty(h, s))
  /\ seen[h][s].version <= stock[s].version
  /\ seen[h][s].version = stock[s].version => seen[h][s] = stock[s]

\* What it has written is what it read, and its first lines in its order.
WroteInv(h) ==
  /\ \A s \in wrote[h] : stock[s] = seen[h][s]
  /\ \A s \in wrote[h], t \in OwnLines(h) \ wrote[h] : Rank(h)[s] < Rank(h)[t]

TxInv(h) == PlaceInv(h) /\ (\A s \in loaded[h] : ReadInv(h, s)) /\ WroteInv(h)

LocksDisjoint == \A g, h \in Handlers : g # h => wrote[g] \cap wrote[h] = {}

IInv ==
  /\ TypeOK
  /\ \A h \in Handlers : TxInv(h)
  /\ LocksDisjoint

\* Without Overlap an order has one transition under way, and its reservation
\* is HELD until that commits.
SerialInv ==
  /\ \A h \in Handlers : at[h] \in Moving => reservation[order[h]] = "HELD"
  /\ \A g, h \in Handlers :
       g # h /\ at[g] # "idle" /\ at[h] # "idle" /\ op[g] # "reserve" /\ op[h] # "reserve"
         => order[g] # order[h]
-----------------------------------------------------------------------------
(* The next row of a transaction.                                          *)

\* (First is an element of least rank)
LEMMA FirstFacts ==
  ASSUME NEW skus, skus \subseteq Skus, skus # {}, NEW rank \in [Skus -> Nat]
  PROVE  First(skus, rank) \in skus /\ \A t \in skus : rank[First(skus, rank)] <= rank[t]
<1> DEFINE T == {rank[s] : s \in skus}
<1>1. PICK n \in T : \A m \in T : n <= m
  <2>1. T \subseteq Nat /\ T # {}
    OBVIOUS
  <2>2. QED
    BY <2>1, Minimum
<1>2. \E s \in skus : \A t \in skus : rank[s] <= rank[t]
  BY <1>1
<1>3. QED
  BY <1>2 DEF First

\* (a request has lines, and its order of them is strict)
LEMMA RankFacts ==
  ASSUME TypeOK, NEW h \in Handlers
  PROVE  /\ Rank(h) \in [Skus -> Nat]
         /\ \A s, t \in Skus : s # t => Rank(h)[s] # Rank(h)[t]
         /\ OwnLines(h) \subseteq Skus /\ OwnLines(h) # {}
         /\ \A s \in Skus : Qty(h, s) \in Nat
<1>1. order[h] \in Orders
  BY DEF TypeOK
<1>2. OwnLines(h) \subseteq Skus /\ OwnLines(h) # {} /\ \A s \in Skus : Qty(h, s) \in Nat
  BY <1>1, InventoryAssumption DEF OwnLines, Lines, Qty
<1>3. QED
  BY <1>2, InventoryAssumption DEF Rank

LEMMA NextWriteFacts ==
  ASSUME TypeOK, NEW h \in Handlers, wrote[h] \subseteq OwnLines(h), wrote[h] # OwnLines(h)
  PROVE  /\ NextWrite(h) \in OwnLines(h) \ wrote[h]
         /\ \A t \in OwnLines(h) \ wrote[h] :
              t # NextWrite(h) => Rank(h)[NextWrite(h)] < Rank(h)[t]
<1> DEFINE rest == OwnLines(h) \ wrote[h]
<1>1. NextWrite(h) = First(rest, Rank(h))
  BY DEF NextWrite, OwnLines, Rank
<1>2. rest \subseteq Skus /\ rest # {} /\ Rank(h) \in [Skus -> Nat]
  BY RankFacts
<1>3. NextWrite(h) \in rest /\ \A t \in rest : Rank(h)[NextWrite(h)] <= Rank(h)[t]
  BY <1>1, <1>2, FirstFacts
<1>4. ASSUME NEW t \in rest, t # NextWrite(h) PROVE Rank(h)[NextWrite(h)] < Rank(h)[t]
  <2>1. t \in Skus /\ NextWrite(h) \in Skus
    BY <1>2, <1>3
  <2>2. /\ Rank(h)[NextWrite(h)] \in Nat /\ Rank(h)[t] \in Nat
        /\ Rank(h)[NextWrite(h)] # Rank(h)[t]
        /\ Rank(h)[NextWrite(h)] <= Rank(h)[t]
    BY <1>2, <1>3, <1>4, <2>1, RankFacts
  <2>3. QED
    BY <2>2
<1>5. QED
  BY <1>3, <1>4

LEMMA NextReadFacts ==
  ASSUME TypeOK, NEW h \in Handlers, loaded[h] \subseteq OwnLines(h), loaded[h] # OwnLines(h)
  PROVE  NextRead(h) \in OwnLines(h) \ loaded[h] /\ NextRead(h) \in Skus
<1>1. NextRead(h) = First(OwnLines(h) \ loaded[h], Rank(h))
  BY DEF NextRead, OwnLines, Rank
<1>2. QED
  BY <1>1, RankFacts, FirstFacts

-----------------------------------------------------------------------------
(* What a step of one handler leaves to the others.                        *)

OthersSame(h) ==
  \A g \in Handlers \ {h} :
    /\ at'[g] = at[g] /\ op'[g] = op[g] /\ order'[g] = order[g]
    /\ seen'[g] = seen[g] /\ loaded'[g] = loaded[g] /\ wrote'[g] = wrote[g]

\* Rows change where g has no lock, and their versions move.
RowsFor(g) ==
  \A s \in Skus : \/ stock'[s] = stock[s]
                  \/ s \notin wrote[g] /\ stock[s].version < stock'[s].version

LEMMA RowVersions ==
  ASSUME NEW row \in Row \cup {NoRow}
  PROVE  row.version \in Int /\ row.available \in Nat /\ row.reserved \in Nat
         /\ (Found(row) <=> row \in Row)
BY DEF Row, NoRow, Found

LEMMA OtherKeepsTx ==
  ASSUME TypeOK, TypeOK', NEW g \in Handlers, TxInv(g), RowsFor(g),
         at'[g] = at[g], op'[g] = op[g], order'[g] = order[g],
         seen'[g] = seen[g], loaded'[g] = loaded[g], wrote'[g] = wrote[g]
  PROVE  TxInv(g)'
<1>1. PlaceInv(g)'
  <2>1. NextWrite(g)' = NextWrite(g) /\ OwnLines(g)' = OwnLines(g)
    BY DEF NextWrite, OwnLines
  <2>2. QED
    BY <2>1 DEF TxInv, PlaceInv
<1>2. \A s \in Skus : Qty(g, s)' = Qty(g, s)
  BY DEF Qty
<1>3. loaded[g] \subseteq Skus /\ wrote[g] \subseteq Skus
  BY DEF TypeOK
<1>4. ASSUME NEW s \in loaded[g] PROVE ReadInv(g, s)'
  <2>1. ReadInv(g, s) /\ s \in Skus /\ seen[g][s] \in Row
    BY <1>3 DEF TxInv, ReadInv
  <2>2. /\ stock[s].version \in Int /\ stock'[s].version \in Int
        /\ seen[g][s].version \in Int
    BY <2>1, RowVersions DEF TypeOK
  <2>3. \/ stock'[s] = stock[s]
        \/ stock[s].version < stock'[s].version
    BY <2>1 DEF RowsFor
  <2>4. /\ seen[g][s].version <= stock'[s].version
        /\ seen[g][s].version = stock'[s].version => seen[g][s] = stock'[s]
    BY <2>1, <2>2, <2>3 DEF ReadInv
  <2>5. QED
    BY <1>2, <2>1, <2>4 DEF ReadInv, CanHold, CanUnhold
<1>5. WroteInv(g)'
  <2>1. \A s \in wrote[g] : stock'[s] = stock[s]
    BY <1>3 DEF RowsFor
  <2>2. OwnLines(g)' = OwnLines(g) /\ Rank(g)' = Rank(g)
    BY DEF OwnLines, Rank
  <2>3. QED
    BY <2>1, <2>2 DEF TxInv, WroteInv
<1>6. QED
  BY <1>1, <1>4, <1>5 DEF TxInv

\* (it is enough to look at the handler that moves)
LEMMA StepKeepsIInv ==
  ASSUME IInv, NEW h \in Handlers, TypeOK', TxInv(h)', OthersSame(h),
         \A g \in Handlers \ {h} : RowsFor(g) /\ wrote[g] \cap wrote'[h] = {}
  PROVE  IInv'
<1>1. \A g \in Handlers : TxInv(g)'
  BY OtherKeepsTx DEF IInv, OthersSame
<1>2. LocksDisjoint'
  BY DEF IInv, LocksDisjoint, OthersSame
<1>3. QED
  BY <1>1, <1>2 DEF IInv
-----------------------------------------------------------------------------
(* Transactions begin and end.                                             *)

RowsTyped ==
  /\ stock \in [Skus -> Row \cup {NoRow}]
  /\ reservation \in [Orders -> {"NONE", "HELD", "RELEASED", "COMMITTED"}]

\* (a transaction that has read nothing knows nothing)
LEMMA FreshTx ==
  ASSUME TypeOK', NEW h \in Handlers, loaded'[h] = {}, wrote'[h] = {},
         \/ at'[h] \in {"idle", "lookup", "replay"}
         \/ at'[h] = "load" /\ op'[h] = "reserve"
         \/ at'[h] = "read" /\ op'[h] # "reserve"
  PROVE  TxInv(h)'
<1>1. OwnLines(h)' # {}
  BY InventoryAssumption DEF TypeOK, OwnLines, Lines
<1>2. PlaceInv(h)'
  BY <1>1 DEF PlaceInv, Reserving, Moving
<1>3. QED
  BY <1>2 DEF TxInv, WroteInv

LEMMA EndTxFacts ==
  ASSUME TypeOK, NEW h \in Handlers, EndTx(h)
  PROVE  /\ seen' \in [Handlers -> [Skus -> Row \cup {NoRow}]]
         /\ loaded' \in [Handlers -> SUBSET Skus] /\ wrote' \in [Handlers -> SUBSET Skus]
         /\ loaded'[h] = {} /\ wrote'[h] = {}
         /\ \A g \in Handlers \ {h} :
              seen'[g] = seen[g] /\ loaded'[g] = loaded[g] /\ wrote'[g] = wrote[g]
<1>1. Unseen \in [Skus -> Row \cup {NoRow}]
  BY DEF Unseen
<1>2. QED
  BY <1>1 DEF TypeOK, EndTx

LEMMA RespondFacts ==
  ASSUME TypeOK, NEW h \in Handlers, NEW a \in Answers, Respond(h, a), RowsTyped'
  PROVE  TypeOK' /\ TxInv(h)' /\ OthersSame(h) /\ wrote'[h] = {}
<1>1. EndTx(h)
  BY DEF Respond
<1>2. AnyOrder \in Orders
  BY InventoryAssumption DEF AnyOrder
<1>3. 0 \in 0..(MaxAttempts - 1)
  BY InventoryAssumption
<1>4. /\ at' \in [Handlers -> Statement] /\ op' \in [Handlers -> Operations]
      /\ order' \in [Handlers -> Orders] /\ attempt' \in [Handlers -> 0..(MaxAttempts - 1)]
      /\ answer' \in [Handlers -> Answers] /\ at'[h] = "idle" /\ corrections' = corrections
      /\ \A g \in Handlers \ {h} : at'[g] = at[g] /\ op'[g] = op[g] /\ order'[g] = order[g]
  BY <1>2, <1>3 DEF TypeOK, Respond, Goto, Statement, Operations
<1>5. TypeOK'
  BY <1>1, <1>4, EndTxFacts DEF TypeOK, RowsTyped
<1>6. TxInv(h)'
  BY <1>1, <1>4, <1>5, EndTxFacts, FreshTx
<1>7. QED
  BY <1>1, <1>4, <1>5, <1>6, EndTxFacts DEF OthersSame

\* (an answer without a commit)
LEMMA RespondKeeps ==
  ASSUME IInv, NEW h \in Handlers, NEW a \in Answers, Respond(h, a), UNCHANGED rows
  PROVE  IInv'
<1>1. TypeOK' /\ TxInv(h)' /\ OthersSame(h) /\ wrote'[h] = {}
  BY RespondFacts DEF IInv, TypeOK, RowsTyped, rows
<1>2. \A g \in Handlers \ {h} : RowsFor(g)
  BY DEF RowsFor, rows
<1>3. QED
  BY <1>1, <1>2, StepKeepsIInv

LEMMA RetryKeeps ==
  ASSUME IInv, NEW h \in Handlers, Retry(h), UNCHANGED rows
  PROVE  IInv'
<1>1. CASE Respond(h, "CONFLICT")
  BY <1>1, RespondKeeps DEF Answers
<1>2. CASE /\ MayRetry(h)
           /\ Goto(h, "lookup")
           /\ attempt' = [attempt EXCEPT ![h] = @ + 1]
           /\ EndTx(h)
           /\ UNCHANGED <<op, order, answer, corrections>>
  <2>1. attempt[h] + 1 \in 0..(MaxAttempts - 1)
    BY <1>2, InventoryAssumption DEF MayRetry, IInv, TypeOK
  <2>2. TypeOK' /\ at'[h] = "lookup" /\ OthersSame(h) /\ wrote'[h] = {} /\ loaded'[h] = {}
    BY <1>2, <2>1, EndTxFacts DEF IInv, TypeOK, Goto, Statement, OthersSame, rows
  <2>3. TxInv(h)'
    BY <2>2, FreshTx
  <2>4. QED
    BY <2>2, <2>3, StepKeepsIInv DEF RowsFor, rows
<1>3. QED
  BY <1>1, <1>2 DEF Retry

\* (a statement that reads and writes no row)
LEMMA GotoKeeps ==
  ASSUME IInv, NEW h \in Handlers, NEW statement \in Statement, Goto(h, statement),
         loaded[h] = {}, wrote[h] = {},
         \/ statement = "load" /\ op[h] = "reserve"
         \/ statement = "read" /\ op[h] # "reserve",
         UNCHANGED <<rows, op, order, attempt, tx, answer, corrections>>
  PROVE  IInv'
<1>1. TypeOK' /\ at'[h] = statement /\ OthersSame(h)
  BY DEF IInv, TypeOK, Goto, OthersSame, rows, tx
<1>2. TxInv(h)'
  BY <1>1, FreshTx DEF tx
<1>3. QED
  BY <1>1, <1>2, StepKeepsIInv DEF RowsFor, rows, tx, IInv, LocksDisjoint

-----------------------------------------------------------------------------
(* Rows are read and written.                                              *)

LEMMA LoadLineKeeps ==
  ASSUME IInv, NEW h \in Handlers, LoadLine(h)
  PROVE  IInv'
<1> DEFINE s == NextRead(h)
<1>1. /\ TypeOK /\ TxInv(h) /\ PlaceInv(h) /\ at[h] = "load" /\ op[h] = "reserve"
      /\ wrote[h] = {} /\ UNCHANGED rows
  BY DEF IInv, TxInv, PlaceInv, Reserving, LoadLine
<1>2. loaded[h] \subseteq OwnLines(h) /\ loaded[h] # OwnLines(h)
  BY <1>1 DEF PlaceInv
<1>3. s \in OwnLines(h) \ loaded[h] /\ s \in Skus
  BY <1>1, <1>2, NextReadFacts
<1> HIDE DEF s
<1>4. CASE Respond(h, "DECLINED")
  BY <1>1, <1>4, RespondKeeps DEF Answers
<1>5. CASE /\ Found(stock[s]) /\ CanHold(stock[s], Qty(h, s)) /\ ReadRow(h, s)
           /\ Goto(h, IF loaded'[h] = Lines(order[h]) THEN "update" ELSE "load")
           /\ UNCHANGED <<op, order, attempt, wrote, answer, corrections>>
  <2>1. stock[s] \in Row
    BY <1>1, <1>3, <1>5, RowVersions DEF TypeOK
  <2>2. /\ seen'[h] = [seen[h] EXCEPT ![s] = stock[s]]
        /\ loaded'[h] = loaded[h] \cup {s}
        /\ OthersSame(h)
        /\ at'[h] = IF loaded'[h] = OwnLines(h) THEN "update" ELSE "load"
    BY <1>1, <1>5 DEF ReadRow, Goto, OthersSame, TypeOK, OwnLines
  <2>3. seen[h] \in [Skus -> Row \cup {NoRow}]
    BY <1>1 DEF TypeOK
  <2>4. TypeOK'
    <3>1. /\ seen' \in [Handlers -> [Skus -> Row \cup {NoRow}]]
          /\ loaded' \in [Handlers -> SUBSET Skus]
      BY <1>1, <1>3, <1>5, <2>1, <2>3 DEF ReadRow, TypeOK
    <3>2. at' \in [Handlers -> Statement]
      BY <1>1, <1>5 DEF Goto, TypeOK, Statement
    <3>3. QED
      BY <1>1, <1>5, <3>1, <3>2 DEF TypeOK, rows
  <2>5. OwnLines(h)' = OwnLines(h) /\ \A u \in Skus : Qty(h, u)' = Qty(h, u)
    BY <1>5 DEF OwnLines, Qty
  <2>6. PlaceInv(h)'
    BY <1>1, <1>2, <1>3, <1>5, <2>2, <2>5, RankFacts DEF PlaceInv, Reserving, Moving
  <2>7. ASSUME NEW u \in loaded'[h] PROVE ReadInv(h, u)'
    <3>1. CASE u = s
      BY <1>1, <1>3, <1>5, <2>1, <2>2, <2>3, <2>5, <3>1, RowVersions
      DEF ReadInv, rows
    <3>2. CASE u # s
      <4>1. u \in loaded[h] /\ u \in Skus /\ ReadInv(h, u) /\ seen'[h][u] = seen[h][u]
        BY <1>1, <2>2, <2>3, <2>7, <3>2 DEF TypeOK, TxInv
      <4>2. QED
        BY <1>1, <1>5, <2>5, <4>1 DEF ReadInv, rows
    <3>3. QED
      BY <3>1, <3>2
  <2>8. WroteInv(h)'
    BY <1>1, <1>5 DEF WroteInv
  <2>9. QED
    BY <1>1, <1>5, <2>2, <2>4, <2>6, <2>7, <2>8, StepKeepsIInv DEF TxInv, RowsFor, rows
<1>6. QED
  BY <1>4, <1>5 DEF LoadLine, s
LEMMA ReadLineKeeps ==
  ASSUME IInv, NEW h \in Handlers, ReadLine(h)
  PROVE  IInv'
<1> DEFINE s == NextRead(h)
<1>1. /\ TypeOK /\ TxInv(h) /\ PlaceInv(h) /\ WroteInv(h) /\ at[h] = "read"
      /\ op[h] # "reserve" /\ loaded[h] = wrote[h] /\ wrote[h] # OwnLines(h)
      /\ wrote[h] \subseteq OwnLines(h) /\ UNCHANGED rows
  BY DEF IInv, TxInv, PlaceInv, Moving, ReadLine
<1>2. s = NextWrite(h)
  BY <1>1 DEF NextRead, NextWrite
<1>3. s \in OwnLines(h) \ loaded[h] /\ s \in Skus
  BY <1>1, NextReadFacts
<1>4. CASE Respond(h, "ERROR")
  BY <1>1, <1>4, RespondKeeps DEF Answers
<1>5. CASE /\ CanUnhold(stock[s], Qty(h, s)) /\ ReadRow(h, s) /\ Goto(h, "write")
           /\ UNCHANGED <<op, order, attempt, wrote, answer, corrections>>
  <2> HIDE DEF s
  <2>2. /\ seen'[h] = [seen[h] EXCEPT ![s] = stock[s]]
        /\ loaded'[h] = loaded[h] \cup {s}
        /\ OthersSame(h)
        /\ at'[h] = "write"
    BY <1>1, <1>5 DEF ReadRow, Goto, OthersSame, TypeOK
  <2>3. seen[h] \in [Skus -> Row \cup {NoRow}]
    BY <1>1 DEF TypeOK
  <2>4. TypeOK'
    <3>1. /\ seen' \in [Handlers -> [Skus -> Row \cup {NoRow}]]
          /\ loaded' \in [Handlers -> SUBSET Skus]
      BY <1>1, <1>3, <1>5, <2>3 DEF ReadRow, TypeOK
    <3>2. at' \in [Handlers -> Statement]
      BY <1>1, <1>5 DEF Goto, TypeOK, Statement
    <3>3. QED
      BY <1>1, <1>5, <3>1, <3>2 DEF TypeOK, rows
  <2>5. /\ OwnLines(h)' = OwnLines(h) /\ \A u \in Skus : Qty(h, u)' = Qty(h, u)
        /\ NextWrite(h)' = s /\ Rank(h)' = Rank(h)
    BY <1>2, <1>5 DEF OwnLines, Qty, NextWrite, Rank
  <2>6. PlaceInv(h)'
    BY <1>1, <1>3, <1>5, <2>2, <2>5 DEF PlaceInv, Reserving, Moving
  <2>7. ASSUME NEW u \in loaded'[h] PROVE ReadInv(h, u)'
    <3>1. CASE u = s
      <4>1. stock[s] \in Row \cup {NoRow} /\ seen'[h][s] = stock[s]
        BY <1>1, <1>3, <2>2, <2>3 DEF TypeOK
      <4>2. Qty(h, s) \in Nat /\ Qty(h, s) > 0
        BY <1>1, <1>3, RankFacts DEF OwnLines, Lines, Qty
      <4>3. stock[s].reserved > 0
        BY <1>5, <4>1, <4>2, RowVersions DEF CanUnhold
      <4>4. stock[s] \in Row
        BY <4>1, <4>3 DEF NoRow
      <4>5. QED
        BY <1>1, <1>3, <1>5, <2>2, <2>5, <3>1, <4>1, <4>4, RowVersions
        DEF ReadInv, rows
    <3>2. CASE u # s
      <4>1. u \in loaded[h] /\ u \in Skus /\ ReadInv(h, u) /\ seen'[h][u] = seen[h][u]
        BY <1>1, <2>2, <2>3, <2>7, <3>2 DEF TypeOK, TxInv
      <4>2. QED
        BY <1>1, <1>5, <2>5, <4>1 DEF ReadInv, rows
    <3>3. QED
      BY <3>1, <3>2
  <2>8. WroteInv(h)'
    <3>1. \A u \in wrote[h] : u \in Skus /\ u # s
      BY <1>1, <1>3 DEF TypeOK
    <3>2. \A u \in wrote[h] : seen'[h][u] = seen[h][u]
      BY <2>2, <2>3, <3>1
    <3>3. QED
      BY <1>1, <1>5, <2>5, <3>2 DEF WroteInv, rows
  <2>9. QED
    BY <1>1, <1>5, <2>2, <2>4, <2>6, <2>7, <2>8, StepKeepsIInv
    DEF TxInv, RowsFor, rows, IInv, LocksDisjoint
<1>6. QED
  BY <1>4, <1>5 DEF ReadLine

\* (the row of s is updated: it is still the row that was read)
LEMMA WriteRowKeeps ==
  ASSUME IInv, NEW h \in Handlers, NEW done \in {"insert", "settle"},
         \/ at[h] = "update" /\ done = "insert"
         \/ at[h] = "write" /\ done = "settle",
         WriteRow(h, NextWrite(h), done)
  PROVE  IInv'
<1> DEFINE s == NextWrite(h)
<1>1. /\ TypeOK /\ TxInv(h) /\ PlaceInv(h) /\ WroteInv(h)
      /\ wrote[h] \subseteq OwnLines(h) /\ wrote[h] # OwnLines(h)
      /\ UNCHANGED rows
      /\ (op[h] = "reserve" <=> at[h] = "update")
  BY DEF IInv, TxInv, PlaceInv, Reserving, Moving, WriteRow
<1>2. /\ s \in OwnLines(h) \ wrote[h] /\ s \in loaded[h] /\ s \in Skus
      /\ \A t \in OwnLines(h) \ wrote[h] : t # s => Rank(h)[s] < Rank(h)[t]
  BY <1>1, NextWriteFacts DEF PlaceInv, TypeOK
<1> HIDE DEF s
<1>3. CASE Retry(h)
  BY <1>1, <1>3, RetryKeeps
<1>4. CASE /\ ~LockedByOther(h, s)
           /\ VersionMatches(h, s)
           /\ wrote' = [wrote EXCEPT ![h] = @ \cup {s}]
           /\ Goto(h, IF wrote'[h] = Lines(order[h]) THEN done
                      ELSE IF op[h] = "reserve" THEN "update" ELSE "read")
           /\ UNCHANGED <<op, order, attempt, seen, loaded, answer, corrections>>
  <2>1. /\ wrote'[h] = wrote[h] \cup {s} /\ OthersSame(h)
        /\ at'[h] = IF wrote'[h] = OwnLines(h) THEN done
                    ELSE IF op[h] = "reserve" THEN "update" ELSE "read"
    BY <1>1, <1>4 DEF TypeOK, Goto, OthersSame, OwnLines
  <2>2. TypeOK'
    <3>1. wrote' \in [Handlers -> SUBSET Skus]
      BY <1>1, <1>2, <1>4 DEF TypeOK
    <3>2. at' \in [Handlers -> Statement]
      BY <1>1, <1>4 DEF Goto, TypeOK, Statement
    <3>3. QED
      BY <1>1, <1>4, <3>1, <3>2 DEF TypeOK, rows
  <2>3. /\ OwnLines(h)' = OwnLines(h) /\ Rank(h)' = Rank(h)
        /\ \A u \in Skus : Qty(h, u)' = Qty(h, u)
    BY <1>4 DEF OwnLines, Rank, Qty
  <2>4. PlaceInv(h)'
    <3>1. CASE at[h] = "update"
      BY <1>1, <1>2, <1>4, <2>1, <2>3, <3>1 DEF PlaceInv, Reserving, Moving
    <3>2. CASE at[h] = "write"
      <4>1. loaded[h] = wrote[h] \cup {s}
        BY <1>1, <3>2 DEF PlaceInv, s
      <4>2. QED
        BY <1>1, <1>2, <1>4, <2>1, <2>3, <3>2, <4>1 DEF PlaceInv, Reserving, Moving
    <3>3. QED
      BY <3>1, <3>2
  <2>5. \A u \in loaded'[h] : ReadInv(h, u)'
    BY <1>1, <1>4, <2>3 DEF TxInv, ReadInv, rows, TypeOK
  <2>6. WroteInv(h)'
    <3>1. stock[s] = seen[h][s]
      BY <1>1, <1>2, <1>4 DEF TxInv, ReadInv, VersionMatches
    <3>2. \A u \in wrote'[h] : stock'[u] = seen'[h][u]
      BY <1>1, <1>4, <2>1, <3>1 DEF WroteInv, rows
    <3>3. \A u \in wrote'[h], t \in OwnLines(h) \ wrote'[h] : Rank(h)[u] < Rank(h)[t]
      BY <1>1, <1>2, <2>1 DEF WroteInv
    <3>4. QED
      BY <2>3, <3>2, <3>3 DEF WroteInv
  <2>7. \A g \in Handlers \ {h} : RowsFor(g) /\ wrote[g] \cap wrote'[h] = {}
    BY <1>1, <1>4, <2>1 DEF RowsFor, rows, IInv, LocksDisjoint, LockedByOther
  <2>8. QED
    BY <2>1, <2>2, <2>4, <2>5, <2>6, <2>7, StepKeepsIInv DEF TxInv
<1>5. QED
  BY <1>3, <1>4 DEF WriteRow, s

-----------------------------------------------------------------------------
(* Rows are committed.                                                     *)

LEMMA RowIsWide ==
  ASSUME NEW row \in Row \cup {NoRow}
  PROVE  row \in [available : Nat, reserved : Nat, version : Int]
BY DEF Row, NoRow

\* (the columns of a row after an update)
LEMMA RowUpdates ==
  ASSUME NEW row \in Row, NEW qty \in Nat, NEW target
  PROVE  /\ Held(row, qty).available = row.available - qty
         /\ Held(row, qty).reserved = row.reserved + qty
         /\ Held(row, qty).version = row.version + 1
         /\ qty <= row.available => Held(row, qty) \in Row
         /\ Unheld(row, qty, target).available =
              IF target = "RELEASED" THEN row.available + qty ELSE row.available
         /\ Unheld(row, qty, target).reserved = row.reserved - qty
         /\ Unheld(row, qty, target).version = row.version + 1
         /\ qty <= row.reserved => Unheld(row, qty, target) \in Row
<1>1. row.available \in Nat /\ row.reserved \in Nat /\ row.version \in Nat
  BY DEF Row
<1>2. /\ Held(row, qty).available = row.available - qty
      /\ Held(row, qty).reserved = row.reserved + qty
      /\ Held(row, qty).version = row.version + 1
  BY DEF Row, Held
<1>3. /\ Unheld(row, qty, target).available =
           IF target = "RELEASED" THEN row.available + qty ELSE row.available
      /\ Unheld(row, qty, target).reserved = row.reserved - qty
      /\ Unheld(row, qty, target).version = row.version + 1
  BY DEF Row, Unheld
<1>4. row \in [available : Nat, reserved : Nat, version : Int]
  BY RowIsWide
<1>5. qty <= row.available => Held(row, qty) \in Row
  <2> DEFINE a == row.available - qty
             r == row.reserved + qty
             v == row.version + 1
  <2>1. qty <= row.available => a \in Nat /\ r \in Nat /\ v \in Nat
    BY <1>1
  <2>2. Held(row, qty) = [row EXCEPT !.available = a, !.reserved = r, !.version = v]
    BY DEF Held
  <2> HIDE DEF a, r, v
  <2>3. qty <= row.available => [row EXCEPT !.available = a, !.reserved = r, !.version = v] \in Row
    BY <1>4, <2>1 DEF Row
  <2>4. QED
    BY <2>2, <2>3
<1>6. qty <= row.reserved => Unheld(row, qty, target) \in Row
  <2> DEFINE a == IF target = "RELEASED" THEN row.available + qty ELSE row.available
             r == row.reserved - qty
             v == row.version + 1
  <2>1. qty <= row.reserved => a \in Nat /\ r \in Nat /\ v \in Nat
    BY <1>1
  <2>2. Unheld(row, qty, target) = [row EXCEPT !.available = a, !.reserved = r, !.version = v]
    BY DEF Unheld
  <2> HIDE DEF a, r, v
  <2>3. qty <= row.reserved => [row EXCEPT !.available = a, !.reserved = r, !.version = v] \in Row
    BY <1>4, <2>1 DEF Row
  <2>4. QED
    BY <2>2, <2>3
<1>7. QED
  BY <1>2, <1>3, <1>5, <1>6

\* (the rows of a transaction that has written all its lines)
LEMMA NewRowFacts ==
  ASSUME IInv, NEW h \in Handlers, NEW s \in wrote[h]
  PROVE  /\ s \in Skus /\ stock[s] \in Row /\ NewRow(h, s) \in Row
         /\ NewRow(h, s).version = stock[s].version + 1
         /\ op[h] = "reserve" => /\ Qty(h, s) <= stock[s].available
                                 /\ NewRow(h, s) = Held(stock[s], Qty(h, s))
         /\ op[h] # "reserve" => /\ Qty(h, s) <= stock[s].reserved
                                 /\ NewRow(h, s) = Unheld(stock[s], Qty(h, s), op[h])
<1>1. /\ s \in Skus /\ s \in loaded[h] /\ stock[s] = seen[h][s] /\ ReadInv(h, s)
      /\ Qty(h, s) \in Nat
  BY RankFacts DEF IInv, TypeOK, TxInv, PlaceInv, WroteInv
<1>2. stock[s] \in Row
  BY <1>1 DEF ReadInv
<1>3. CASE op[h] = "reserve"
  <2>1. Qty(h, s) <= stock[s].available
    BY <1>1, <1>3 DEF ReadInv, CanHold
  <2>2. NewRow(h, s) = Held(stock[s], Qty(h, s))
    BY <1>1, <1>3 DEF NewRow
  <2>3. Held(stock[s], Qty(h, s)) \in Row /\ Held(stock[s], Qty(h, s)).version = stock[s].version + 1
    BY <1>1, <1>2, <2>1, RowUpdates DEF Row
  <2>4. QED
    BY <1>1, <1>2, <1>3, <2>1, <2>2, <2>3
<1>4. CASE op[h] # "reserve"
  <2>1. Qty(h, s) <= stock[s].reserved
    BY <1>1, <1>4 DEF ReadInv, CanUnhold
  <2>2. NewRow(h, s) = Unheld(stock[s], Qty(h, s), op[h])
    BY <1>1, <1>4 DEF NewRow
  <2>3. /\ Unheld(stock[s], Qty(h, s), op[h]) \in Row
        /\ Unheld(stock[s], Qty(h, s), op[h]).version = stock[s].version + 1
    BY <1>1, <1>2, <2>1, RowUpdates DEF Row
  <2>4. QED
    BY <1>1, <1>2, <1>4, <2>1, <2>2, <2>3
<1>5. QED
  BY <1>3, <1>4

LEMMA CommitKeeps ==
  ASSUME IInv, NEW h \in Handlers, NEW status \in {"HELD", "RELEASED", "COMMITTED"},
         CommitTx(h, status)
  PROVE  IInv'
<1>1. TypeOK /\ order[h] \in Orders
  BY DEF IInv, TypeOK
<1>2. RowsTyped'
  <2>1. stock' \in [Skus -> Row \cup {NoRow}]
    BY <1>1, NewRowFacts DEF CommitTx, TypeOK
  <2>2. reservation' \in [Orders -> {"NONE", "HELD", "RELEASED", "COMMITTED"}]
    BY <1>1 DEF CommitTx, TypeOK
  <2>3. QED
    BY <2>1, <2>2 DEF RowsTyped
<1>3. TypeOK' /\ TxInv(h)' /\ OthersSame(h) /\ wrote'[h] = {}
  BY <1>1, <1>2, RespondFacts DEF CommitTx, Answers
<1>4. ASSUME NEW g \in Handlers \ {h} PROVE RowsFor(g)
  <2>1. ASSUME NEW s \in Skus
        PROVE  stock'[s] = stock[s] \/ (s \notin wrote[g] /\ stock[s].version < stock'[s].version)
    <3>1. CASE s \in wrote[h]
      <4>1. stock'[s] = NewRow(h, s) /\ s \notin wrote[g]
        BY <3>1 DEF CommitTx, IInv, LocksDisjoint
      <4>2. stock[s].version \in Int /\ stock'[s].version = stock[s].version + 1
        BY <3>1, <4>1, NewRowFacts DEF Row
      <4>3. QED
        BY <4>1, <4>2
    <3>2. CASE s \notin wrote[h]
      BY <3>2 DEF CommitTx
    <3>3. QED
      BY <3>1, <3>2
  <2>2. QED
    BY <2>1 DEF RowsFor
<1>5. QED
  BY <1>3, <1>4, StepKeepsIInv

LEMMA UpsertKeeps ==
  ASSUME IInv, NEW s \in Skus, NEW n \in 0..MaxStock, UpsertStock(s, n)
  PROVE  IInv'
<1>1. TypeOK /\ stock[s] \in Row \cup {NoRow} /\ stock[s].version \in Int
  BY RowVersions DEF IInv, TypeOK
<1>2. /\ stock'[s] \in Row /\ stock'[s].version = stock[s].version + 1
      /\ \A u \in Skus \ {s} : stock'[u] = stock[u]
  <2>1. stock'[s] = [stock[s] EXCEPT !.available = n, !.version = @ + 1]
    BY <1>1 DEF UpsertStock, TypeOK
  <2>2. n \in Nat
    BY InventoryAssumption
  <2>3. stock[s].version + 1 \in Nat /\ stock[s] \in [available : Nat, reserved : Nat, version : Int]
    BY <1>1, RowIsWide DEF Row, NoRow
  <2>4. stock'[s] \in Row /\ stock'[s].version = stock[s].version + 1
    <3> DEFINE old == stock[s]
               v == old.version + 1
    <3>1. stock'[s] = [old EXCEPT !.available = n, !.version = v]
      BY <2>1
    <3>2. v \in Nat /\ old \in [available : Nat, reserved : Nat, version : Int]
      BY <2>3
    <3> HIDE DEF old, v
    <3>3. LET new == [old EXCEPT !.available = n, !.version = v] IN new \in Row /\ new.version = v
      BY <2>2, <3>2 DEF Row
    <3>4. QED
      BY <3>1, <3>3 DEF old, v
  <2>5. \A u \in Skus \ {s} : stock'[u] = stock[u]
    BY <1>1 DEF UpsertStock, TypeOK
  <2>6. QED
    BY <1>1, <2>3, <2>4, <2>5
<1>3. TypeOK'
  <2>1. stock' \in [Skus -> Row \cup {NoRow}]
    BY <1>1, <1>2 DEF UpsertStock, TypeOK
  <2>2. corrections' \in 0..MaxCorrections
    BY <1>1, InventoryAssumption DEF UpsertStock, TypeOK
  <2>3. /\ reservation' = reservation /\ at' = at /\ op' = op /\ order' = order
        /\ attempt' = attempt /\ seen' = seen /\ loaded' = loaded /\ wrote' = wrote
        /\ answer' = answer
    BY DEF UpsertStock, tx
  <2>4. QED
    BY <1>1, <2>1, <2>2, <2>3 DEF TypeOK
<1>4. ASSUME NEW g \in Handlers PROVE TxInv(g)'
  <2>1. RowsFor(g)
    <3>1. s \notin wrote[g]
      BY DEF UpsertStock
    <3>2. stock[s].version < stock'[s].version
      BY <1>1, <1>2
    <3>3. \A u \in Skus \ {s} : stock'[u] = stock[u]
      BY <1>2
    <3>4. QED
      BY <3>1, <3>2, <3>3 DEF RowsFor
  <2>2. QED
    BY <1>1, <1>3, <2>1, OtherKeepsTx DEF UpsertStock, IInv, tx
<1>5. QED
  BY <1>3, <1>4 DEF IInv, LocksDisjoint, UpsertStock, tx
-----------------------------------------------------------------------------
(* Every step.                                                             *)

LEMMA BeginKeeps ==
  ASSUME IInv, NEW h \in Handlers, NEW o \in Orders, NEW operation \in Operations,
         Begin(h, o, operation)
  PROVE  IInv'
<1>1. loaded[h] = {} /\ wrote[h] = {}
  BY DEF IInv, TxInv, PlaceInv, Reserving, Moving, Begin
<1>2. TypeOK' /\ at'[h] = "lookup" /\ OthersSame(h)
  BY DEF IInv, TypeOK, Begin, Goto, Statement, Answers, OthersSame, rows, tx
<1>3. TxInv(h)'
  BY <1>1, <1>2, FreshTx DEF Begin, tx
<1>4. QED
  BY <1>1, <1>2, <1>3, StepKeepsIInv DEF RowsFor, rows, tx, Begin

LEMMA InsertKeeps ==
  ASSUME IInv, NEW h \in Handlers, InsertReservation(h)
  PROVE  IInv'
<1>1. CASE CommitTx(h, "HELD")
  BY <1>1, CommitKeeps
<1>2. CASE /\ Goto(h, "replay")
           /\ EndTx(h)
           /\ UNCHANGED <<rows, op, order, attempt, answer, corrections>>
  <2>1. TypeOK' /\ at'[h] = "replay" /\ OthersSame(h) /\ wrote'[h] = {} /\ loaded'[h] = {}
    BY <1>2, EndTxFacts DEF IInv, TypeOK, Goto, Statement, OthersSame, rows
  <2>2. TxInv(h)'
    BY <2>1, FreshTx
  <2>3. QED
    BY <1>2, <2>1, <2>2, StepKeepsIInv DEF RowsFor, rows
<1>3. QED
  BY <1>1, <1>2 DEF InsertReservation

LEMMA HandlerKeeps ==
  ASSUME IInv, NEW h \in Handlers, HandlerStep(h)
  PROVE  IInv'
<1>1. at[h] = "lookup" => loaded[h] = {} /\ wrote[h] = {}
  BY DEF IInv, TxInv, PlaceInv, Reserving, Moving
<1>2. CASE LookupReserve(h)
  BY <1>1, <1>2, RespondKeeps, GotoKeeps DEF LookupReserve, Answers, Statement, rows
<1>3. CASE LoadLine(h)
  BY <1>3, LoadLineKeeps
<1>4. CASE UpdateLine(h)
  BY <1>4, WriteRowKeeps DEF UpdateLine
<1>5. CASE InsertReservation(h)
  BY <1>5, InsertKeeps
<1>6. CASE ReplayReserve(h)
  BY <1>6, RespondKeeps DEF ReplayReserve, Answers
<1>7. CASE LookupTransition(h)
  <2>1. CASE \E a \in Answers : Respond(h, a)
    BY <1>7, <2>1, RespondKeeps DEF LookupTransition
  <2>2. CASE Goto(h, "read") /\ UNCHANGED <<op, order, attempt, tx, answer, corrections>>
    BY <1>1, <1>7, <2>2, GotoKeeps DEF LookupTransition, Statement, rows
  <2>3. QED
    BY <1>7, <2>1, <2>2 DEF LookupTransition, Answers
<1>8. CASE ReadLine(h)
  BY <1>8, ReadLineKeeps
<1>9. CASE WriteLine(h)
  BY <1>9, WriteRowKeeps DEF WriteLine
<1>10. CASE SettleReservation(h)
  <2>1. op[h] \in {"RELEASED", "COMMITTED"}
    BY <1>10 DEF SettleReservation, IInv, TypeOK, TxInv, PlaceInv, Moving, Operations
  <2>2. QED
    BY <1>10, <2>1, CommitKeeps DEF SettleReservation
<1>11. QED
  BY <1>2, <1>3, <1>4, <1>5, <1>6, <1>7, <1>8, <1>9, <1>10 DEF HandlerStep

LEMMA InitIInv == Init => IInv
<1> SUFFICES ASSUME Init PROVE IInv
  OBVIOUS
<1>1. AnyOrder \in Orders
  BY InventoryAssumption DEF AnyOrder
<1>2. stock \in [Skus -> Row \cup {NoRow}]
  <2>1. \A n \in 0..MaxStock : [available |-> n, reserved |-> 0, version |-> 0] \in Row
    BY InventoryAssumption DEF Row
  <2>2. QED
    BY <2>1 DEF Init
<1>3. Unseen \in [Skus -> Row \cup {NoRow}] /\ 0 \in 0..(MaxAttempts - 1) /\ 0 \in 0..MaxCorrections
  BY InventoryAssumption DEF Unseen
<1>4. TypeOK
  BY <1>1, <1>2, <1>3 DEF Init, TypeOK, Statement, Operations, Answers
<1>5. \A h \in Handlers : TxInv(h)
  BY DEF Init, TxInv, PlaceInv, WroteInv, Reserving, Moving
<1>6. QED
  BY <1>4, <1>5 DEF IInv, LocksDisjoint, Init

LEMMA NextKeepsIInv ==
  ASSUME IInv, [Next]_invVars
  PROVE  IInv'
<1>1. ASSUME NEW h \in Handlers, HandlerStep(h) PROVE IInv'
  BY <1>1, HandlerKeeps
<1>2. ASSUME NEW h \in Handlers, Abort(h) \/ DeadlockVictim(h) PROVE IInv'
  BY <1>2, RespondKeeps DEF Abort, DeadlockVictim, Answers
<1>3. ASSUME NEW h \in Handlers, NEW o \in Orders, NEW operation \in Operations,
             Begin(h, o, operation)
      PROVE  IInv'
  BY <1>3, BeginKeeps
<1>4. ASSUME NEW s \in Skus, NEW n \in 0..MaxStock, UpsertStock(s, n) PROVE IInv'
  BY <1>4, UpsertKeeps
<1>5. CASE UNCHANGED invVars
  <2>1. TypeOK'
    BY <1>5 DEF IInv, TypeOK, invVars, rows, tx
  <2>2. \A g \in Handlers : TxInv(g)'
    BY <1>5, <2>1, OtherKeepsTx DEF IInv, RowsFor, invVars, rows, tx
  <2>3. QED
    BY <1>5, <2>1, <2>2 DEF IInv, LocksDisjoint, invVars, rows, tx
<1>6. QED
  BY <1>1, <1>2, <1>3, <1>4, <1>5 DEF Next
\* (the invariant of every execution)
THEOREM InventoryInvariantHolds == Spec => []IInv
<1> QED
  BY InitIInv, NextKeepsIInv, PTL DEF Spec

(***************************************************************************)
(* The state is well typed: rows stay counts of units, so available and    *)
(* reserved never go below zero whatever transactions interleave, and no   *)
(* request takes more than MaxAttempts (stock_item.go Reserve, Release and *)
(* Commit; the CHECKs of stock_items say the same).                        *)
(***************************************************************************)
THEOREM InventoryTypes == Spec => []TypeOK
<1>1. IInv => TypeOK
  BY DEF IInv
<1>2. QED
  BY <1>1, InventoryInvariantHolds, PTL

(***************************************************************************)
(* No update is lost, for any number of handlers: a row a transaction has  *)
(* updated is still the row it read (inventory_repository.go, version).    *)
(***************************************************************************)
THEOREM UpdatesAreNotLost == Spec => []NoLostUpdate
<1>1. IInv => NoLostUpdate
  BY DEF IInv, TxInv, WroteInv, NoLostUpdate
<1>2. QED
  BY <1>1, InventoryInvariantHolds, PTL

(***************************************************************************)
(* Sorted alike, row locks are taken in one order: of the handlers of a    *)
(* cycle take the one that waits for the row of least rank; whoever waits  *)
(* for it wants a row it has locked, and those rank lower still.           *)
(***************************************************************************)
LEMMA SortedLocksDoNotCycle ==
  ASSUME IInv, GoRank = DbRank, NEW S \in SUBSET Handlers, LockCycle(S)
  PROVE  FALSE
<1> DEFINE key(h) == GoRank[NextWrite(h)]
           T == {key(h) : h \in S}
<1>1. ASSUME NEW h \in S
      PROVE  NextWrite(h) \in OwnLines(h) \ wrote[h] /\ NextWrite(h) \in Skus /\ Rank(h) = GoRank
  <2>1. at[h] \in {"update", "write"}
    BY DEF LockCycle, WaitsFor
  <2>2. /\ TypeOK /\ wrote[h] \subseteq OwnLines(h) /\ wrote[h] # OwnLines(h)
        /\ OwnLines(h) \subseteq Skus
    BY <2>1, RankFacts DEF IInv, TxInv, PlaceInv
  <2>3. QED
    BY <2>2, NextWriteFacts DEF Rank
<1>2. T \subseteq Nat /\ T # {}
  BY <1>1, InventoryAssumption DEF LockCycle
<1>3. PICK h \in S : \A g \in S : key(h) <= key(g)
  <2>1. PICK n \in T : \A m \in T : n <= m
    BY <1>2, Minimum
  <2>2. QED
    BY <2>1
<1>4. PICK g \in S : WaitsFor(g, h)
  BY DEF LockCycle
<1>5. NextWrite(g) \in wrote[h] /\ NextWrite(h) \in OwnLines(h) \ wrote[h]
  BY <1>1, <1>4 DEF WaitsFor
<1>6. Rank(h)[NextWrite(g)] < Rank(h)[NextWrite(h)]
  BY <1>5 DEF IInv, TxInv, WroteInv
<1>7. key(g) < key(h) /\ key(g) \in Nat /\ key(h) \in Nat
  BY <1>1, <1>2, <1>6
<1>8. QED
  BY <1>3, <1>7

(***************************************************************************)
(* While both sides sort SKUs alike, no set of handlers, of any size,      *)
(* waits for row locks in a cycle (Reserve sorts its lines, loadLines      *)
(* reads them ORDER BY sku).                                               *)
(***************************************************************************)
THEOREM SortedRequestsDoNotDeadlock == Spec => []NoLockCycle
<1>1. IInv => NoLockCycle
  BY SortedLocksDoNotCycle DEF NoLockCycle
<1>2. QED
  BY <1>1, InventoryInvariantHolds, PTL
-----------------------------------------------------------------------------
(* One transition of an order at a time: the transactions implement the    *)
(* ledger.                                                                 *)

Transits(h) == at[h] # "idle" /\ op[h] # "reserve"

\* A step of h that commits nothing: it ends the request, or goes on with it.
GoesOn(h) ==
  /\ OthersSame(h) /\ UNCHANGED rows
  /\ \/ at'[h] = "idle"
     \/ /\ at[h] # "idle" /\ op'[h] = op[h] /\ order'[h] = order[h]
        /\ at'[h] \in Moving => at[h] \in Moving \/ reservation[order[h]] = "HELD"

LEMMA GoesOnSerial ==
  ASSUME SerialInv, NEW h \in Handlers, GoesOn(h)
  PROVE  SerialInv'
<1>1. \A g \in Handlers : Transits(g)' => Transits(g) /\ order'[g] = order[g]
  BY DEF Transits, GoesOn, OthersSame
<1>2. \A g \in Handlers : at'[g] \in Moving => reservation'[order'[g]] = "HELD"
  BY DEF SerialInv, GoesOn, OthersSame, Moving, rows
<1>3. QED
  BY <1>1, <1>2 DEF SerialInv, Transits

LEMMA RespondGoesOn ==
  ASSUME IInv, NEW h \in Handlers, NEW a, Respond(h, a), UNCHANGED rows
  PROVE  GoesOn(h)
BY EndTxFacts DEF IInv, TypeOK, Respond, Goto, GoesOn, OthersSame

LEMMA RetryGoesOn ==
  ASSUME IInv, NEW h \in Handlers, at[h] # "idle", Retry(h), UNCHANGED rows
  PROVE  GoesOn(h)
<1>1. CASE Respond(h, "CONFLICT")
  BY <1>1, RespondGoesOn
<1>2. CASE Goto(h, "lookup") /\ EndTx(h) /\ UNCHANGED <<op, order>>
  BY <1>2, EndTxFacts DEF IInv, TypeOK, Goto, GoesOn, OthersSame, Moving
<1>3. QED
  BY <1>1, <1>2 DEF Retry

LEMMA WriteRowGoesOn ==
  ASSUME IInv, NEW h \in Handlers, NEW done \in {"insert", "settle"},
         \/ at[h] = "update" /\ done = "insert"
         \/ at[h] = "write" /\ done = "settle",
         WriteRow(h, NextWrite(h), done)
  PROVE  GoesOn(h)
<1>1. op[h] = "reserve" <=> at[h] = "update"
  BY DEF IInv, TxInv, PlaceInv, Reserving, Moving
<1>2. CASE Retry(h)
  BY <1>2, RetryGoesOn DEF WriteRow
<1>3. CASE /\ wrote' = [wrote EXCEPT ![h] = @ \cup {NextWrite(h)}]
           /\ Goto(h, IF wrote'[h] = Lines(order[h]) THEN done
                      ELSE IF op[h] = "reserve" THEN "update" ELSE "read")
           /\ UNCHANGED <<op, order, attempt, seen, loaded, answer, corrections>>
  <2>1. OthersSame(h) /\ at'[h] \in {done, IF op[h] = "reserve" THEN "update" ELSE "read"}
    BY <1>3 DEF IInv, TypeOK, Goto, OthersSame
  <2>2. at'[h] \in Moving => at[h] \in Moving
    BY <1>1, <2>1 DEF Moving
  <2>3. QED
    BY <1>3, <2>1, <2>2 DEF GoesOn, WriteRow
<1>4. QED
  BY <1>2, <1>3 DEF WriteRow

\* (all steps of a request but the commit)
LEMMA StepGoesOn ==
  ASSUME IInv, NEW h \in Handlers,
         \/ LookupReserve(h) \/ LoadLine(h) \/ UpdateLine(h) \/ ReplayReserve(h)
         \/ LookupTransition(h) \/ ReadLine(h) \/ WriteLine(h)
         \/ Abort(h) \/ DeadlockVictim(h)
         \/ (at[h] = "insert" /\ Goto(h, "replay") /\ EndTx(h) /\ UNCHANGED <<rows, op, order>>)
  PROVE  GoesOn(h)
<1> USE DEF Moving
<1>1. CASE UpdateLine(h)
  BY <1>1, WriteRowGoesOn DEF UpdateLine
<1>2. CASE WriteLine(h)
  BY <1>2, WriteRowGoesOn DEF WriteLine
<1>3. CASE (\E a : Respond(h, a)) /\ UNCHANGED rows
  BY <1>3, RespondGoesOn
<1>4. CASE LookupReserve(h)
  <2>1. CASE Goto(h, "load") /\ UNCHANGED <<op, order, tx>>
    BY <1>4, <2>1 DEF LookupReserve, Goto, GoesOn, OthersSame, tx, IInv, TypeOK
  <2>2. QED
    BY <1>3, <1>4, <2>1 DEF LookupReserve, tx
<1>5. CASE LookupTransition(h)
  <2>1. CASE reservation[order[h]] = "HELD" /\ Goto(h, "read") /\ UNCHANGED <<op, order, tx>>
    BY <1>5, <2>1 DEF LookupTransition, Goto, GoesOn, OthersSame, tx, IInv, TypeOK
  <2>2. QED
    BY <1>3, <1>5, <2>1 DEF LookupTransition, tx
<1>6. CASE LoadLine(h)
  <2>1. CASE /\ ReadRow(h, NextRead(h)) /\ UNCHANGED <<op, order, wrote>>
             /\ Goto(h, IF loaded'[h] = Lines(order[h]) THEN "update" ELSE "load")
    BY <1>6, <2>1 DEF LoadLine, ReadRow, Goto, GoesOn, OthersSame, IInv, TypeOK
  <2>2. QED
    BY <1>3, <1>6, <2>1 DEF LoadLine
<1>7. CASE ReadLine(h)
  <2>1. CASE ReadRow(h, NextRead(h)) /\ Goto(h, "write") /\ UNCHANGED <<op, order, wrote>>
    BY <1>7, <2>1 DEF ReadLine, ReadRow, Goto, GoesOn, OthersSame, IInv, TypeOK
  <2>2. QED
    BY <1>3, <1>7, <2>1 DEF ReadLine
<1>8. CASE at[h] = "insert" /\ Goto(h, "replay") /\ EndTx(h) /\ UNCHANGED <<rows, op, order>>
  BY <1>8, EndTxFacts DEF Goto, GoesOn, OthersSame, IInv, TypeOK
<1>9. QED
  BY <1>1, <1>2, <1>3, <1>4, <1>5, <1>6, <1>7, <1>8 DEF ReplayReserve, Abort, DeadlockVictim
LEMMA BeginSerial ==
  ASSUME ~Overlap, IInv, SerialInv, NEW h \in Handlers, NEW o \in Orders,
         NEW operation \in Operations, Begin(h, o, operation)
  PROVE  SerialInv'
<1>1. /\ at'[h] = "lookup" /\ op'[h] = operation /\ order'[h] = o
      /\ \A g \in Handlers \ {h} : at'[g] = at[g] /\ op'[g] = op[g] /\ order'[g] = order[g]
      /\ reservation' = reservation
  BY DEF IInv, TypeOK, Begin, Goto, rows
<1>2. operation # "reserve" => \A g \in Handlers : at[g] = "idle" \/ order[g] # o \/ op[g] = "reserve"
  BY DEF Begin, Admitted
<1>3. \A g \in Handlers : at'[g] \in Moving => reservation'[order'[g]] = "HELD"
  BY <1>1 DEF SerialInv, Moving
<1>4. ASSUME NEW f \in Handlers, NEW g \in Handlers, g # f,
             at'[g] # "idle", at'[f] # "idle", op'[g] # "reserve", op'[f] # "reserve"
      PROVE  order'[g] # order'[f]
  <2>1. CASE f = h
    BY <1>1, <1>2, <1>4, <2>1
  <2>2. CASE g = h
    BY <1>1, <1>2, <1>4, <2>2
  <2>3. CASE f # h /\ g # h
    BY <1>1, <1>4, <2>3 DEF SerialInv
  <2>4. QED
    BY <2>1, <2>2, <2>3
<1>5. QED
  BY <1>3, <1>4 DEF SerialInv

\* (who commits is the only one who moves the reservation of the order)
LEMMA CommitSerial ==
  ASSUME IInv, SerialInv, NEW h \in Handlers, NEW status, CommitTx(h, status),
         at[h] = "settle" \/ reservation[order[h]] = "NONE"
  PROVE  SerialInv'
<1>1. /\ at'[h] = "idle"
      /\ \A g \in Handlers \ {h} : at'[g] = at[g] /\ op'[g] = op[g] /\ order'[g] = order[g]
      /\ \A o \in Orders \ {order[h]} : reservation'[o] = reservation[o]
  BY DEF IInv, TypeOK, CommitTx, Respond, Goto
<1>2. ASSUME NEW g \in Handlers, at'[g] \in Moving PROVE reservation'[order'[g]] = "HELD"
  <2>1. g # h /\ at[g] \in Moving /\ order'[g] = order[g] /\ order[g] \in Orders
    BY <1>1, <1>2 DEF Moving, IInv, TypeOK
  <2>2. reservation[order[g]] = "HELD"
    BY <2>1 DEF SerialInv
  <2>3. order[g] # order[h]
    <3>1. CASE reservation[order[h]] = "NONE"
      BY <2>2, <3>1
    <3>2. CASE at[h] = "settle"
      <4>1. op[g] # "reserve" /\ op[h] # "reserve"
        BY <2>1, <3>2 DEF IInv, TxInv, PlaceInv, Moving
      <4>2. QED
        BY <2>1, <3>2, <4>1 DEF SerialInv, Moving
    <3>3. QED
      BY <3>1, <3>2
  <2>4. QED
    BY <1>1, <2>1, <2>2, <2>3
<1>3. ASSUME NEW f \in Handlers, NEW g \in Handlers, g # f,
             at'[g] # "idle", at'[f] # "idle", op'[g] # "reserve", op'[f] # "reserve"
      PROVE  order'[g] # order'[f]
  BY <1>1, <1>3 DEF SerialInv
<1>4. QED
  BY <1>2, <1>3 DEF SerialInv

\* (what every step does to the ledger and to its callers)
LEMMA NextSerial ==
  ASSUME ~Overlap, IInv, SerialInv, [Next]_invVars
  PROVE  SerialInv'
<1>1. ASSUME NEW h \in Handlers, HandlerStep(h) \/ Abort(h) \/ DeadlockVictim(h) PROVE SerialInv'
  <2>1. CASE InsertReservation(h)
    BY <2>1, StepGoesOn, GoesOnSerial, CommitSerial DEF InsertReservation
  <2>2. CASE SettleReservation(h)
    BY <2>2, CommitSerial DEF SettleReservation
  <2>3. QED
    BY <1>1, <2>1, <2>2, StepGoesOn, GoesOnSerial DEF HandlerStep
<1>2. ASSUME NEW h \in Handlers, NEW o \in Orders, NEW operation \in Operations,
             Begin(h, o, operation)
      PROVE  SerialInv'
  BY <1>2, BeginSerial
<1>3. ASSUME NEW s \in Skus, NEW n \in 0..MaxStock, UpsertStock(s, n) PROVE SerialInv'
  BY <1>3 DEF UpsertStock, SerialInv
<1>4. CASE UNCHANGED invVars
  BY <1>4 DEF SerialInv, invVars, rows
<1>5. QED
  BY <1>1, <1>2, <1>3, <1>4 DEF Next

THEOREM SerialInvariantHolds ==
  ASSUME ~Overlap
  PROVE  Spec => []SerialInv
<1>1. Init => SerialInv
  BY DEF Init, SerialInv, Moving
<1>2. IInv /\ SerialInv /\ [Next]_invVars => SerialInv'
  BY NextSerial
<1>3. QED
  BY <1>1, <1>2, InventoryInvariantHolds, PTL DEF Spec

-----------------------------------------------------------------------------
(* The refinement, step by step.                                           *)

\* (a reserve commits: each line moves from available to reserved)
LEMMA InsertIsReserve ==
  ASSUME IInv, NEW h \in Handlers, at[h] = "insert", NEW o \in Orders, o = order[h],
         reservation[o] = "NONE", CommitTx(h, "HELD")
  PROVE  Ledger!Reserve(o, "OK")
<1>1. /\ op[h] = "reserve" /\ wrote[h] = Lines(o)
      /\ stock \in [Skus -> Row \cup {NoRow}]
  BY DEF IInv, TypeOK, TxInv, PlaceInv, Reserving, OwnLines
<1>2. ASSUME NEW s \in Skus
      PROVE  /\ Demand[o][s] <= stock[s].available
             /\ stock'[s].available = stock[s].available - Demand[o][s]
             /\ stock'[s].reserved = stock[s].reserved + Demand[o][s]
  <2>1. Demand[o][s] \in Nat /\ stock[s].available \in Nat /\ stock[s].reserved \in Nat
    BY <1>1, InventoryAssumption, RowVersions
  <2>2. CASE s \in wrote[h]
    <3>1. stock'[s] = Held(stock[s], Demand[o][s]) /\ Demand[o][s] <= stock[s].available
          /\ stock[s] \in Row
      BY <1>1, <2>2, NewRowFacts DEF CommitTx, Qty
    <3>2. /\ Held(stock[s], Demand[o][s]).available = stock[s].available - Demand[o][s]
          /\ Held(stock[s], Demand[o][s]).reserved = stock[s].reserved + Demand[o][s]
      <4>1. ASSUME NEW row \in Row, NEW qty \in Nat
            PROVE  /\ Held(row, qty).available = row.available - qty
                   /\ Held(row, qty).reserved = row.reserved + qty
        BY RowUpdates
      <4>2. QED
        BY <2>1, <3>1, <4>1
    <3>3. QED
      BY <3>1, <3>2
  <2>3. CASE s \notin wrote[h]
    <3>1. Demand[o][s] = 0
      BY <1>1, <2>1, <2>3 DEF Lines
    <3>2. stock'[s] = stock[s]
      BY <2>3 DEF CommitTx
    <3>3. QED
      BY <2>1, <3>1, <3>2
  <2>4. QED
    BY <2>2, <2>3
<1>3. Ledger!CanReserve(o)
  BY <1>2 DEF Ledger!CanReserve
<1>4. Ledger!Hold(o)
  BY <1>2 DEF Ledger!Hold, CommitTx
<1>5. QED
  BY <1>1, <1>3, <1>4 DEF Ledger!Reserve

\* (a transition commits while the reservation is still HELD)
LEMMA SettleIsTransition ==
  ASSUME IInv, SerialInv, NEW h \in Handlers, at[h] = "settle", CommitTx(h, op[h]),
         NEW o \in Orders, o = order[h], NEW target, target = op[h]
  PROVE  target \in Ledger!Targets /\ Ledger!Transition(o, target, "OK")
<1>1. /\ target \in {"RELEASED", "COMMITTED"} /\ wrote[h] = Lines(o)
      /\ stock \in [Skus -> Row \cup {NoRow}]
  BY DEF IInv, TypeOK, TxInv, PlaceInv, Moving, OwnLines, Operations
<1>2. reservation[o] = "HELD"
  BY DEF SerialInv, Moving
<1>3. ASSUME NEW s \in Skus
      PROVE  /\ stock'[s].available =
                  IF target = "RELEASED" THEN stock[s].available + Demand[o][s]
                  ELSE stock[s].available
             /\ stock'[s].reserved = stock[s].reserved - Demand[o][s]
  <2>1. Demand[o][s] \in Nat /\ stock[s].available \in Nat /\ stock[s].reserved \in Nat
    BY <1>1, InventoryAssumption, RowVersions
  <2>2. CASE s \in wrote[h]
    <3>1. stock'[s] = Unheld(stock[s], Demand[o][s], target) /\ stock[s] \in Row
      BY <1>1, <2>2, NewRowFacts DEF CommitTx, Qty
    <3>2. QED
      BY <2>1, <3>1, RowUpdates
  <2>3. CASE s \notin wrote[h]
    <3>1. Demand[o][s] = 0
      BY <1>1, <2>1, <2>3 DEF Lines
    <3>2. stock'[s] = stock[s]
      BY <2>3 DEF CommitTx
    <3>3. QED
      BY <2>1, <3>1, <3>2
  <2>4. QED
    BY <2>2, <2>3
<1>4. Ledger!Unhold(o, target)
  <2>1. CASE target = "RELEASED"
    BY <1>3, <2>1 DEF Ledger!Unhold, CommitTx
  <2>2. CASE target # "RELEASED"
    BY <1>3, <2>2 DEF Ledger!Unhold, CommitTx
  <2>3. QED
    BY <2>1, <2>2
<1>5. QED
  BY <1>1, <1>2, <1>4 DEF Ledger!Transition, Ledger!Targets

LEMMA UpsertIsSetStock ==
  ASSUME IInv, NEW s \in Skus, NEW n \in 0..MaxStock, UpsertStock(s, n)
  PROVE  Ledger!SetStock(s, n)
<1>1. stock \in [Skus -> Row \cup {NoRow}]
  BY DEF IInv, TypeOK
<1>2. /\ stock'[s] = [stock[s] EXCEPT !.available = n, !.version = @ + 1]
      /\ \A u \in Skus \ {s} : stock'[u] = stock[u]
  BY <1>1 DEF UpsertStock
<1>3. stock'[s].available = n /\ stock'[s].reserved = stock[s].reserved
  <2> DEFINE old == stock[s]
  <2>1. old \in [available : Nat, reserved : Nat, version : Int]
    BY <1>1, RowIsWide
  <2>2. stock'[s] = [old EXCEPT !.available = n, !.version = old.version + 1]
    BY <1>2
  <2> HIDE DEF old
  <2>3. LET new == [old EXCEPT !.available = n, !.version = old.version + 1] IN
          new.available = n /\ new.reserved = old.reserved
    BY <2>1
  <2>4. QED
    BY <2>2, <2>3 DEF old
<1>4. [u \in Skus |-> stock'[u].available] =
        [[u \in Skus |-> stock[u].available] EXCEPT ![s] = n]
  BY <1>2, <1>3
<1>5. [u \in Skus |-> stock'[u].reserved] = [u \in Skus |-> stock[u].reserved]
  BY <1>2, <1>3
<1>6. reservation' = reservation
  BY DEF UpsertStock
<1>7. QED
  BY <1>4, <1>5, <1>6 DEF Ledger!SetStock

LEMMA NextIsLedger ==
  ASSUME ~Overlap, IInv, SerialInv, [Next]_invVars
  PROVE  [Ledger!LedgerNext]_Ledger!ledgerVars
<1>1. ASSUME UNCHANGED rows PROVE UNCHANGED Ledger!ledgerVars
  BY <1>1 DEF rows, Ledger!ledgerVars
<1>2. ASSUME NEW h \in Handlers, HandlerStep(h) \/ Abort(h) \/ DeadlockVictim(h)
      PROVE  [Ledger!LedgerNext]_Ledger!ledgerVars
  <2>1. CASE at[h] = "insert" /\ reservation[order[h]] = "NONE" /\ CommitTx(h, "HELD")
    <3>1. PICK o \in Orders : o = order[h]
      BY DEF IInv, TypeOK
    <3>2. Ledger!Reserve(o, "OK")
      BY <2>1, <3>1, InsertIsReserve
    <3>3. QED
      BY <3>2 DEF Ledger!LedgerNext
  <2>2. CASE SettleReservation(h)
    <3>1. PICK o \in Orders : o = order[h]
      BY DEF IInv, TypeOK
    <3>2. PICK target \in Operations : target = op[h]
      BY DEF IInv, TypeOK
    <3>3. target \in Ledger!Targets /\ Ledger!Transition(o, target, "OK")
      BY <2>2, <3>1, <3>2, SettleIsTransition DEF SettleReservation
    <3>4. QED
      BY <3>3 DEF Ledger!LedgerNext
  <2>3. CASE UNCHANGED rows
    BY <1>1, <2>3
  <2>4. InsertReservation(h) =>
          \/ at[h] = "insert" /\ reservation[order[h]] = "NONE" /\ CommitTx(h, "HELD")
          \/ UNCHANGED rows
    BY DEF InsertReservation
  <2>5. QED
    BY <1>2, <2>1, <2>2, <2>3, <2>4, StepGoesOn DEF HandlerStep, GoesOn
<1>3. ASSUME NEW s \in Skus, NEW n \in 0..MaxStock, UpsertStock(s, n)
      PROVE  [Ledger!LedgerNext]_Ledger!ledgerVars
  BY <1>3, UpsertIsSetStock DEF Ledger!LedgerNext
<1>4. CASE UNCHANGED invVars
  BY <1>1, <1>4 DEF invVars
<1>5. ASSUME NEW h \in Handlers, NEW o \in Orders, NEW operation \in Operations,
             Begin(h, o, operation)
      PROVE  UNCHANGED rows
  BY <1>5 DEF Begin
<1>6. QED
  BY <1>1, <1>2, <1>3, <1>4, <1>5 DEF Next

LEMMA InitIsLedger == Init => Ledger!LedgerInit
<1> SUFFICES ASSUME Init PROVE Ledger!LedgerInit
  OBVIOUS
<1>1. \A s \in Skus : stock[s].available \in 0..MaxStock /\ stock[s].reserved = 0
  BY InventoryAssumption DEF Init, NoRow
<1>2. QED
  BY <1>1 DEF Ledger!LedgerInit, Init

(***************************************************************************)
(* Every transaction takes effect at its commit, in one step of the        *)
(* ledger, however the statements of other requests fall in between: the   *)
(* versioned updates make it so, as long as two transitions of one order   *)
(* do not overlap (inventory_repository.go, reserveOnce, transitionOnce).  *)
(***************************************************************************)
THEOREM TransactionsImplementLedger ==
  ASSUME ~Overlap
  PROVE  Spec => ImplementsLedger
<1>1. IInv /\ SerialInv /\ [Next]_invVars => [Ledger!LedgerNext]_Ledger!ledgerVars
  BY NextIsLedger
<1>2. QED
  BY <1>1, InitIsLedger, InventoryInvariantHolds, SerialInvariantHolds, PTL
  DEF Spec, ImplementsLedger, Ledger!LedgerSpec
-----------------------------------------------------------------------------
(* What the HELD reservations hold.                                        *)

Holding == {o \in Orders : reservation[o] = "HELD"}
LinesOf(s) == [o \in Orders |-> Demand[o][s]]

HeldInv ==
  /\ IsFiniteSet(Holding)
  /\ \A s \in Skus : stock[s].reserved = SumFunctionOnSet(LinesOf(s), Holding)

LEMMA HeldInvIsReservedIsHeld == HeldInv => ReservedIsHeld
<1>1. ASSUME NEW s \in Skus PROVE Ledger!HeldUnits(s) = SumFunctionOnSet(LinesOf(s), Holding)
  <2>1. ASSUME NEW f, NEW S
        PROVE  Ledger!SumFunctionOnSet(f, S) = SumFunctionOnSet(f, S)
    BY DEF Ledger!SumFunctionOnSet, Ledger!FoldFunctionOnSet, Ledger!MapThenFoldSet,
           SumFunctionOnSet, FoldFunctionOnSet, MapThenFoldSet
  <2>2. QED
    BY <2>1 DEF Ledger!HeldUnits, LinesOf, Holding
<1>2. QED
  BY <1>1 DEF HeldInv, ReservedIsHeld, Ledger!ReservedIsHeld

\* (one order joins or leaves those that hold stock)
LEMMA SumMoves ==
  ASSUME HeldInv, NEW o \in Orders, NEW s \in Skus
  PROVE  /\ SumFunctionOnSet(LinesOf(s), Holding) \in Int
         /\ IsFiniteSet(Holding \cup {o}) /\ IsFiniteSet(Holding \ {o})
         /\ o \notin Holding =>
              SumFunctionOnSet(LinesOf(s), Holding \cup {o}) = stock[s].reserved + Demand[o][s]
         /\ o \in Holding =>
              SumFunctionOnSet(LinesOf(s), Holding \ {o}) = stock[s].reserved - Demand[o][s]
<1> DEFINE f == LinesOf(s)
<1>1. \A p \in Orders : f[p] = Demand[p][s] /\ f[p] \in Int
  BY InventoryAssumption DEF LinesOf
<1>2. IsFiniteSet(Holding) /\ Holding \subseteq Orders /\ stock[s].reserved = SumFunctionOnSet(f, Holding)
  BY DEF HeldInv, Holding
<1> HIDE DEF f
<1>3. \A p \in Holding \cup {o} : f[p] \in Int
  BY <1>1, <1>2
<1>4. /\ SumFunctionOnSet(f, Holding) \in Int
      /\ IsFiniteSet(Holding \cup {o}) /\ IsFiniteSet(Holding \ {o})
      /\ o \notin Holding => SumFunctionOnSet(f, Holding \cup {o}) = SumFunctionOnSet(f, Holding) + f[o]
      /\ o \in Holding => SumFunctionOnSet(f, Holding \ {o}) = SumFunctionOnSet(f, Holding) - f[o]
  <2> DEFINE S == Holding
  <2>1. IsFiniteSet(S) /\ \A p \in S \cup {o} : f[p] \in Int
    BY <1>2, <1>3
  <2> HIDE DEF S
  <2>2. /\ SumFunctionOnSet(f, S) \in Int
        /\ IsFiniteSet(S \cup {o}) /\ IsFiniteSet(S \ {o})
        /\ o \notin S => SumFunctionOnSet(f, S \cup {o}) = SumFunctionOnSet(f, S) + f[o]
        /\ o \in S => SumFunctionOnSet(f, S \ {o}) = SumFunctionOnSet(f, S) - f[o]
    BY <2>1, SumJoinsAndLeaves
  <2>3. QED
    BY <2>2 DEF S
<1>5. /\ SumFunctionOnSet(f, Holding) \in Int
      /\ IsFiniteSet(Holding \cup {o}) /\ IsFiniteSet(Holding \ {o})
      /\ o \notin Holding => SumFunctionOnSet(f, Holding \cup {o}) = stock[s].reserved + Demand[o][s]
      /\ o \in Holding => SumFunctionOnSet(f, Holding \ {o}) = stock[s].reserved - Demand[o][s]
  BY <1>1, <1>2, <1>4
<1>6. QED
  BY <1>5 DEF f

\* (the bookkeeping survives each step of the ledger)
LEMMA HoldStep ==
  ASSUME TypeOK, HeldInv, NEW o \in Orders, reservation[o] = "NONE", Ledger!Hold(o)
  PROVE  HeldInv'
<1>1. Holding' = Holding \cup {o} /\ o \notin Holding
  BY DEF TypeOK, Holding, Ledger!Hold
<1>2. \A s \in Skus : stock'[s].reserved = stock[s].reserved + Demand[o][s]
  BY DEF Ledger!Hold
<1>3. IsFiniteSet(Holding')
  BY <1>1, FS_AddElement DEF HeldInv
<1>4. ASSUME NEW s \in Skus
      PROVE  stock'[s].reserved = SumFunctionOnSet(LinesOf(s), Holding')
  BY <1>1, <1>2, SumMoves
<1>5. QED
  BY <1>3, <1>4 DEF HeldInv, LinesOf

LEMMA UnholdStep ==
  ASSUME TypeOK, HeldInv, NEW o \in Orders, NEW target \in Ledger!Targets,
         reservation[o] = "HELD", Ledger!Unhold(o, target)
  PROVE  HeldInv'
<1>1. Holding' = Holding \ {o} /\ o \in Holding
  BY DEF TypeOK, Holding, Ledger!Unhold, Ledger!Targets
<1>2. \A s \in Skus : stock'[s].reserved = stock[s].reserved - Demand[o][s]
  BY DEF Ledger!Unhold
<1>3. IsFiniteSet(Holding')
  BY <1>1, FS_RemoveElement DEF HeldInv
<1>4. ASSUME NEW s \in Skus
      PROVE  stock'[s].reserved = SumFunctionOnSet(LinesOf(s), Holding')
  BY <1>1, <1>2, SumMoves
<1>5. QED
  BY <1>3, <1>4 DEF HeldInv, LinesOf

LEMMA LedgerStepKeepsHeld ==
  ASSUME TypeOK, HeldInv, [Ledger!LedgerNext]_Ledger!ledgerVars
  PROVE  HeldInv'
<1>1. ASSUME reservation' = reservation,
             [s \in Skus |-> stock[s].reserved]' = [s \in Skus |-> stock[s].reserved]
      PROVE  HeldInv'
  <2>1. \A s \in Skus : stock'[s].reserved = stock[s].reserved
    BY <1>1
  <2>2. QED
    BY <1>1, <2>1 DEF HeldInv, Holding, LinesOf
<1>2. CASE UNCHANGED Ledger!ledgerVars
  BY <1>1, <1>2 DEF Ledger!ledgerVars
<1>3. ASSUME NEW o \in Orders, NEW r, Ledger!Reserve(o, r) PROVE HeldInv'
  BY <1>2, <1>3, HoldStep DEF Ledger!Reserve
<1>4. ASSUME NEW o \in Orders, NEW target \in Ledger!Targets, NEW r, Ledger!Transition(o, target, r)
      PROVE  HeldInv'
  BY <1>2, <1>4, UnholdStep DEF Ledger!Transition
<1>5. ASSUME NEW s \in Skus, NEW n \in 0..MaxStock, Ledger!SetStock(s, n) PROVE HeldInv'
  BY <1>1, <1>5 DEF Ledger!SetStock
<1>6. QED
  BY <1>2, <1>3, <1>4, <1>5 DEF Ledger!LedgerNext

LEMMA InitHeldInv == Init => HeldInv
<1> SUFFICES ASSUME Init PROVE HeldInv
  OBVIOUS
<1>1. Holding = {} /\ \A s \in Skus : stock[s].reserved = 0
  BY InventoryAssumption DEF Init, Holding, NoRow
<1>2. QED
  BY <1>1, SumEmpty, FS_EmptySet DEF HeldInv

(***************************************************************************)
(* The reserved column of a SKU is the sum of what the HELD reservations   *)
(* hold of it, for any orders, lines and number of handlers, as long as    *)
(* two transitions of one order do not overlap (run inventory_double shows *)
(* what happens when they do).                                             *)
(***************************************************************************)
THEOREM TransactionsKeepTheBooks ==
  ASSUME ~Overlap
  PROVE  Spec => []ReservedIsHeld
<1>1. IInv /\ SerialInv /\ HeldInv /\ [Next]_invVars => HeldInv'
  BY NextIsLedger, LedgerStepKeepsHeld DEF IInv
<1>2. QED
  BY <1>1, InitHeldInv, HeldInvIsReservedIsHeld, InventoryInvariantHolds, SerialInvariantHolds, PTL
  DEF Spec
=============================================================================
