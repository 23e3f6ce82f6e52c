------------------------ MODULE InventoryLedgerProofs ------------------------
(***************************************************************************)
(* Theorems about InventoryLedger, for any orders, SKUs and demands.       *)
(***************************************************************************)
EXTENDS InventoryLedger, SumProofs

-----------------------------------------------------------------------------
(* The ledger.                                                             *)

(***************************************************************************)
(* Each operation of the service keeps the ledger well typed.              *)
(***************************************************************************)
LEMMA ReserveTyped ==
  ASSUME LedgerTypeOK, NEW o \in Orders, NEW reply, Reserve(o, reply)
  PROVE  LedgerTypeOK'
BY LedgerAssumption
   DEF LedgerTypeOK, ReservationStatus, Reserve, CanReserve, Hold, ledgerVars

LEMMA TakeTyped ==
  ASSUME LedgerTypeOK, NEW o \in Orders, CanReserve(o), Take(o)
  PROVE  LedgerTypeOK'
<1>1. reservation[o] = "NONE" => Reserve(o, "OK")
  BY DEF Take, Reserve
<1>2. reservation[o] # "NONE" => UNCHANGED ledgerVars
  BY DEF Take
<1> QED
  BY <1>1, <1>2, ReserveTyped DEF LedgerTypeOK, ledgerVars

LEMMA UnholdTyped ==
  ASSUME LedgerTypeOK, NEW o \in Orders, NEW target \in Targets, Unhold(o, target)
  PROVE  LedgerTypeOK'
<1>1. \A s \in Skus : Demand[o][s] \in Nat
  BY LedgerAssumption
<1>2. available' \in [Skus -> Nat]
  BY <1>1 DEF LedgerTypeOK, Unhold
<1>3. reserved' \in [Skus -> Int]
  BY <1>1 DEF LedgerTypeOK, Unhold
<1>4. reservation' \in [Orders -> ReservationStatus]
  BY DEF LedgerTypeOK, Unhold, ReservationStatus, Targets
<1> QED
  BY <1>2, <1>3, <1>4 DEF LedgerTypeOK

LEMMA TransitionTyped ==
  ASSUME LedgerTypeOK, NEW o \in Orders, NEW target \in Targets, NEW reply,
         Transition(o, target, reply)
  PROVE  LedgerTypeOK'
<1>1. CASE Unhold(o, target)
  BY <1>1, UnholdTyped
<1>2. CASE UNCHANGED ledgerVars
  BY <1>2 DEF LedgerTypeOK, ledgerVars
<1> QED
  BY <1>1, <1>2 DEF Transition

LEMMA SetStockTyped ==
  ASSUME LedgerTypeOK, NEW s \in Skus, NEW n \in 0..MaxStock, SetStock(s, n)
  PROVE  LedgerTypeOK'
BY LedgerAssumption DEF LedgerTypeOK, SetStock

(***************************************************************************)
(* Stock never goes below zero and the columns keep their types: a         *)
(* reservation is granted only when every line fits (StockItem.Reserve).   *)
(***************************************************************************)
THEOREM LedgerTypeCorrect == LedgerSpec => []LedgerTypeOK
<1>1. LedgerInit => LedgerTypeOK
  BY LedgerAssumption DEF LedgerInit, LedgerTypeOK, ReservationStatus
<1>2. LedgerTypeOK /\ [LedgerNext]_ledgerVars => LedgerTypeOK'
  <2>1. LedgerTypeOK /\ LedgerNext => LedgerTypeOK'
    BY ReserveTyped, TransitionTyped, SetStockTyped DEF LedgerNext
  <2>2. LedgerTypeOK /\ UNCHANGED ledgerVars => LedgerTypeOK'
    BY DEF LedgerTypeOK, ledgerVars
  <2> QED
    BY <2>1, <2>2
<1> QED
  BY <1>1, <1>2, PTL DEF LedgerSpec

-----------------------------------------------------------------------------
(* What the HELD reservations hold.                                        *)

HeldOrders == {o \in Orders : reservation[o] = "HELD"}

\* There may be any number of orders: those that hold stock are finitely many.
HeldInv == LedgerTypeOK /\ IsFiniteSet(HeldOrders) /\ ReservedIsHeld

\* (the sum of the lines of s over finitely many orders)
LEMMA DemandSum ==
  ASSUME NEW s \in Skus, NEW S \in SUBSET Orders, IsFiniteSet(S)
  PROVE  LET f == [o \in Orders |-> Demand[o][s]] IN
           /\ SumFunctionOnSet(f, S) \in Int
           /\ \A o \in S : /\ SumFunctionOnSet(f, S \ {o}) \in Int
                           /\ SumFunctionOnSet(f, S) = Demand[o][s] + SumFunctionOnSet(f, S \ {o})
<1> DEFINE f == [o \in Orders |-> Demand[o][s]]
<1>1. \A o \in Orders : f[o] = Demand[o][s] /\ f[o] \in Int
  BY LedgerAssumption
<1> HIDE DEF f
<1>2. /\ SumFunctionOnSet(f, S) \in Int
      /\ \A o \in S : SumFunctionOnSet(f, S) = f[o] + SumFunctionOnSet(f, S \ {o})
  BY <1>1, SumWithout
<1>3. ASSUME NEW o \in S PROVE SumFunctionOnSet(f, S \ {o}) \in Int
  <2>1. IsFiniteSet(S \ {o})
    BY FS_RemoveElement
  <2>2. QED
    BY <1>1, <2>1, SumWithout
<1>4. /\ SumFunctionOnSet(f, S) \in Int
      /\ \A o \in S : /\ SumFunctionOnSet(f, S \ {o}) \in Int
                      /\ SumFunctionOnSet(f, S) = Demand[o][s] + SumFunctionOnSet(f, S \ {o})
  BY <1>1, <1>2, <1>3
<1>5. QED
  BY <1>4 DEF f

\* (an order without a reservation takes one)
LEMMA HoldKeepsHeld ==
  ASSUME HeldInv, NEW o \in Orders, reservation[o] = "NONE", CanReserve(o), Hold(o)
  PROVE  IsFiniteSet(HeldOrders') /\ ReservedIsHeld'
<1>1. HeldOrders' = HeldOrders \cup {o} /\ HeldOrders = HeldOrders' \ {o} /\ o \in HeldOrders'
  BY DEF HeldInv, LedgerTypeOK, HeldOrders, Hold
<1>2. IsFiniteSet(HeldOrders') /\ HeldOrders' \in SUBSET Orders
  BY <1>1, FS_AddElement DEF HeldInv, HeldOrders
<1>3. ASSUME NEW s \in Skus PROVE reserved'[s] = HeldUnits(s)'
  <2> DEFINE f == [p \in Orders |-> Demand[p][s]]
  <2>1. /\ SumFunctionOnSet(f, HeldOrders) \in Int
        /\ SumFunctionOnSet(f, HeldOrders') = Demand[o][s] + SumFunctionOnSet(f, HeldOrders)
    <3>1. /\ SumFunctionOnSet(f, HeldOrders' \ {o}) \in Int
          /\ SumFunctionOnSet(f, HeldOrders') =
               Demand[o][s] + SumFunctionOnSet(f, HeldOrders' \ {o})
      BY <1>1, <1>2, DemandSum
    <3>2. SumFunctionOnSet(f, HeldOrders' \ {o}) = SumFunctionOnSet(f, HeldOrders)
      BY <1>1
    <3>3. QED
      BY <3>1, <3>2
  <2>2. /\ reserved[s] = SumFunctionOnSet(f, HeldOrders)
        /\ HeldUnits(s)' = SumFunctionOnSet(f, HeldOrders')
    BY DEF HeldInv, ReservedIsHeld, HeldUnits, HeldOrders
  <2>3. reserved'[s] = reserved[s] + Demand[o][s] /\ Demand[o][s] \in Int
    BY LedgerAssumption DEF Hold
  <2> HIDE DEF f
  <2>4. QED
    BY <2>1, <2>2, <2>3
<1>4. QED
  BY <1>2, <1>3 DEF ReservedIsHeld

\* (a HELD reservation is released or committed)
LEMMA UnholdKeepsHeld ==
  ASSUME HeldInv, NEW o \in Orders, NEW target \in Targets, reservation[o] = "HELD",
         Unhold(o, target)
  PROVE  IsFiniteSet(HeldOrders') /\ ReservedIsHeld'
<1>1. HeldOrders' = HeldOrders \ {o} /\ o \in HeldOrders
  BY DEF HeldInv, LedgerTypeOK, HeldOrders, Unhold, Targets
<1>2. /\ IsFiniteSet(HeldOrders') /\ IsFiniteSet(HeldOrders) /\ HeldOrders \in SUBSET Orders
  BY <1>1, FS_RemoveElement DEF HeldInv, HeldOrders
<1>3. ASSUME NEW s \in Skus PROVE reserved'[s] = HeldUnits(s)'
  <2> DEFINE f == [p \in Orders |-> Demand[p][s]]
  <2>1. /\ SumFunctionOnSet(f, HeldOrders') \in Int
        /\ SumFunctionOnSet(f, HeldOrders) = Demand[o][s] + SumFunctionOnSet(f, HeldOrders')
    BY <1>1, <1>2, DemandSum
  <2>2. /\ reserved[s] = SumFunctionOnSet(f, HeldOrders)
        /\ HeldUnits(s)' = SumFunctionOnSet(f, HeldOrders')
    BY DEF HeldInv, ReservedIsHeld, HeldUnits, HeldOrders
  <2>3. reserved'[s] = reserved[s] - Demand[o][s] /\ Demand[o][s] \in Int
    BY LedgerAssumption DEF Unhold
  <2> HIDE DEF f
  <2>4. QED
    BY <2>1, <2>2, <2>3
<1>4. QED
  BY <1>2, <1>3 DEF ReservedIsHeld

\* (nothing is taken or given back)
LEMMA HeldStays ==
  ASSUME HeldInv, UNCHANGED <<reserved, reservation>>
  PROVE  IsFiniteSet(HeldOrders') /\ ReservedIsHeld'
BY DEF HeldInv, HeldOrders, ReservedIsHeld, HeldUnits

\* (every operation keeps it)
LEMMA LedgerStepHeld ==
  ASSUME HeldInv, [LedgerNext]_ledgerVars
  PROVE  HeldInv'
<1>1. LedgerTypeOK'
  BY ReserveTyped, TransitionTyped, SetStockTyped
  DEF LedgerNext, HeldInv, LedgerTypeOK, ledgerVars
<1>2. CASE \E o \in Orders, r \in {"OK", "DECLINED"} : Reserve(o, r)
  <2>1. PICK o \in Orders, r \in {"OK", "DECLINED"} : Reserve(o, r)
    BY <1>2
  <2>2. CASE reservation[o] = "NONE" /\ CanReserve(o) /\ Hold(o)
    BY <1>1, <2>2, HoldKeepsHeld DEF HeldInv
  <2>3. CASE UNCHANGED ledgerVars
    BY <1>1, <2>3, HeldStays DEF HeldInv, ledgerVars
  <2>4. QED
    BY <2>1, <2>2, <2>3 DEF Reserve
<1>3. CASE \E o \in Orders, t \in Targets, r \in {"OK", "INVALID_STATE", "NOT_FOUND"} :
             Transition(o, t, r)
  <2>1. PICK o \in Orders, t \in Targets, r \in {"OK", "INVALID_STATE", "NOT_FOUND"} :
          Transition(o, t, r)
    BY <1>3
  <2>2. CASE reservation[o] = "HELD" /\ Unhold(o, t)
    BY <1>1, <2>2, UnholdKeepsHeld DEF HeldInv
  <2>3. CASE UNCHANGED ledgerVars
    BY <1>1, <2>3, HeldStays DEF HeldInv, ledgerVars
  <2>4. QED
    BY <2>1, <2>2, <2>3 DEF Transition
<1>4. CASE \E s \in Skus, n \in 0..MaxStock : SetStock(s, n)
  BY <1>1, <1>4, HeldStays DEF HeldInv, SetStock
<1>5. CASE UNCHANGED ledgerVars
  BY <1>1, <1>5, HeldStays DEF HeldInv, ledgerVars
<1>6. QED
  BY <1>2, <1>3, <1>4, <1>5 DEF LedgerNext

\* (nothing is held at first)
LEMMA LedgerInitHeld == LedgerInit => HeldInv
<1> SUFFICES ASSUME LedgerInit PROVE HeldInv
  OBVIOUS
<1>1. LedgerTypeOK
  BY LedgerAssumption DEF LedgerInit, LedgerTypeOK, ReservationStatus
<1>2. HeldOrders = {}
  BY DEF LedgerInit, HeldOrders
<1>3. \A s \in Skus : HeldUnits(s) = 0
  BY <1>2, SumEmpty DEF HeldUnits, HeldOrders
<1>4. QED
  BY <1>1, <1>2, <1>3, FS_EmptySet DEF HeldInv, ReservedIsHeld, LedgerInit

(***************************************************************************)
(* For any orders, SKUs and lines, the reserved column of a SKU is the sum *)
(* of what the HELD reservations hold of it: no sequence of calls returns  *)
(* or ships a unit twice or forgets one.                                   *)
(***************************************************************************)
THEOREM LedgerReservedIsHeld == LedgerSpec => []ReservedIsHeld
<1>1. HeldInv => ReservedIsHeld
  BY DEF HeldInv
<1>2. QED
  BY <1>1, LedgerInitHeld, LedgerStepHeld, PTL DEF LedgerSpec
=============================================================================
