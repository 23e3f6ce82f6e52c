--------------------------- MODULE InventoryLedger ---------------------------
(***************************************************************************)
(* What the Inventory service promises its callers as long as no two       *)
(* transitions of one reservation overlap: every reserve, release and      *)
(* commit of an order, and every stock correction, takes effect atomically *)
(* on one ledger.  The reservation is keyed by the order.                  *)
(*                                                                         *)
(* Abstracted: reservation ids, timestamps, row versions and retries; a    *)
(* SKU that has no row is a SKU with nothing available (both decline a     *)
(* reservation for good).  The transactions behind the promise, and what   *)
(* becomes of it when transitions do overlap, are in Inventory.tla; Saga   *)
(* makes its calls in two steps, out of the operators below, since there   *)
(* they may.                                                               *)
(***************************************************************************)
EXTENDS Domain, Integers, Functions

CONSTANTS
  Skus,      \* stock keeping units
  Demand,    \* Demand[o][s]: units of s the lines of o ask for (0: no line)
  MaxStock   \* bound: the largest value a stock correction writes

ASSUME LedgerAssumption ==
  /\ Demand \in [Orders -> [Skus -> Nat]]
  /\ MaxStock \in Nat

VARIABLES
  available,    \* stock_items.available
  reserved,     \* stock_items.reserved
  reservation   \* reservations.status of an order, "NONE" when it has no row

ledgerVars == <<available, reserved, reservation>>

ReservationStatus == {"NONE", "HELD", "RELEASED", "COMMITTED"}
Targets == {"RELEASED", "COMMITTED"}

LedgerTypeOK ==
  /\ available \in [Skus -> Nat]
  /\ reserved \in [Skus -> Int]
  /\ reservation \in [Orders -> ReservationStatus]

LedgerInit ==
  /\ available \in [Skus -> 0..MaxStock]
  /\ reserved = [s \in Skus |-> 0]
  /\ reservation = [o \in Orders |-> "NONE"]

-----------------------------------------------------------------------------
\* (mutant: one unit too many)
CanReserveOneMore(o) == \A s \in Skus : Demand[o][s] <= available[s] + 1

\* Every line of the order fits in what is available (all or nothing).
CanReserve(o) == \A s \in Skus : Demand[o][s] <= available[s]

Hold(o) ==
  /\ available' = [s \in Skus |-> available[s] - Demand[o][s]]
  /\ reserved' = [s \in Skus |-> reserved[s] + Demand[o][s]]
  /\ reservation' = [reservation EXCEPT ![o] = "HELD"]

\* POST /v1/reservations.  A repeated call answers with the reservation that
\* exists, whatever its status; a decline leaves no trace.
Reserve(o, reply) ==
  \/ /\ reservation[o] # "NONE"
     /\ reply = "OK"
     /\ UNCHANGED ledgerVars
  \/ /\ reservation[o] = "NONE"
     /\ CanReserve(o)
     /\ reply = "OK"
     /\ Hold(o)
  \/ /\ reservation[o] = "NONE"
     /\ ~CanReserve(o)
     /\ reply = "DECLINED"
     /\ UNCHANGED ledgerVars

\* The stock is taken; the INSERT of a reservation that another call inserted
\* meanwhile fails, and with it what was taken is put back.
Take(o) ==
  \/ reservation[o] = "NONE" /\ Hold(o)
  \/ reservation[o] # "NONE" /\ UNCHANGED ledgerVars

\* The held units leave the ledger (commit) or go back on sale (release).
Unhold(o, target) ==
  /\ reserved' = [s \in Skus |-> reserved[s] - Demand[o][s]]
  /\ available' = IF target = "RELEASED"
                  THEN [s \in Skus |-> available[s] + Demand[o][s]]
                  ELSE available
  /\ reservation' = [reservation EXCEPT ![o] = target]

\* An update of the ledger refuses to take more than what is reserved.
CanUnhold(o) == \A s \in Skus : Demand[o][s] <= reserved[s]

\* A transition is answered from the status alone unless that is HELD.
AnsweredByStatus(o, target, reply) ==
  \/ reservation[o] = target /\ reply = "OK"
  \/ reservation[o] \in Targets \ {target} /\ reply = "INVALID_STATE"
  \/ reservation[o] = "NONE" /\ reply = "NOT_FOUND"

\* POST /v1/reservations/{order}/release and .../commit.
Transition(o, target, reply) ==
  \/ /\ reservation[o] = "HELD"
     /\ reply = "OK"
     /\ Unhold(o, target)
  \/ /\ AnsweredByStatus(o, target, reply)
     /\ UNCHANGED ledgerVars

\* PUT /v1/stock/{sku}: overwrites what is available, leaves what is reserved.
SetStock(s, n) ==
  /\ available' = [available EXCEPT ![s] = n]
  /\ UNCHANGED <<reserved, reservation>>

LedgerNext ==
  \/ \E o \in Orders, r \in {"OK", "DECLINED"} : Reserve(o, r)
  \/ \E o \in Orders, t \in Targets, r \in {"OK", "INVALID_STATE", "NOT_FOUND"} :
       Transition(o, t, r)
  \/ \E s \in Skus, n \in 0..MaxStock : SetStock(s, n)

LedgerSpec == LedgerInit /\ [][LedgerNext]_ledgerVars

-----------------------------------------------------------------------------
\* Units of s that the orders with a HELD reservation hold between them.
HeldUnits(s) ==
  SumFunctionOnSet([o \in Orders |-> Demand[o][s]],
                   {o \in Orders : reservation[o] = "HELD"})

(***************************************************************************)
(* The reserved column of a SKU is exactly what the HELD reservations hold *)
(* of it: no unit is returned or shipped twice, none is forgotten, whatever *)
(* order reserves, releases, commits and corrections come in.              *)
(***************************************************************************)
ReservedIsHeld == \A s \in Skus : reserved[s] = HeldUnits(s)
=============================================================================
