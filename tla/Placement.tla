------------------------------ MODULE Placement ------------------------------
(***************************************************************************)
(* POST /v1/orders: requests that carry an idempotency key, the key's      *)
(* reservation in a statement of its own, the aggregate built afterwards,  *)
(* and the transaction that saves its first event and outbox row.          *)
(*                                                                         *)
(* Every request generates a fresh order id before it reserves the key, so *)
(* an order is identified with the request that generated its id; what a   *)
(* request answers may be the id of another.                               *)
(*                                                                         *)
(* Abstracted: addresses, customers and every check made before the key is *)
(* reserved (a request that fails one leaves no trace).  An item is its    *)
(* quantity and unit price; a body is sound when no SKU repeats and all    *)
(* items have one currency, which is checked after the key is reserved.    *)
(***************************************************************************)
EXTENDS OrderStore, FiniteSets

Sequence == INSTANCE SequencesExt

CONSTANTS
  Keys,       \* idempotency keys clients use
  Bodies,     \* request bodies: [items, sound]
  NoOrder,    \* answer of a request that has none
  Half        \* 2^(w-1) for amounts of w bits

ASSUME PlacementAssumption ==
  /\ Keys # {} /\ Bodies # {}
  /\ NoOrder \notin Orders
  /\ Half \in Nat \ {0}
  /\ \A b \in Bodies :
       /\ b.items \in Seq([quantity : Nat \ {0}, price : 0..(Half - 1)]) \ {<< >>}
       /\ b.sound \in BOOLEAN

VARIABLES
  holder,     \* holder[k]: order id stored with idempotency key k
  request,    \* request[o]: the request that generated the id o
  answer,     \* answer[o]: the order id this request was answered with
  total       \* total[o]: total of the order placed, in minor units

placementVars == <<storeVars, holder, request, answer, total>>

RequestStage == {"none", "reserve", "save", "done"}
Request == [stage : RequestStage, key : Keys, body : Bodies]

\* Not yet sent; its key and body are arbitrary.
NoRequest == [stage |-> "none", key |-> CHOOSE k \in Keys : TRUE,
              body |-> CHOOSE b \in Bodies : TRUE]

PlacementTypeOK ==
  /\ StoreTypeOK
  /\ holder \in [Keys -> Orders \cup {NoOrder}]
  /\ request \in [Orders -> Request]
  /\ answer \in [Orders -> Orders \cup {NoOrder}]
  /\ total \in [Orders -> -Half..(Half - 1)]

PlacementInit ==
  /\ StoreInit
  /\ holder = [k \in Keys |-> NoOrder]
  /\ request = [o \in Orders |-> NoRequest]
  /\ answer = [o \in Orders |-> NoOrder]
  /\ total = [o \in Orders |-> 0]

-----------------------------------------------------------------------------
(* Amounts: int64 products and sums, which wrap.                           *)

Wrap(n) == ((n + Half) % (2 * Half)) - Half

LineTotal(item) == Wrap(item.price * item.quantity)

\* (mutant: the sum starts from the price of the first item)
TotalFromFirst(items) ==
  Sequence!FoldLeft(LAMBDA sum, item : Wrap(sum + LineTotal(item)), items[1].price, items)

\* Money.Add over the line totals.
Total(items) == Sequence!FoldLeft(LAMBDA sum, item : Wrap(sum + LineTotal(item)), 0, items)

\* What the customer should pay, in unbounded integers.
ExactTotal(items) ==
  Sequence!FoldLeft(LAMBDA sum, item : sum + item.price * item.quantity, 0, items)

\* decodeEvent rebuilds the total with NewMoney, which rejects negative ones:
\* an order with a negative total is stored and can never be loaded again.
Loadable(o) == total[o] >= 0

-----------------------------------------------------------------------------
(* Handle.                                                                 *)

Goto(o, stage) == request' = [request EXCEPT ![o].stage = stage]

Receive(o, k, b) ==
  /\ request[o].stage = "none"
  /\ request' = [request EXCEPT ![o] = [stage |-> "reserve", key |-> k, body |-> b]]
  /\ UNCHANGED <<storeVars, holder, answer, total>>

\* (mutant: the key is looked up but the insert overwrites)
ReserveKeyAnyway(o) ==
  /\ request[o].stage = "reserve"
  /\ holder' = [holder EXCEPT ![request[o].key] = o]
  /\ Goto(o, "save")
  /\ UNCHANGED <<storeVars, answer, total>>

\* IdempotencyStore.Reserve: INSERT ... ON CONFLICT DO NOTHING, and the stored
\* id as the answer when the key was taken; the bodies are not compared, nor
\* is it looked whether the order exists.
ReserveKey(o) ==
  LET k == request[o].key IN
  /\ request[o].stage = "reserve"
  /\ \/ /\ holder[k] = NoOrder
        /\ holder' = [holder EXCEPT ![k] = o]
        /\ Goto(o, "save")
        /\ UNCHANGED answer
     \/ /\ holder[k] # NoOrder
        /\ answer' = [answer EXCEPT ![o] = holder[k]]
        /\ Goto(o, "done")
        /\ UNCHANGED holder
  /\ UNCHANGED <<storeVars, total>>

\* order.PlaceOrder rejects the body, or the order is saved.
SaveOrder(o) ==
  LET body == request[o].body IN
  /\ request[o].stage = "save"
  /\ \/ /\ body.sound
        /\ Place(o)
        /\ total' = [total EXCEPT ![o] = Total(body.items)]
        /\ answer' = [answer EXCEPT ![o] = o]
     \/ /\ ~body.sound
        /\ UNCHANGED <<storeVars, total, answer>>
  /\ Goto(o, "done")
  /\ UNCHANGED holder

\* A crash or a failed statement; a key reserved stays reserved.
FailRequest(o) ==
  /\ request[o].stage \in {"reserve", "save"}
  /\ Goto(o, "done")
  /\ UNCHANGED <<storeVars, holder, answer, total>>

PlacementNext ==
  \E o \in Orders :
    \/ \E k \in Keys, b \in Bodies : Receive(o, k, b)
    \/ ReserveKey(o) \/ SaveOrder(o) \/ FailRequest(o)

-----------------------------------------------------------------------------
Placed(o) == events[o] # << >>

(***************************************************************************)
(* However often and in whatever order requests with one key arrive, fail  *)
(* and are repeated, at most one order is placed under it, and every       *)
(* request that is answered is told of that order's id.                    *)
(***************************************************************************)
OneOrderPerKey ==
  \A o, p \in Orders :
    request[o].key = request[p].key =>
      /\ Placed(o) /\ Placed(p) => o = p
      /\ answer[o] # NoOrder /\ answer[p] # NoOrder => answer[o] = answer[p]
      /\ answer[o] # NoOrder /\ Placed(p) => answer[o] = p

(***************************************************************************)
(* As long as the true total fits the integer, the stored total is the     *)
(* true one and the order can be loaded.  (Beyond it the total wraps: the  *)
(* sum is not checked.)                                                    *)
(***************************************************************************)
TotalIsExactInRange ==
  \A o \in Orders :
    Placed(o) /\ ExactTotal(request[o].body.items) < Half =>
      Loadable(o) /\ total[o] = ExactTotal(request[o].body.items)
=============================================================================
