----------------------------- MODULE OrderStore -----------------------------
(***************************************************************************)
(* The order service's write side: the event-sourced order aggregate, its  *)
(* event store with optimistic concurrency on (order, version), and the    *)
(* outbox rows written in the same transaction.                            *)
(*                                                                         *)
(* Abstracted: the payload of an event (who ordered what, reasons, times); *)
(* an event is its type.  The outbox is the sequence of its rows in id     *)
(* order, and "relayed" counts the rows marked as published.               *)
(***************************************************************************)
EXTENDS Domain, Integers, Sequences

VARIABLES
  events,    \* events[o]: event types of o by version
  outbox,    \* rows of the outbox, oldest first
  relayed    \* number of rows whose published_at is set

storeVars == <<events, outbox, relayed>>

Decisions == {"order.confirmed", "order.cancelled"}
EventTypes == {"order.placed"} \cup Decisions

OutboxRow == [type : EventTypes, order : Orders]

StoreTypeOK ==
  /\ events \in [Orders -> Seq(EventTypes)]
  /\ outbox \in Seq(OutboxRow)
  /\ relayed \in 0..Len(outbox)

StoreInit ==
  /\ events = [o \in Orders |-> << >>]
  /\ outbox = << >>
  /\ relayed = 0

-----------------------------------------------------------------------------
\* Rehydrate: each event type sets the status, so the last one decides.
Status(history) ==
  IF history = << >> THEN "NOT_FOUND"
  ELSE CASE history[Len(history)] = "order.placed"    -> "PENDING"
         [] history[Len(history)] = "order.confirmed" -> "CONFIRMED"
         [] history[Len(history)] = "order.cancelled" -> "CANCELLED"

\* The status a decision leads to.
StatusOf(decision) ==
  IF decision = "order.confirmed" THEN "CONFIRMED" ELSE "CANCELLED"

\* Order.Confirm and Order.Cancel: raise the event, do nothing, or fail.
MayRaise(status) == status = "PENDING"
\* (mutant: any decision counts as the one asked for)
AlreadyDecidedEither(status, decision) == status # "PENDING"

AlreadyDecided(status, decision) == status = StatusOf(decision)

\* (mutant: no constraint, any version loaded will do)
VersionAny(o, expected) == expected <= Len(events[o])

\* The unique (order_id, version) constraint admits the next version only.
VersionFree(o, expected) == Len(events[o]) = expected

\* OrderRepository.Save: the event and its outbox row in one transaction.
Record(o, type) ==
  /\ events' = [events EXCEPT ![o] = Append(@, type)]
  /\ outbox' = Append(outbox, [type |-> type, order |-> o])
  /\ UNCHANGED relayed

\* A client places the order; its id is fresh.
Place(o) ==
  /\ events[o] = << >>
  /\ Record(o, "order.placed")

\* The rows DrainBatch sends when it gets through k of the unmarked ones.
Batch(k) == SubSeq(outbox, relayed + 1, relayed + k)

\* The batch is marked published in the transaction that read it; rows sent
\* before an error or a crash stay unmarked.
MarkRelayed(k) ==
  /\ relayed' = relayed + k
  /\ UNCHANGED <<events, outbox>>

-----------------------------------------------------------------------------
IsDecided(o) == Status(events[o]) \in {"CONFIRMED", "CANCELLED"}

(***************************************************************************)
(* An order's history is its placement and at most one decision: however   *)
(* many orchestrators act on it, it is never both confirmed and cancelled, *)
(* confirmed twice or decided before it was placed (order.go Confirm and   *)
(* Cancel, and the version constraint Save relies on).                     *)
(***************************************************************************)
OneDecision ==
  \A o \in Orders :
    \/ events[o] = << >>
    \/ events[o] = <<"order.placed">>
    \/ \E d \in Decisions : events[o] = <<"order.placed", d>>
=============================================================================
