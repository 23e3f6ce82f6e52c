-------------------------- MODULE OrderStoreProofs --------------------------
(***************************************************************************)
(* Lemmas about the order store that the proofs of its users share: what   *)
(* Rehydrate makes of a history, and what appending to one does.           *)
(***************************************************************************)
EXTENDS OrderStore, SequenceTheorems, TLAPS

(***************************************************************************)
(* What Rehydrate makes of the histories OneDecision admits.               *)
(***************************************************************************)
LEMMA StatusFacts ==
  /\ Status(<< >>) = "NOT_FOUND"
  /\ Status(<<"order.placed">>) = "PENDING"
  /\ Status(<<"order.placed", "order.confirmed">>) = "CONFIRMED"
  /\ Status(<<"order.placed", "order.cancelled">>) = "CANCELLED"
BY DEF Status

(***************************************************************************)
(* A decision is raised on an order that is placed and nothing more, and   *)
(* such an order is at version 1.                                          *)
(***************************************************************************)
LEMMA PendingHistory ==
  ASSUME OneDecision, NEW o \in Orders
  PROVE  /\ Status(events[o]) = "PENDING" => events[o] = <<"order.placed">>
         /\ Len(events[o]) = 1 => events[o] = <<"order.placed">>
         /\ events[o] = <<"order.placed">> => Len(events[o]) = 1
<1>1. \A d \in Decisions : Len(<<"order.placed", d>>) = 2
  OBVIOUS
<1>2. Len(<< >>) = 0 /\ Len(<<"order.placed">>) = 1
  OBVIOUS
<1> QED
  BY <1>1, <1>2, StatusFacts DEF OneDecision, Decisions

(***************************************************************************)
(* A row appended to the event store and to the outbox.                    *)
(***************************************************************************)
LEMMA RecordTyped ==
  ASSUME StoreTypeOK, NEW o \in Orders, NEW type \in EventTypes, Record(o, type)
  PROVE  /\ StoreTypeOK'
         /\ events'[o] = Append(events[o], type)
         /\ \A p \in Orders \ {o} : events'[p] = events[p]
<1> USE DEF StoreTypeOK, Record
<1>1. Append(events[o], type) \in Seq(EventTypes)
  BY AppendProperties
<1>2. /\ outbox' \in Seq(OutboxRow)
      /\ Len(outbox') = Len(outbox) + 1
  BY AppendProperties DEF OutboxRow
<1>3. relayed' \in 0..Len(outbox')
  BY <1>2, LenProperties
<1> QED
  BY <1>1, <1>2, <1>3

LEMMA DecisionAppended ==
  ASSUME NEW d \in Decisions
  PROVE  Append(<<"order.placed">>, d) = <<"order.placed", d>>
<1> DEFINE placed == <<"order.placed">>
           both == <<"order.placed", d>>
<1>1. placed \in Seq(EventTypes) /\ both \in Seq(EventTypes) /\ d \in EventTypes
  BY DEF EventTypes, Decisions
<1>2. Len(placed) = 1 /\ placed[1] = "order.placed"
  OBVIOUS
<1>3. Len(both) = 2 /\ both[1] = "order.placed" /\ both[2] = d
  OBVIOUS
<1> HIDE DEF placed, both
<1>4. /\ Append(placed, d) \in Seq(EventTypes)
      /\ Len(Append(placed, d)) = 2
      /\ Append(placed, d)[1] = "order.placed"
      /\ Append(placed, d)[2] = d
  <2>1. /\ Append(placed, d) \in Seq(EventTypes)
        /\ Len(Append(placed, d)) = Len(placed) + 1
        /\ \A i \in 1..Len(placed) : Append(placed, d)[i] = placed[i]
        /\ Append(placed, d)[Len(placed) + 1] = d
    BY <1>1, AppendProperties
  <2>2. 1 \in 1..Len(placed) /\ Len(placed) + 1 = 2
    BY <1>2
  <2> QED
    BY <1>2, <2>1, <2>2
<1>5. \A k \in 1..2 : Append(placed, d)[k] = both[k]
  BY <1>3, <1>4
<1>6. Append(placed, d) = both
  BY <1>1, <1>3, <1>4, <1>5, SeqEqual
<1> QED
  BY <1>6 DEF placed, both
=============================================================================
