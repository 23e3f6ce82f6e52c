--------------------------- MODULE MCOrderService ---------------------------
(***************************************************************************)
(* Instances of OrderService for TLC, with amounts of four bits.           *)
(***************************************************************************)
EXTENDS OrderService

\* One body whose total fits, one whose total wraps to a negative amount, and
\* one that is rejected after its key was reserved.
SmallBodies ==
  {[items |-> <<[quantity |-> 2, price |-> 1], [quantity |-> 1, price |-> 3]>>, sound |-> TRUE],
   [items |-> <<[quantity |-> 2, price |-> 5]>>, sound |-> TRUE],
   [items |-> <<[quantity |-> 1, price |-> 1], [quantity |-> 1, price |-> 1]>>, sound |-> FALSE]}

\* Every order has a partition of its own.
OwnPartitions == [m \in OutboxRow |-> m.order]
=============================================================================
