------------------------------- MODULE Domain -------------------------------
(***************************************************************************)
(* What the services share: the identity of an order.  It keys the event   *)
(* store, the saga row, the reservation, the payment, the shipment and the *)
(* messages of every topic.                                                *)
(***************************************************************************)
CONSTANT Orders
=============================================================================
