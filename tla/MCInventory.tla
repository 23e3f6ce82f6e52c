----------------------------- MODULE MCInventory -----------------------------
(***************************************************************************)
(* Instances of Inventory for TLC.                                         *)
(***************************************************************************)
EXTENDS Inventory, TLC

CONSTANTS o1, o2, s1, s2

\* Two orders that share both SKUs, one of them with a line of two units.
SharedDemand ==
  (o1 :> (s1 :> 1 @@ s2 :> 1)) @@ (o2 :> (s1 :> 2 @@ s2 :> 1))

\* One unit of one SKU each.
SingleDemand == [o \in Orders |-> (s1 :> 1 @@ s2 :> 0)]

Ascending == s1 :> 1 @@ s2 :> 2
Descending == s1 :> 2 @@ s2 :> 1

HandlerSymmetry == Permutations(Handlers)
=============================================================================
