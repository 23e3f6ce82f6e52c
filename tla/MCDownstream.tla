---------------------------- MODULE MCDownstream ----------------------------
(***************************************************************************)
(* The instance of Downstream for TLC.  The workers are interchangeable,   *)
(* so the partition is w1's at first.  So are the clerks: no fairness and  *)
(* no property names one, which keeps the symmetry sound for liveness.     *)
(* There is one order, hence one partition of the order topic that counts, *)
(* with the unparsable message in the way of the confirmation; the         *)
(* notification group reads both topics as one partition.                  *)
(***************************************************************************)
EXTENDS Downstream, TLC

CONSTANTS w1, p1

MCInit == Init /\ owner = [p \in Partitions |-> w1]
MCSpec == MCInit /\ [][Next]_vars /\ Fairness

OnePartition == [m \in Message |-> p1]

ClerkSymmetry == Permutations(Clerks)
=============================================================================
