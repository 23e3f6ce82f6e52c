------------------------------- MODULE MCSaga -------------------------------
(***************************************************************************)
(* Instances of Saga for TLC.                                              *)
(***************************************************************************)
EXTENDS Saga, TLC

\* Every order asks for one unit of every SKU.
OneUnitEach == [o \in Orders |-> [s \in Skus |-> 1]]

\* Every order has a partition of its own.
OwnPartitions == [m \in Message |-> m.order]

WorkerSymmetry == Permutations(Workers)
=============================================================================
