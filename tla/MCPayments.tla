----------------------------- MODULE MCPayments -----------------------------
(***************************************************************************)
(* Instances of Payments for TLC.                                          *)
(***************************************************************************)
EXTENDS Payments, TLC

\* Every webhook the provider can send.
AllEvents == [order : Orders, to : WebhookTypes]

\* No fairness and no property names a handler, which keeps the symmetry sound
\* for liveness.
HandlerSymmetry == Permutations(Handlers)
=============================================================================
