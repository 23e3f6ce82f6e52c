----------------------------- MODULE PaymentDesk -----------------------------
(***************************************************************************)
(* What the Payment service promises the saga: one payment per order, and  *)
(* the same answer to a repeated authorization as long as the provider has *)
(* not moved the payment on.  How often the provider was charged for it is *)
(* no part of the promise.                                                 *)
(*                                                                         *)
(* Abstracted: amounts, references, decline reasons, the provider's own    *)
(* records.  Payments models the transactions behind the promise and is    *)
(* shown to implement DeskSpec.                                            *)
(***************************************************************************)
EXTENDS Domain

VARIABLE payment   \* payment[o]: payments.status of o, "NONE" when it has no row

PaymentStatus ==
  {"NONE", "CAPTURED", "DECLINED", "SETTLED", "REFUNDED", "FAILED"}

PaymentTypeOK == payment \in [Orders -> PaymentStatus]

PaymentInit == payment = [o \in Orders |-> "NONE"]

-----------------------------------------------------------------------------
\* (mutant: a payment the provider has settled meanwhile is no approval)
ApprovedCapturedOnly(status) == status = "CAPTURED"

\* Payment.isApproved: what the service answers for a payment in this status.
Approved(status) == status \in {"CAPTURED", "SETTLED"}

\* The customer's money is with the provider or the merchant.
Charged(o) == payment[o] \in {"CAPTURED", "SETTLED"}

\* The provider took the money once, even if it gave it back since.
WasCharged(o) == payment[o] \in PaymentStatus \ {"NONE", "DECLINED"}

\* POST /v1/payments: an existing payment is returned as it is, otherwise the
\* gateway approves or declines the charge.
Capture(o, status) ==
  \/ /\ payment[o] # "NONE"
     /\ status = payment[o]
     /\ UNCHANGED payment
  \/ /\ payment[o] = "NONE"
     /\ status \in {"CAPTURED", "DECLINED"}
     /\ payment' = [payment EXCEPT ![o] = status]

\* Provider webhooks and the reconciliation sweep: settle, refund, fail.
CanBecome(from, to) ==
  \/ from = "CAPTURED" /\ to \in {"SETTLED", "REFUNDED", "FAILED"}
  \/ from = "SETTLED" /\ to = "REFUNDED"

ProviderUpdate(o, to) ==
  /\ CanBecome(payment[o], to)
  /\ payment' = [payment EXCEPT ![o] = to]

-----------------------------------------------------------------------------
(* The desk as a specification of its own.  A sweep commits the moves of   *)
(* several payments in one transaction.                                    *)

\* A row is inserted captured or declined, and moves on as CanBecome says.
MayMove(from, to) ==
  \/ from = "NONE" /\ to \in {"CAPTURED", "DECLINED"}
  \/ CanBecome(from, to)

DeskNext ==
  \E moved \in SUBSET Orders :
    /\ payment' \in [Orders -> PaymentStatus]
    /\ \A o \in moved : MayMove(payment[o], payment'[o])
    /\ \A o \in Orders \ moved : payment'[o] = payment[o]

DeskSpec == PaymentInit /\ [][DeskNext]_payment
=============================================================================
