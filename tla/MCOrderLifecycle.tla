-------------------------- MODULE MCOrderLifecycle --------------------------
(***************************************************************************)
(* Values for the constants of OrderLifecycle: item lists priced one unit of *)
(* money per piece, and one request budget per run.                         *)
(***************************************************************************)
EXTENDS OrderLifecycle, TLC

CONSTANTS v1

MCTotal(items) == items[v1]
MCSupply == [v \in Variants |-> MaxQty]

\* the payment path: no amendment and no merchant
PaymentPath == {"create", "webhook", "retry"}

\* an online order and its payment, nothing else
PaidOnline == {"create", "webhook"}

\* an order amended above the autonomy limit, reviewed, its link retried
ReviewedAmendment == {"create", "amend", "approve", "retry"}

\* orders that are reviewed and paid but not amended
ReviewAndPay == {"create", "approve", "webhook", "retry"}

AllAnswers == {"created", "refused", "not configured"}
Configured == {"created", "refused"}

Symmetric == Permutations(Handlers) \cup Permutations(Links)
SymmetricOrders == Symmetric \cup Permutations(Orders)
=============================================================================
