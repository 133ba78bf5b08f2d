---------------------------- MODULE MCCartCheckout ----------------------------
(***************************************************************************)
(* Values for the constants of CartCheckout.                                *)
(***************************************************************************)
EXTENDS CartCheckout, TLC

\* everything but a failure after an amendment was committed
Recovered == FailureKinds \ {"afterAmend"}

Symmetric == Permutations(Handlers) \cup Permutations(Carts)
=============================================================================
