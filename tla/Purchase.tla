------------------------------- MODULE Purchase -------------------------------
(***************************************************************************)
(* What checking out promises the customer: a cart is opened, and is then  *)
(* either bought, once and in one step, or given up.  Whatever was bought   *)
(* or given up is never offered again.                                      *)
(***************************************************************************)
EXTENDS Naturals

CONSTANT Carts

VARIABLES
    phase,      \* "new", "open" or "closed"
    sold        \* how many times the cart's items were put on an order

vars == <<phase, sold>>

Init == /\ phase = [c \in Carts |-> "new"]
        /\ sold = [c \in Carts |-> 0]

Open(c) == /\ phase[c] = "new"
           /\ phase' = [phase EXCEPT ![c] = "open"]
           /\ UNCHANGED sold

Buy(c) == /\ phase[c] = "open"
          /\ phase' = [phase EXCEPT ![c] = "closed"]
          /\ sold' = [sold EXCEPT ![c] = @ + 1]

GiveUp(c) == /\ phase[c] = "open"
             /\ phase' = [phase EXCEPT ![c] = "closed"]
             /\ UNCHANGED sold

Next == \E c \in Carts : Open(c) \/ Buy(c) \/ GiveUp(c)

Spec == Init /\ [][Next]_vars
=============================================================================
