-------------------------- MODULE MCMessageIntake --------------------------
(* One message of a new sender, delivered to two handlers. *)
EXTENDS MessageIntake, TLC

CONSTANTS w1, w2, m1
MCCarried == {(w1 :> m1) @@ (w2 :> m1)}

Spec == IntakeSpec
=============================================================================
