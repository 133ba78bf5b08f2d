----------------------------- MODULE MCAccounts -----------------------------
(***************************************************************************)
(* One model of what keeps a business's account: its subscription, its     *)
(* WhatsApp connection, its Razorpay connection and the erasure of its     *)
(* customers' data. The four share no row, so that their interleavings say *)
(* nothing new: a behaviour chooses one of them and the others stand still.*)
(***************************************************************************)
EXTENDS Billing, RazorpayConnection, MetaConnection, DataErasure, TLC

VARIABLE part

accountVars == <<part, billingVars, razorpayVars, metaVars, erasureVars>>

Parts == {"billing", "razorpay", "meta", "erasure"}

CONSTANTS u1, u2, d1, x1
MCAuthor == (d1 :> u1) @@ (x1 :> u1)

Init ==
  /\ part \in Parts
  /\ BillingInit /\ RazorpayInit /\ MetaInit /\ ErasureInit
  /\ part # "billing" => plan.trial
  /\ part # "razorpay" => client
  /\ part # "meta" => verified
  /\ part # "erasure" => personal = 1 /\ open

Next ==
  \/ /\ part = "billing" /\ BillingNext
     /\ UNCHANGED <<part, razorpayVars, metaVars, erasureVars>>
  \/ /\ part = "razorpay" /\ RazorpayNext
     /\ UNCHANGED <<part, billingVars, metaVars, erasureVars>>
  \/ /\ part = "meta" /\ MetaNext
     /\ UNCHANGED <<part, billingVars, razorpayVars, erasureVars>>
  \/ /\ part = "erasure" /\ ErasureNext
     /\ UNCHANGED <<part, billingVars, razorpayVars, metaVars>>

\* The sweep and the refresh are jobs that the worker repeats every day.
Spec ==
  /\ Init /\ [][Next]_accountVars
  /\ WF_accountVars(part = "billing" /\ Sweep /\ UNCHANGED <<part, razorpayVars, metaVars, erasureVars>>)
  /\ WF_accountVars(part = "razorpay" /\ Refresh /\ UNCHANGED <<part, billingVars, metaVars, erasureVars>>)

AccountsTypeOK == part \in Parts /\ BillingTypeOK /\ RazorpayTypeOK /\ MetaTypeOK /\ ErasureTypeOK
=============================================================================
