---------------------------- MODULE MCStorefront ----------------------------
(***************************************************************************)
(* One model of what surrounds carts and orders: the intake of messages,   *)
(* the button-driven shop, the memory of a product search, proactive       *)
(* messages, stock alerts and catalogue imports.  They share no row a      *)
(* property is about, so a behaviour chooses one and the others stand      *)
(* still.                                                                  *)
(***************************************************************************)
EXTENDS MessageIntake, ShoppingFlow, ShoppingSearch, Outreach, StockAlerts, CatalogueImport, TLC

VARIABLE part

storefrontVars == <<part, intakeVars, flowVars, searchVars, outreachVars, stockVars, importVars>>

Parts == {"intake", "flow", "search", "outreach", "stock", "import"}

-----------------------------------------------------------------------------
(* Constants *)

CONSTANTS w1, w2, m1, m2, k1, k2, p1, p2, p3, gown, gift, red, r1, r2, n1, s1

\* one message delivered twice, or two messages
MCCarried == {(w1 :> m1) @@ (w2 :> m1), (w1 :> m1) @@ (w2 :> m2)}
MCKinds ==
  {(k1 :> "cartJob") @@ (k2 :> "repeatScan"), (k1 :> "unansweredScan") @@ (k2 :> "api"),
   (k1 :> "healthScan") @@ (k2 :> "api")}

Variant(price, stocked, colour) == [price |-> price, stocked |-> stocked, colour |-> colour]
MCText == (p1 :> {gown, gift}) @@ (p2 :> {gown, red}) @@ (p3 :> {gift})
MCCategory == [p \in {p1, p2, p3} |-> 1]
MCVariantsOf ==
  (p1 :> <<Variant(2, TRUE, None), Variant(1, TRUE, red)>>)
    @@ (p2 :> <<Variant(1, FALSE, red), Variant(2, TRUE, None)>>)
    @@ (p3 :> <<Variant(1, TRUE, None)>>)
MCRelated == (p1 :> {p3}) @@ (p2 :> {}) @@ (p3 :> {p1})

Saying(words, colour, max, ask, frame) ==
  [words |-> words, colour |-> colour, max |-> max, ask |-> ask, frame |-> frame]
MCSayings ==
  {Saying({gown}, None, None, "none", TRUE),   \* "show me gowns"
   Saying({gift}, None, None, "none", FALSE),  \* "a gift"
   Saying({}, red, None, "none", FALSE),       \* "in red"
   Saying({}, None, 1, "none", FALSE),         \* "under 1"
   Saying({gown}, red, 1, "none", TRUE),       \* "show me red gowns under 1"
   Saying({}, None, None, "other", FALSE),
   Saying({}, None, None, "similar", FALSE),
   Saying({}, None, None, "cheaper", FALSE)}

RowData(sku, valid) == [sku |-> sku, valid |-> valid]
MCFiles == {(r1 :> RowData(s1, TRUE)) @@ (r2 :> RowData(NoSku, TRUE)),
            (r1 :> RowData(NoSku, FALSE)) @@ (r2 :> RowData(s1, TRUE))}

-----------------------------------------------------------------------------
Init ==
  /\ part \in Parts
  /\ IntakeInit /\ FlowInit /\ SearchInit /\ OutreachInit /\ StockInit /\ ImportInit
  \* bounds: of Instagram and email one message, delivered twice; the first row has the first name
  /\ channel = "UPSERT" => \A d, e \in Deliveries : hook[d].msg = hook[e].msg
  /\ nameOf[r1] = n1
  \* the merchant's rule lets suggestions be sent at once; they may still not be
  /\ rule.autoSend
  /\ part # "intake" => channel = "UPSERT"
  /\ part # "outreach" => rule.proactive /\ maker[k1].kind = "healthScan"
  /\ part # "stock" => stock = 0
  /\ part # "import" => known = {} /\ nameOf[r2] = n1

IntakeStands == UNCHANGED intakeVars
FlowStands == UNCHANGED flowVars
SearchStands == UNCHANGED searchVars
OutreachStands == UNCHANGED outreachVars
StockStands == UNCHANGED stockVars
ImportStands == UNCHANGED importVars
ShopStands == FlowStands /\ SearchStands /\ OutreachStands
CatalogueStands == StockStands /\ ImportStands

Next ==
  /\ UNCHANGED part
  /\ \/ part = "intake" /\ IntakeNext /\ ShopStands /\ CatalogueStands
     \/ part = "flow" /\ FlowNext /\ IntakeStands /\ SearchStands /\ OutreachStands /\ CatalogueStands
     \/ part = "search" /\ SearchNext /\ IntakeStands /\ FlowStands /\ OutreachStands /\ CatalogueStands
     \/ part = "outreach" /\ OutreachNext /\ IntakeStands /\ FlowStands /\ SearchStands /\ CatalogueStands
     \/ part = "stock" /\ StockNext /\ IntakeStands /\ ShopStands /\ ImportStands
     \/ part = "import" /\ ImportNext /\ IntakeStands /\ ShopStands /\ StockStands

\* The queue runs the follow-up job of a conversation, and again when it failed.
Spec ==
  /\ Init /\ [][Next]_storefrontVars
  /\ \A i \in 1..MaxConvs :
       WF_intakeVars(part = "intake" /\ i \in DOMAIN convs /\ FollowUp(i)
                           /\ ShopStands /\ CatalogueStands /\ UNCHANGED part)

StorefrontTypeOK ==
  /\ part \in Parts
  /\ IntakeTypeOK /\ FlowTypeOK /\ SearchTypeOK /\ OutreachTypeOK /\ StockTypeOK /\ ImportTypeOK
=============================================================================
