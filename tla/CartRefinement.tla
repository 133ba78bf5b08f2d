---------------------------- MODULE CartRefinement ----------------------------
(***************************************************************************)
(* Checking out is one step for the customer: CartCheckout implements       *)
(* Purchase, for any number of carts, orders, handlers, taps and crashes.   *)
(* A checkout that has claimed a cart and is not decided yet still counts   *)
(* as an open cart; committing the order is the step Buy, ending the        *)
(* checkout in any other way without reopening the cart is GiveUp.          *)
(***************************************************************************)
EXTENDS CartCheckoutProofs

UndecidedPCs == {"place", "amend", "rewrite", "look", "reopen"}
Pending(c) == \E h \in Handlers :
                op[h].cart = c /\ op[h].pc \in UndecidedPCs /\ sold[c] = 0

(* The phase of a cart, case by case: a pending cart is a closed row.       *)
LEMMA PhaseNow ==
  ASSUME TypeOK, OneHolder
  PROVE  /\ phase = [c \in Carts |-> phase[c]]
         /\ \A c \in Carts :
              /\ cart[c].status = "ABSENT" => phase[c] = "new"
              /\ Active(c) => phase[c] = "open"
              /\ cart[c].status = "CHECKED_OUT" /\ Pending(c) => phase[c] = "open"
              /\ cart[c].status = "CHECKED_OUT" /\ ~Pending(c) => phase[c] = "closed"
<1>1. \A c \in Carts : Pending(c) => cart[c].status = "CHECKED_OUT"
  BY DEF Pending, UndecidedPCs, OneHolder, Holds, Holding
<1> QED
  BY <1>1 DEF phase, Pending, Undecided, UndecidedPCs, Active

LEMMA PhaseNext ==
  ASSUME TypeOK', OneHolder'
  PROVE  /\ phase' = [c \in Carts |-> phase'[c]]
         /\ \A c \in Carts :
              /\ cart'[c].status = "ABSENT" => phase'[c] = "new"
              /\ Active(c)' => phase'[c] = "open"
              /\ cart'[c].status = "CHECKED_OUT" /\ Pending(c)' => phase'[c] = "open"
              /\ cart'[c].status = "CHECKED_OUT" /\ ~Pending(c)' => phase'[c] = "closed"
<1>1. \A c \in Carts : Pending(c)' => cart'[c].status = "CHECKED_OUT"
  BY DEF Pending, UndecidedPCs, OneHolder, Holds, Holding
<1> QED
  BY <1>1 DEF phase, Pending, Undecided, UndecidedPCs, Active

(* A cart whose row and whose pending checkout stay as they are stays in    *)
(* its phase.                                                               *)
Status(c) == cart[c].status

LEMMA SamePhase ==
  ASSUME TypeOK, OneHolder, TypeOK', OneHolder', NEW c \in Carts,
         Status(c)' = Status(c), Pending(c)' <=> Pending(c)
  PROVE  phase'[c] = phase[c]
<1>1. cart[c].status \in {"ABSENT", "ACTIVE", "CHECKED_OUT"}
  BY TypeParts DEF RestOK, CartRow
<1> QED
  BY <1>1, PhaseNow, PhaseNext DEF Active, Status

Others(h) == \A g \in Handlers \ {h} : op'[g] = op[g]

\* A handler that is as undecided after its step as it was before, with the
\* same cart, changes the phase of no cart.
LEMMA NothingSeen ==
  ASSUME IInv, IInv', NEW h \in Handlers, Others(h), sold' = sold,
         \A c \in Carts : Status(c)' = Status(c),
         op'[h].pc \in UndecidedPCs <=> op[h].pc \in UndecidedPCs,
         op[h].pc \in UndecidedPCs => op'[h].cart = op[h].cart
  PROVE  phase' = phase
<1>1. \A c \in Carts : Pending(c)' <=> Pending(c)
  BY DEF Pending, Others
<1>2. \A c \in Carts : phase'[c] = phase[c]
  BY <1>1, SamePhase DEF IInv
<1> QED
  BY <1>2, PhaseNow, PhaseNext DEF IInv

\* A checkout that ends, or finishes, without changing a cart or an order has
\* given up its cart if it had not bought it.
LEMMA CheckoutEnds ==
  ASSUME IInv, IInv', NEW h \in Handlers, Others(h), sold' = sold,
         \A c \in Carts : Status(c)' = Status(c),
         op[h].pc \in UndecidedPCs, op'[h].pc \notin UndecidedPCs
  PROVE  phase' = phase \/ Purchases!GiveUp(op[h].cart)
<1>1. op[h].cart \in Carts
  BY TypeParts DEF IInv, OpOK, UndecidedPCs, AgentPCs
<1>. PICK c \in Carts : c = op[h].cart
  BY <1>1
<1>2. Holds(h, c)
  BY DEF Holds, Holding, UndecidedPCs
<1>3. cart[c].status = "CHECKED_OUT" /\ cart'[c].status = "CHECKED_OUT"
  BY <1>1, <1>2 DEF IInv, OneHolder, Status
<1>4. \A g \in Handlers \ {h} : op'[g].cart = c => op'[g].pc \notin UndecidedPCs
  BY <1>1, <1>2 DEF IInv, OneHolder, Holds, Holding, UndecidedPCs, Others
<1>5. ~Pending(c)'
  BY <1>4 DEF Pending
<1>6. \A d \in Carts \ {c} : Pending(d)' <=> Pending(d)
  BY DEF Pending, Others
<1>7. \A d \in Carts \ {c} : phase'[d] = phase[d]
  BY <1>6, SamePhase DEF IInv
<1>8. phase'[c] = "closed"
  BY <1>1, <1>3, <1>5, PhaseNext DEF IInv
<1>9. CASE Pending(c)
  <2>1. phase[c] = "open"
    BY <1>1, <1>3, <1>9, PhaseNow DEF IInv
  <2>2. phase' = [phase EXCEPT ![c] = "closed"]
    BY <1>1, <1>7, <1>8, PhaseNow, PhaseNext DEF IInv
  <2> QED
    BY <2>1, <2>2 DEF Purchases!GiveUp
<1>10. CASE ~Pending(c)
  <2>1. phase[c] = "closed"
    BY <1>1, <1>3, <1>10, PhaseNow DEF IInv
  <2> QED
    BY <1>1, <1>7, <1>8, <2>1, PhaseNow, PhaseNext DEF IInv
<1> QED
  BY <1>9, <1>10

\* The step that puts a cart on an order is the one that buys it.
LEMMA CheckoutBuys ==
  ASSUME IInv, IInv', NEW h \in Handlers, Others(h), cart' = cart,
         op[h].pc \in {"place", "rewrite"}, op'[h].cart = op[h].cart,
         sold' = [sold EXCEPT ![op[h].cart] = @ + 1]
  PROVE  Purchases!Buy(op[h].cart)
<1>1. op[h].cart \in Carts /\ sold \in [Carts -> Nat]
  BY TypeParts DEF IInv, OpOK, RestOK, AgentPCs
<1>. PICK c \in Carts : c = op[h].cart
  BY <1>1
<1>2. cart[c].status = "CHECKED_OUT"
  BY <1>1 DEF IInv, OneHolder, Holds, Holding
<1>3. sold[c] = 0
  BY <1>1, <1>2 DEF IInv, SoldIsClosed, Unsettled
<1>4. Pending(c)
  BY <1>3 DEF Pending, UndecidedPCs
<1>5. phase[c] = "open"
  BY <1>1, <1>2, <1>4, PhaseNow DEF IInv
<1>6. sold'[c] = 1
  BY <1>1, <1>3
<1>7. phase'[c] = "closed"
  BY <1>1, <1>2, <1>6, PhaseNext DEF IInv, Pending
<1>8. \A d \in Carts \ {c} : Pending(d)' <=> Pending(d)
  BY <1>1 DEF Pending, Others
<1>9. \A d \in Carts \ {c} : phase'[d] = phase[d]
  BY <1>8, SamePhase DEF IInv, Status
<1>10. phase' = [phase EXCEPT ![c] = "closed"]
  BY <1>1, <1>7, <1>9, PhaseNow, PhaseNext DEF IInv
<1> QED
  BY <1>5, <1>10 DEF Purchases!Buy

-----------------------------------------------------------------------------
(* Every step of a handler is a step of Purchase or is not seen at all.     *)
Seen == Purchases!Next \/ (phase' = phase /\ sold' = sold)

\* a step changes one handler
LEMMA OneHandler ==
  ASSUME TypeOK, NEW h \in Handlers,
         \/ Step(h) \/ Crash(h) \/ \E k \in Taps : Tap(h, k)
         \/ Ask(h) \/ Agent(h)
  PROVE  Others(h) /\ op \in Ops /\ op[h] \in Op /\ OpOK(op[h])
<1>1. \E r \in Op : NewOp(h, r)
  BY StepOp, AgentOp
<1> QED
  BY <1>1, TypeParts DEF NewOp, Changes, Others, Ops

\* what happens before a claim and after the end of a checkout
LEMMA OutsideUnseen ==
  ASSUME IInv, IInv', NEW h \in Handlers,
         \/ FindCart(h) \/ ChangeItems(h) \/ GetCart(h)
         \/ ReadActiveOrder(h) \/ ReadNewest(h) \/ Finish(h)
         \/ \E k \in Taps : Tap(h, k)
  PROVE  phase' = phase /\ sold' = sold
<1>1. Others(h) /\ op \in Ops /\ op[h] \in Op /\ OpOK(op[h])
  BY OneHandler DEF Step, IInv
<1>2. sold' = sold
  BY DEF FindCart, ChangeItems, GetCart, ReadActiveOrder, ReadNewest, Finish, Tap
<1>3. \A c \in Carts : Status(c)' = Status(c)
  <2>1. CASE ChangeItems(h)
    <3>1. PICK b \in BOOLEAN : cart' = [cart EXCEPT ![op[h].cart].filled = b]
      BY <2>1 DEF ChangeItems
    <3>2. \A c \in Carts : [cart[c] EXCEPT !.filled = b].status = cart[c].status
      BY TypeParts DEF IInv, RestOK, CartRow
    <3> QED
      BY <3>1, <3>2, TypeParts DEF IInv, RestOK, Status
  <2>2. CASE UNCHANGED cart
    BY <2>2 DEF Status
  <2> QED
    BY <2>1, <2>2 DEF FindCart, GetCart, ReadActiveOrder, ReadNewest, Finish, Tap
<1>4. op[h].pc \notin UndecidedPCs
  <2>1. CASE \E k \in Taps : Tap(h, k)
    <3>1. op[h] = Idle
      BY <2>1 DEF Tap
    <3> QED
      BY <3>1 DEF Idle, UndecidedPCs
  <2>2. CASE ChangeItems(h)
    BY <2>2 DEF ChangeItems, UndecidedPCs
  <2>3. CASE \/ FindCart(h) \/ GetCart(h) \/ ReadActiveOrder(h) \/ ReadNewest(h)
             \/ Finish(h)
    BY <2>3 DEF FindCart, GetCart, ReadActiveOrder, ReadNewest, Finish, At,
                UndecidedPCs
  <2> QED
    BY <2>1, <2>2, <2>3
<1>5. op'[h].pc \notin UndecidedPCs
  <2>1. ASSUME NEW pc \in {"make", "active", "newest", "claim"}, Goto(h, pc)
        PROVE  op'[h].pc \notin UndecidedPCs
    BY <1>1, <2>1 DEF Goto, Ops, Op, UndecidedPCs
  <2>2. ASSUME Done(h) PROVE op'[h].pc \notin UndecidedPCs
    BY <1>1, <2>2 DEF Done, Ops, Idle, UndecidedPCs
  <2>3. ASSUME NEW c \in Carts, op[h].pc = "find", With(h, c)
        PROVE  op'[h].pc \notin UndecidedPCs
    <3>1. op[h].kind \in Taps
      BY <1>1, <2>3 DEF OpOK, AgentPCs
    <3>2. op'[h].pc = IF op[h].kind = "confirm" THEN "get" ELSE op[h].kind
      BY <1>1, <2>3 DEF With, Ops, Op
    <3> QED
      BY <3>1, <3>2 DEF Taps, UndecidedPCs
  <2>4. CASE FindCart(h)
    BY <2>1, <2>3, <2>4 DEF FindCart, At
  <2>5. CASE ChangeItems(h) \/ GetCart(h) \/ Finish(h)
    BY <2>1, <2>2, <2>5 DEF ChangeItems, GetCart, Finish
  <2>6. CASE ReadActiveOrder(h)
    BY <1>1, <2>1, <2>6 DEF ReadActiveOrder, Ops, Op, UndecidedPCs
  <2>7. CASE ReadNewest(h)
    BY <1>1, <2>7 DEF ReadNewest, Ops, Op, UndecidedPCs
  <2>8. CASE \E k \in Taps : Tap(h, k)
    <3>1. PICK k \in Taps :
            op' = [op EXCEPT ![h] = [Idle EXCEPT !.pc = "find", !.kind = k]]
      BY <2>8 DEF Tap
    <3>2. op'[h].pc = "find"
      BY <1>1, <3>1 DEF Ops, Idle
    <3> QED
      BY <3>2 DEF UndecidedPCs
  <2> QED
    BY <2>4, <2>5, <2>6, <2>7, <2>8
<1> QED
  BY <1>1, <1>2, <1>3, <1>4, <1>5, NothingSeen

\* a new cart is opened, and nothing else
LEMMA MakingOpens ==
  ASSUME IInv, IInv', NEW h \in Handlers, MakeCart(h)
  PROVE  Seen
<1>1. Others(h) /\ op \in Ops /\ op[h] \in Op /\ OpOK(op[h])
  BY OneHandler DEF Step, IInv
<1>2. PICK c \in Carts : /\ cart[c].status = "ABSENT"
                        /\ cart' = [cart EXCEPT ![c].status = "ACTIVE"]
                        /\ With(h, c)
  BY DEF MakeCart
<1>3. op[h].pc = "make" /\ sold' = sold
  BY DEF MakeCart, At
<1>4. op[h].pc \notin UndecidedPCs /\ op'[h].pc \notin UndecidedPCs
  BY <1>1, <1>2, <1>3 DEF With, Ops, Op, OpOK, Taps, UndecidedPCs, AgentPCs
<1>5. \A d \in Carts : Pending(d)' <=> Pending(d)
  BY <1>1, <1>3, <1>4 DEF Pending, Others
<1>6. /\ cart'[c].status = "ACTIVE"
      /\ \A d \in Carts \ {c} : Status(d)' = Status(d)
  BY <1>2, TypeParts DEF IInv, RestOK, CartRow, Status
<1>7. phase[c] = "new" /\ phase'[c] = "open"
  BY <1>2, <1>6, PhaseNow, PhaseNext DEF IInv, Active
<1>8. \A d \in Carts \ {c} : phase'[d] = phase[d]
  BY <1>5, <1>6, SamePhase DEF IInv
<1>9. phase' = [phase EXCEPT ![c] = "open"]
  BY <1>7, <1>8, PhaseNow, PhaseNext DEF IInv
<1>10. Purchases!Open(c)
  BY <1>3, <1>7, <1>9 DEF Purchases!Open
<1> QED
  BY <1>10 DEF Seen, Purchases!Next

\* the claim closes the row of an open cart that its checkout now answers for
LEMMA ClaimUnseen ==
  ASSUME IInv, IInv', NEW h \in Handlers, Claim(h)
  PROVE  phase' = phase /\ sold' = sold
<1>1. Others(h) /\ op \in Ops /\ op[h] \in Op /\ OpOK(op[h])
  BY OneHandler DEF Step, IInv
<1>2. op[h].pc = "claim" /\ op[h].cart \in Carts /\ sold' = sold
  BY <1>1 DEF Claim, At, OpOK, AgentPCs
<1>3. PICK c \in Carts : c = op[h].cart
  BY <1>2
<1>4. op[h].pc \notin UndecidedPCs
  BY <1>2 DEF UndecidedPCs
<1>5. CASE ~ClaimWhere(c)
  <2>1. Done(h) /\ UNCHANGED cart
    BY <1>3, <1>5 DEF Claim
  <2>2. op'[h].pc \notin UndecidedPCs
    BY <1>1, <2>1 DEF Done, Ops, Idle, UndecidedPCs
  <2> QED
    BY <1>1, <1>2, <1>4, <2>1, <2>2, NothingSeen DEF Status
<1>6. CASE ClaimWhere(c)
  <2>1. /\ cart' = [cart EXCEPT ![c].status = "CHECKED_OUT"]
        /\ Goto(h, AfterClaim(h))
    BY <1>3, <1>6 DEF Claim
  <2>2. op'[h].pc \in UndecidedPCs /\ op'[h].cart = c
    BY <1>1, <1>3, <2>1 DEF Goto, AfterClaim, Ops, Op, UndecidedPCs
  <2>3. cart[c].status = "ACTIVE"
    BY <1>6 DEF ClaimWhere, Active
  <2>4. sold[c] = 0
    BY <2>3, TypeParts DEF IInv, SoldIsClosed, RestOK
  <2>5. /\ cart'[c].status = "CHECKED_OUT"
        /\ \A d \in Carts \ {c} : Status(d)' = Status(d)
    BY <2>1, TypeParts DEF IInv, RestOK, CartRow, Status
  <2>6. Pending(c)'
    BY <1>2, <2>2, <2>4 DEF Pending
  <2>7. phase[c] = "open" /\ phase'[c] = "open"
    BY <2>3, <2>5, <2>6, PhaseNow, PhaseNext DEF IInv, Active
  <2>8. \A d \in Carts \ {c} : Pending(d)' <=> Pending(d)
    BY <1>1, <1>2, <1>4, <2>2 DEF Pending, Others
  <2>9. \A d \in Carts \ {c} : phase'[d] = phase[d]
    BY <2>5, <2>8, SamePhase DEF IInv
  <2> QED
    BY <1>2, <2>7, <2>9, PhaseNow, PhaseNext DEF IInv
<1> QED
  BY <1>5, <1>6

\* giving the cart back: it was open all the time
LEMMA ReopeningUnseen ==
  ASSUME IInv, IInv', NEW h \in Handlers, ReopenCart(h)
  PROVE  phase' = phase /\ sold' = sold
<1>1. Others(h) /\ op \in Ops /\ op[h] \in Op /\ OpOK(op[h])
  BY OneHandler DEF Step, IInv
<1>2. op[h].pc = "reopen" /\ op[h].cart \in Carts /\ sold' = sold
  BY <1>1 DEF ReopenCart, At, OpOK, AgentPCs
<1>3. PICK c \in Carts : c = op[h].cart
  BY <1>2
<1>4. cart' = [cart EXCEPT ![c].status = "ACTIVE"] /\ Done(h)
  BY <1>3 DEF ReopenCart
<1>5. op'[h].pc \notin UndecidedPCs
  BY <1>1, <1>4 DEF Done, Ops, Idle, UndecidedPCs
<1>6. cart[c].status = "CHECKED_OUT"
  BY <1>2, <1>3 DEF IInv, OneHolder, Holds, Holding
<1>7. sold[c] = 0
  BY <1>2, <1>3, TypeParts DEF IInv, SoldIsClosed, Unsettled, RestOK
<1>8. Pending(c)
  BY <1>2, <1>3, <1>7 DEF Pending, UndecidedPCs
<1>9. /\ cart'[c].status = "ACTIVE"
      /\ \A d \in Carts \ {c} : Status(d)' = Status(d)
  BY <1>4, TypeParts DEF IInv, RestOK, CartRow, Status
<1>10. phase[c] = "open" /\ phase'[c] = "open"
  BY <1>6, <1>8, <1>9, PhaseNow, PhaseNext DEF IInv, Active
<1>11. \A d \in Carts \ {c} : Pending(d)' <=> Pending(d)
  BY <1>1, <1>2, <1>3, <1>5 DEF Pending, Others
<1>12. \A d \in Carts \ {c} : phase'[d] = phase[d]
  BY <1>9, <1>11, SamePhase DEF IInv
<1> QED
  BY <1>2, <1>10, <1>12, PhaseNow, PhaseNext DEF IInv

\* the steps of a checkout between the claim and its end
LEMMA InsideSeen ==
  ASSUME IInv, IInv', "afterAmend" \notin Failures, NEW h \in Handlers,
         \/ PlaceOrder(h) \/ CreateFails(h) \/ AmendRead(h)
         \/ AmendOrder(h) \/ AmendFails(h) \/ LookForOrder(h)
  PROVE  Seen
<1>1. Others(h) /\ op \in Ops /\ op[h] \in Op /\ OpOK(op[h])
  BY OneHandler DEF Step, IInv
<1>2. cart' = cart
  BY DEF PlaceOrder, CreateFails, AmendRead, AmendOrder, AmendFails, LookForOrder
<1>3. \A c \in Carts : Status(c)' = Status(c)
  BY <1>2 DEF Status
<1>4. op[h].pc \in UndecidedPCs /\ op[h].cart \in Carts
  BY <1>1 DEF PlaceOrder, CreateFails, AmendRead, AmendOrder, AmendFails,
              LookForOrder, At, OpOK, UndecidedPCs, AgentPCs
<1>5. ASSUME NEW pc, Goto(h, pc)
      PROVE  op'[h].pc = pc /\ op'[h].cart = op[h].cart
  BY <1>1, <1>5 DEF Goto, Ops, Op
<1>6. ASSUME NEW pc \in UndecidedPCs, Goto(h, pc), sold' = sold PROVE Seen
  BY <1>1, <1>3, <1>4, <1>5, <1>6, NothingSeen DEF Seen
<1>7. ASSUME op'[h].pc \notin UndecidedPCs, sold' = sold PROVE Seen
  BY <1>1, <1>3, <1>4, <1>7, CheckoutEnds DEF Seen, Purchases!Next
<1>8. ASSUME op[h].pc \in {"place", "rewrite"}, op'[h].cart = op[h].cart,
             sold' = [sold EXCEPT ![op[h].cart] = @ + 1]
      PROVE  Seen
  BY <1>1, <1>2, <1>4, <1>8, CheckoutBuys DEF Seen, Purchases!Next
<1>9. CASE PlaceOrder(h)
  <2>1. /\ op[h].pc = "place"
        /\ sold' = [sold EXCEPT ![op[h].cart] = @ + 1]
    BY <1>9 DEF PlaceOrder, At
  <2>2. op'[h].cart = op[h].cart
    <3>1. \/ \E o \in Orders :
               op' = [op EXCEPT ![h] = [@ EXCEPT !.pc = "finish", !.order = o]]
          \/ Goto(h, "look")
      BY <1>9 DEF PlaceOrder
    <3>2. CASE Goto(h, "look")
      BY <1>5, <3>2
    <3>3. ASSUME NEW o \in Orders,
                 op' = [op EXCEPT ![h] = [@ EXCEPT !.pc = "finish", !.order = o]]
          PROVE  op'[h].cart = op[h].cart
      BY <1>1, <3>3 DEF Ops, Op
    <3> QED
      BY <3>1, <3>2, <3>3
  <2> QED
    BY <1>8, <2>1, <2>2
<1>10. CASE AmendOrder(h)
  <2>1. Goto(h, "finish")
    BY <1>10 DEF AmendOrder, MayFail
  <2> QED
    BY <1>5, <1>8, <1>10, <2>1 DEF AmendOrder, At
<1>11. CASE CreateFails(h) \/ AmendRead(h) \/ AmendFails(h)
  BY <1>6, <1>11 DEF CreateFails, AmendRead, AmendFails, UndecidedPCs
<1>12. CASE LookForOrder(h)
  <2>1. sold' = sold
    BY <1>12 DEF LookForOrder
  <2>2. \/ Goto(h, "reopen")
        \/ Done(h)
        \/ op' = [op EXCEPT ![h] = [@ EXCEPT !.pc = "finish", !.order = newest]]
    BY <1>12 DEF LookForOrder
  <2>3. CASE ~Goto(h, "reopen")
    <3>1. CASE Done(h)
      <4>1. op'[h].pc = "idle"
        BY <1>1, <3>1 DEF Done, Ops, Idle
      <4> QED
        BY <1>7, <2>1, <4>1 DEF UndecidedPCs
    <3>2. CASE op' = [op EXCEPT ![h] = [@ EXCEPT !.pc = "finish", !.order = newest]]
      <4>1. op'[h].pc = "finish"
        BY <1>1, <3>2 DEF Ops, Op
      <4> QED
        BY <1>7, <2>1, <4>1 DEF UndecidedPCs
    <3> QED
      BY <2>2, <2>3, <3>1, <3>2
  <2> QED
    BY <1>6, <2>1, <2>3 DEF UndecidedPCs
<1> QED
  BY <1>9, <1>10, <1>11, <1>12

\* a handler that dies gives up the cart of an undecided checkout
LEMMA CrashSeen ==
  ASSUME IInv, IInv', NEW h \in Handlers, Crash(h)
  PROVE  Seen
<1>1. Others(h) /\ op \in Ops /\ op[h] \in Op /\ OpOK(op[h])
  BY OneHandler DEF IInv
<1>2. sold' = sold /\ \A c \in Carts : Status(c)' = Status(c)
  BY DEF Crash, Status
<1>3. op'[h].pc \notin UndecidedPCs
  BY <1>1 DEF Crash, Done, Ops, Idle, UndecidedPCs
<1>4. CASE op[h].pc \in UndecidedPCs
  <2>1. op[h].cart \in Carts
    BY <1>1, <1>4 DEF OpOK, UndecidedPCs, AgentPCs
  <2> QED
    BY <1>1, <1>2, <1>3, <1>4, <2>1, CheckoutEnds DEF Seen, Purchases!Next
<1>5. CASE op[h].pc \notin UndecidedPCs
  BY <1>1, <1>2, <1>3, <1>5, NothingSeen DEF Seen
<1> QED
  BY <1>4, <1>5

\* the agent checks nothing out
LEMMA AgentUnseen ==
  ASSUME IInv, IInv', NEW h \in Handlers, Ask(h) \/ Agent(h)
  PROVE  phase' = phase /\ sold' = sold
<1>1. Others(h) /\ op \in Ops /\ op[h] \in Op /\ OpOK(op[h])
  BY OneHandler DEF IInv
<1>2. sold' = sold
  BY DEF Ask, Agent, AgentFindsCart, AgentReadsOrder, AgentPlaces, AgentAmends,
         AgentFails, AgentClears, AgentRecords
<1>3. \A c \in Carts : Status(c)' = Status(c)
  <2>1. CASE AgentClears(h)
    <3>1. \A c \in Carts : [cart[c] EXCEPT !.filled = FALSE].status = cart[c].status
      BY TypeParts DEF IInv, RestOK, CartRow
    <3> QED
      BY <2>1, <3>1, TypeParts DEF AgentClears, IInv, RestOK, Status
  <2>2. CASE UNCHANGED cart
    BY <2>2 DEF Status
  <2> QED
    BY <2>1, <2>2 DEF Ask, Agent, AgentFindsCart, AgentReadsOrder, AgentPlaces,
                      AgentAmends, AgentFails, AgentRecords
<1>4. op[h].pc \notin UndecidedPCs
  <2>1. CASE Ask(h)
    BY <2>1 DEF Ask, Idle, UndecidedPCs
  <2>2. CASE Agent(h)
    BY <2>2 DEF Agent, AgentFindsCart, AgentReadsOrder, AgentPlaces, AgentAmends,
                AgentFails, AgentClears, AgentRecords, At, UndecidedPCs
  <2> QED
    BY <2>1, <2>2
<1>5. op'[h].pc \notin UndecidedPCs
  <2>1. ASSUME NEW pc \in AgentPCs, Goto(h, pc) PROVE op'[h].pc \notin UndecidedPCs
    BY <1>1, <2>1 DEF Goto, Ops, Op, UndecidedPCs, AgentPCs
  <2>2. ASSUME Done(h) PROVE op'[h].pc \notin UndecidedPCs
    BY <1>1, <2>2 DEF Done, Ops, Idle, UndecidedPCs
  <2>3. CASE Ask(h)
    BY <1>1, <2>3 DEF Ask, Ops, Idle, UndecidedPCs
  <2>4. CASE AgentFindsCart(h)
    <3>1. ASSUME NEW c \in Carts,
                 op' = [op EXCEPT ![h] = [@ EXCEPT !.pc = "agentOrder", !.cart = c]]
          PROVE  op'[h].pc \notin UndecidedPCs
      BY <1>1, <3>1 DEF Ops, Op, UndecidedPCs
    <3> QED
      BY <2>1, <2>4, <3>1 DEF AgentFindsCart, AgentPCs
  <2>5. CASE AgentPlaces(h)
    <3>1. ASSUME NEW n \in Orders,
                 op' = [op EXCEPT ![h] = [@ EXCEPT !.pc = AfterAgentOrder(h), !.order = n]]
          PROVE  op'[h].pc \notin UndecidedPCs
      BY <1>1, <3>1 DEF Ops, Op, AfterAgentOrder, UndecidedPCs
    <3> QED
      BY <2>2, <2>5, <3>1 DEF AgentPlaces
  <2>6. CASE AgentReadsOrder(h) \/ AgentAmends(h) \/ AgentClears(h)
    BY <2>1, <2>6 DEF AgentReadsOrder, AgentAmends, AgentClears, AfterAgentOrder,
                      AgentPCs
  <2>7. CASE AgentFails(h) \/ AgentRecords(h)
    BY <2>2, <2>7 DEF AgentFails, AgentRecords
  <2> QED
    BY <2>3, <2>4, <2>5, <2>6, <2>7 DEF Agent
<1> QED
  BY <1>1, <1>2, <1>3, <1>4, <1>5, NothingSeen

\* an order that moves, and the questions of the shopping flow
LEMMA RestUnseen ==
  ASSUME UNCHANGED <<cart, op, sold>>
  PROVE  phase' = phase /\ sold' = sold
  BY DEF phase, Active, Undecided

LEMMA NextSeen ==
  ASSUME IInv, IInv', "afterAmend" \notin Failures, [Next]_vars
  PROVE  Seen
<1>1. ASSUME NEW h \in Handlers,
             Step(h) \/ Crash(h) \/ \E k \in Taps : Tap(h, k)
      PROVE  Seen
  BY <1>1, OutsideUnseen, MakingOpens, ClaimUnseen, ReopeningUnseen,
     InsideSeen, CrashSeen DEF Step, Seen
<1>2. CASE UNCHANGED <<cart, op, sold>>
  BY <1>2, RestUnseen DEF Seen
<1>3. ASSUME NEW h \in Handlers, Ask(h) \/ Agent(h) PROVE Seen
  BY <1>3, AgentUnseen DEF Seen
<1> QED
  BY <1>1, <1>2, <1>3
     DEF Next, BeginCheckout, GiveDetails, CancelCheckout, OrderMoves, vars

\* Checking out is one step for the customer, whatever interleaves, fails or
\* dies in between, except a failure after an amendment was committed
\* (CartService.checkout): the checkout model implements Purchase.
THEOREM CheckoutImplementsPurchase ==
  ASSUME "afterAmend" \notin Failures
  PROVE  Spec => CheckoutIsOneStep
<1>1. Init => IInv
  BY InvInit
<1>2. IInv /\ [Next]_vars => IInv'
  BY InvNext
<1>3. Init => Purchases!Init
  <2> SUFFICES ASSUME Init PROVE Purchases!Init
    OBVIOUS
  <2>1. \A c \in Carts : cart[c].status = "ABSENT"
    BY DEF Init, NoCartRow
  <2>2. \A c \in Carts : phase[c] = "new"
    BY <1>1, <2>1, PhaseNow DEF IInv
  <2> QED
    BY <1>1, <2>2, PhaseNow DEF IInv, Init, Purchases!Init
<1>4. IInv /\ IInv' /\ [Next]_vars => [Purchases!Next]_(Purchases!vars)
  BY NextSeen DEF Seen, Purchases!vars
<1> QED
  BY <1>1, <1>2, <1>3, <1>4, PTL DEF Spec, CheckoutIsOneStep, Purchases!Spec
=============================================================================
