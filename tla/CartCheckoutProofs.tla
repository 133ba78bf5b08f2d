-------------------------- MODULE CartCheckoutProofs --------------------------
(***************************************************************************)
(* One cart is bought at most once, for any number of carts, orders and     *)
(* handlers, any interleaving of them, any number of taps and of crashes,   *)
(* and all the failures a checkout recovers from.                           *)
(***************************************************************************)
EXTENDS CartCheckout, TLAPS

(* What a step does to the handlers: it changes one of them.                *)
Ops == [Handlers -> Op]

Changes(h, r) == /\ r \in Op
                 /\ op' \in Ops
                 /\ op'[h] = r
                 /\ \A g \in Handlers \ {h} : op'[g] = op[g]

LEMMA IdleTyped == Idle \in Op /\ OpOK(Idle)
  BY DEF Idle, Op, PCs, OpOK

LEMMA Fields ==
  ASSUME NEW r \in Op
  PROVE  /\ r = [pc |-> r.pc, kind |-> r.kind, cart |-> r.cart,
                 order |-> r.order, before |-> r.before]
         /\ r.pc \in PCs \cup AgentPCs /\ r.kind \in Taps \cup {"none"}
         /\ r.cart \in Carts \cup {NoCart}
         /\ r.order \in Orders \cup {NoOrder}
         /\ r.before \in Orders \cup {NoOrder}
  BY DEF Op

LEMMA PutEffect ==
  ASSUME op \in Ops, NEW h \in Handlers, NEW r \in Op,
         op' = [op EXCEPT ![h] = r]
  PROVE  Changes(h, r)
  BY DEF Ops, Changes

LEMMA DoneEffect ==
  ASSUME op \in Ops, NEW h \in Handlers, Done(h)
  PROVE  Changes(h, Idle)
  BY IdleTyped, PutEffect DEF Done

LEMMA GotoEffect ==
  ASSUME op \in Ops, NEW h \in Handlers, NEW pc \in PCs \cup AgentPCs, Goto(h, pc)
  PROVE  Changes(h, [op[h] EXCEPT !.pc = pc])
<1>1. op[h] \in Op
  BY DEF Ops
<1>2. [op[h] EXCEPT !.pc = pc] \in Op
  BY <1>1 DEF Op
<1>3. op' = [op EXCEPT ![h] = [op[h] EXCEPT !.pc = pc]]
  BY DEF Goto
<1> QED
  BY <1>2, <1>3, PutEffect

LEMMA OpOKKept ==
  ASSUME op \in Ops, \A g \in Handlers : OpOK(op[g]),
         NEW h \in Handlers, NEW r, Changes(h, r), OpOK(r)
  PROVE  \A g \in Handlers : OpOK(op'[g])
  BY DEF Changes

-----------------------------------------------------------------------------
(* Every variable keeps its type.                                           *)

LEMMA TypeInit == Init => TypeOK
<1> SUFFICES ASSUME Init PROVE TypeOK
  OBVIOUS
<1>1. op \in [Handlers -> Op] /\ \A h \in Handlers : OpOK(op[h])
  BY IdleTyped DEF Init
<1> QED
  BY <1>1 DEF Init, TypeOK, NoCartRow, CartRow, conversation

\* the part of TypeOK that is not about the handlers
RestOK ==
    /\ cart \in [Carts -> CartRow]
    /\ order \in [Orders -> {"ABSENT", "OPEN", "CLOSED"}]
    /\ newest \in Orders \cup {NoOrder}
    /\ activeOrder \in Orders \cup {NoOrder}
    /\ details \in {"none", "asked", "given"}
    /\ taps \in Nat /\ crashes \in Nat
    /\ sold \in [Carts -> Nat]

LEMMA TypeParts ==
  TypeOK <=> RestOK /\ op \in Ops /\ \A h \in Handlers : OpOK(op[h])
  BY DEF TypeOK, RestOK, Ops

\* what a step of handler h makes of its record
NewOp(h, r) == Changes(h, r) /\ OpOK(r)

LEMMA StepOp ==
  ASSUME TypeOK, NEW h \in Handlers
  PROVE  /\ Step(h) \/ Crash(h) => \E r \in Op : NewOp(h, r)
         /\ \A k \in Taps : Tap(h, k) => \E r \in Op : NewOp(h, r)
<1> DEFINE o == op[h]
           Moves(pc) == [o EXCEPT !.pc = pc]
<1>a. op \in Ops /\ o \in Op /\ OpOK(o)
  BY TypeParts DEF Ops
<1> USE <1>a
<1>b. ASSUME NEW pc \in PCs \ {"idle"}, Goto(h, pc),
             o.pc \in PCs \ {"idle", "find", "make"},
             pc \in {"amend", "rewrite"} => o.order \in Orders
      PROVE  \E r \in Op : NewOp(h, r)
  <2>1. Changes(h, Moves(pc))
    BY <1>b, GotoEffect
  <2>2. /\ Moves(pc).pc = pc /\ Moves(pc).cart = o.cart
        /\ Moves(pc).order = o.order /\ Moves(pc).kind = o.kind
    BY DEF Op
  <2>3. OpOK(Moves(pc))
    BY <1>b, <2>2 DEF OpOK, PCs, AgentPCs
  <2> QED
    BY <2>1, <2>3 DEF NewOp, Changes
<1>c. Done(h) => \E r \in Op : NewOp(h, r)
  BY DoneEffect, IdleTyped DEF NewOp
<1>d. ASSUME NEW r \in Op, op' = [op EXCEPT ![h] = r], OpOK(r)
      PROVE  \E q \in Op : NewOp(h, q)
  BY <1>d, PutEffect DEF NewOp
<1>1. ASSUME NEW k \in Taps, Tap(h, k) PROVE \E r \in Op : NewOp(h, r)
  <2> DEFINE r == [Idle EXCEPT !.pc = "find", !.kind = k]
  <2>1. r \in Op /\ OpOK(r)
    BY DEF Idle, Op, PCs, AgentPCs, OpOK
  <2>2. op' = [op EXCEPT ![h] = r]
    BY <1>1, TypeParts DEF Tap, Ops
  <2> QED
    BY <2>1, <2>2, <1>d
<1>2. ASSUME NEW c \in Carts, o.pc \in {"find", "make"}, With(h, c)
      PROVE  \E r \in Op : NewOp(h, r)
  <2> DEFINE pc == IF o.kind = "confirm" THEN "get" ELSE o.kind
             r == [o EXCEPT !.cart = c, !.pc = pc]
  <2>1. o.kind \in Taps
    BY <1>2 DEF OpOK, AgentPCs
  <2>2. /\ r \in Op /\ r.cart = c /\ r.pc = pc /\ r.kind = o.kind
        /\ pc \in {"get", "add", "clear", "set"}
    BY <2>1 DEF Op, PCs, Taps
  <2>3. OpOK(r)
    BY <2>1, <2>2 DEF OpOK, AgentPCs
  <2> QED
    BY <1>2, <2>2, <2>3, <1>d DEF With
<1>3. CASE FindCart(h)
  <2>1. CASE \E c \in Carts : Active(c) /\ With(h, c)
    BY <1>3, <2>1, <1>2 DEF FindCart, At
  <2>2. CASE Goto(h, "make")
    <3>1. Changes(h, Moves("make"))
      BY <2>2, GotoEffect DEF PCs
    <3>2. Moves("make").pc = "make" /\ Moves("make").kind = o.kind
      BY DEF Op
    <3>3. OpOK(Moves("make"))
      BY <1>3, <3>2 DEF OpOK, FindCart, At, AgentPCs
    <3> QED
      BY <3>1, <3>3 DEF NewOp, Changes
  <2> QED
    BY <1>3, <2>1, <2>2 DEF FindCart
<1>4. CASE MakeCart(h)
  BY <1>4, <1>2 DEF MakeCart, At
<1>5. CASE ChangeItems(h) \/ ReopenCart(h) \/ Finish(h) \/ Crash(h)
  BY <1>5, <1>c DEF ChangeItems, ReopenCart, Finish, Crash
<1>6. CASE GetCart(h)
  BY <1>6, <1>b, <1>c DEF GetCart, At, PCs
<1>7. CASE ReadActiveOrder(h)
  <2> DEFINE r == [o EXCEPT !.pc = "claim", !.order = activeOrder]
  <2>1. r \in Op /\ r.pc = "claim" /\ r.cart = o.cart /\ r.kind = o.kind
    BY TypeParts DEF Op, PCs, RestOK
  <2>2. OpOK(r)
    BY <1>7, <2>1 DEF OpOK, ReadActiveOrder, At, AgentPCs
  <2>3. op' = [op EXCEPT ![h] = r] \/ Goto(h, "newest")
    BY <1>7 DEF ReadActiveOrder
  <2> QED
    BY <1>7, <2>1, <2>2, <2>3, <1>b, <1>d DEF ReadActiveOrder, At, PCs
<1>8. CASE ReadNewest(h)
  <2> DEFINE r == [o EXCEPT !.pc = "claim", !.before = newest]
  <2>1. r \in Op /\ r.pc = "claim" /\ r.cart = o.cart /\ r.kind = o.kind
    BY TypeParts DEF Op, PCs, RestOK
  <2>2. OpOK(r)
    BY <1>8, <2>1 DEF OpOK, ReadNewest, At, AgentPCs
  <2> QED
    BY <1>8, <2>1, <2>2, <1>d DEF ReadNewest
<1>9. CASE Claim(h)
  <2>1. AfterClaim(h) \in {"place", "amend"}
        /\ (AfterClaim(h) = "amend" => o.order \in Orders)
    BY Fields DEF AfterClaim
  <2> QED
    BY <1>9, <2>1, <1>b, <1>c DEF Claim, At, PCs
<1>10. ASSUME o.pc \in {"place", "look"}, NEW n \in Orders \cup {NoOrder},
              op' = [op EXCEPT ![h] = [@ EXCEPT !.pc = "finish", !.order = n]]
       PROVE  \E r \in Op : NewOp(h, r)
  <2> DEFINE r == [o EXCEPT !.pc = "finish", !.order = n]
  <2>1. r \in Op /\ r.pc = "finish" /\ r.cart = o.cart /\ r.kind = o.kind
    BY DEF Op, PCs
  <2>2. OpOK(r)
    BY <1>10, <2>1 DEF OpOK, AgentPCs
  <2> QED
    BY <1>10, <2>1, <2>2, <1>d
<1>11. CASE PlaceOrder(h)
  BY <1>11, <1>10, <1>b DEF PlaceOrder, At, PCs
<1>12. CASE CreateFails(h)
  BY <1>12, <1>b DEF CreateFails, At, PCs
<1>13. CASE AmendRead(h)
  BY <1>13, <1>b DEF AmendRead, At, PCs, OpOK
<1>14. CASE AmendOrder(h) \/ AmendFails(h)
  BY <1>14, <1>b DEF AmendOrder, AmendFails, At, PCs
<1>15. CASE LookForOrder(h)
  <2>1. newest \in Orders \cup {NoOrder}
    BY TypeParts DEF RestOK
  <2> QED
    BY <1>15, <2>1, <1>10, <1>b, <1>c DEF LookForOrder, At, PCs
<1> QED
  BY <1>1, <1>3, <1>4, <1>5, <1>6, <1>7, <1>8, <1>9, <1>11, <1>12, <1>13,
     <1>14, <1>15 DEF Step

\* the same of the agent
LEMMA AgentOp ==
  ASSUME TypeOK, NEW h \in Handlers, Ask(h) \/ Agent(h)
  PROVE  \E r \in Op : NewOp(h, r)
<1> DEFINE o == op[h]
<1>a. op \in Ops /\ o \in Op /\ OpOK(o)
  BY TypeParts DEF Ops
<1>b. ASSUME NEW r \in Op, op' = [op EXCEPT ![h] = r], OpOK(r)
      PROVE  \E q \in Op : NewOp(h, q)
  BY <1>a, <1>b, PutEffect DEF NewOp
<1>c. Done(h) => \E r \in Op : NewOp(h, r)
  BY <1>a, DoneEffect, IdleTyped DEF NewOp
<1>d. ASSUME NEW pc \in AgentPCs, Goto(h, pc),
             pc = "agentClear" => o.cart \in Carts,
             pc \in {"agentAmend", "agentClear", "agentRecord"} => o.order \in Orders
      PROVE  \E r \in Op : NewOp(h, r)
  <2> DEFINE r == [o EXCEPT !.pc = pc]
  <2>1. Changes(h, r)
    BY <1>a, <1>d, GotoEffect
  <2>2. r.pc = pc /\ r.cart = o.cart /\ r.order = o.order
    BY <1>a DEF Op
  <2>3. OpOK(r)
    BY <1>d, <2>2 DEF OpOK, AgentPCs
  <2> QED
    BY <2>1, <2>3 DEF NewOp, Changes
<1>1. CASE Ask(h)
  <2> DEFINE r == [Idle EXCEPT !.pc = "agentCart", !.order = activeOrder]
  <2>1. r \in Op /\ r.pc = "agentCart"
    BY TypeParts DEF RestOK, Idle, Op, AgentPCs
  <2>2. OpOK(r)
    BY <2>1 DEF OpOK, AgentPCs
  <2> QED
    BY <1>1, <1>b, <2>1, <2>2 DEF Ask
<1>2. CASE AgentFindsCart(h)
  <2>1. ASSUME NEW c \in Carts,
               op' = [op EXCEPT ![h] = [@ EXCEPT !.pc = "agentOrder", !.cart = c]]
        PROVE  \E r \in Op : NewOp(h, r)
    <3> DEFINE r == [o EXCEPT !.pc = "agentOrder", !.cart = c]
    <3>1. r \in Op /\ r.pc = "agentOrder"
      BY <1>a DEF Op, AgentPCs
    <3>2. OpOK(r)
      BY <3>1 DEF OpOK, AgentPCs
    <3> QED
      BY <1>b, <2>1, <3>1, <3>2
  <2> QED
    BY <1>2, <1>d, <2>1 DEF AgentFindsCart, AgentPCs
<1>3. CASE AgentReadsOrder(h)
  <2>1. o.order \in Orders \cup {NoOrder}
    BY <1>a, Fields
  <2> QED
    BY <1>3, <1>d, <2>1 DEF AgentReadsOrder, AgentPCs
<1>4. /\ AfterAgentOrder(h) \in {"agentClear", "agentRecord"}
      /\ AfterAgentOrder(h) = "agentClear" => o.cart \in Carts
  BY <1>a, Fields DEF AfterAgentOrder
<1>5. CASE AgentPlaces(h)
  <2>1. ASSUME NEW n \in Orders,
               op' = [op EXCEPT ![h] = [@ EXCEPT !.pc = AfterAgentOrder(h), !.order = n]]
        PROVE  \E r \in Op : NewOp(h, r)
    <3> DEFINE pc == AfterAgentOrder(h)
               r == [o EXCEPT !.pc = pc, !.order = n]
    <3> HIDE DEF pc
    <3>1. /\ r \in Op /\ r.pc = pc
          /\ r.order = n /\ r.cart = o.cart
      BY <1>a, <1>4 DEF Op, AgentPCs, pc
    <3>2. OpOK(r)
      BY <1>4, <3>1 DEF OpOK, AgentPCs, pc
    <3> QED
      BY <1>b, <2>1, <3>1, <3>2 DEF pc
  <2> QED
    BY <1>5, <1>c, <2>1 DEF AgentPlaces
<1>6. CASE AgentAmends(h)
  <2>1. o.order \in Orders
    BY <1>6, <1>a DEF AgentAmends, At, OpOK
  <2> QED
    BY <1>6, <1>4, <1>d, <2>1 DEF AgentAmends, AgentPCs
<1>7. CASE AgentClears(h)
  <2>1. o.order \in Orders
    BY <1>7, <1>a DEF AgentClears, At, OpOK
  <2> QED
    BY <1>7, <1>d, <2>1 DEF AgentClears, AgentPCs
<1>8. CASE AgentFails(h) \/ AgentRecords(h)
  BY <1>8, <1>c DEF AgentFails, AgentRecords
<1> QED
  BY <1>1, <1>2, <1>3, <1>5, <1>6, <1>7, <1>8 DEF Agent

LEMMA StepRest ==
  ASSUME TypeOK, [Next]_vars
  PROVE  RestOK'
<1> USE TypeParts DEF RestOK, bounds, conversation
<1>1. ASSUME NEW h \in Handlers, Step(h) PROVE RestOK'
  <2>1. CASE FindCart(h) \/ GetCart(h) \/ ReadActiveOrder(h) \/ ReadNewest(h)
             \/ CreateFails(h) \/ AmendRead(h) \/ AmendFails(h)
             \/ LookForOrder(h)
    BY <2>1 DEF FindCart, GetCart, ReadActiveOrder, ReadNewest, CreateFails,
                AmendRead, AmendFails, LookForOrder
  <2>2. ASSUME NEW c \in Carts, NEW st \in {"ACTIVE", "CHECKED_OUT"}
        PROVE  [cart EXCEPT ![c].status = st] \in [Carts -> CartRow]
    <3>1. [cart[c] EXCEPT !.status = st] \in CartRow
      BY DEF CartRow
    <3> QED
      BY <3>1
  <2>3. ASSUME NEW c \in Carts, NEW b \in BOOLEAN
        PROVE  [cart EXCEPT ![c].filled = b] \in [Carts -> CartRow]
    <3>1. [cart[c] EXCEPT !.filled = b] \in CartRow
      BY DEF CartRow
    <3> QED
      BY <3>1
  <2>4. /\ op[h] \in Op
        /\ op[h].pc \in PCs \ {"idle", "find", "make"} => op[h].cart \in Carts
    BY DEF Ops, OpOK, PCs, AgentPCs
  <2>5. CASE MakeCart(h)
    BY <2>5, <2>2 DEF MakeCart
  <2>6. CASE Claim(h) \/ ReopenCart(h)
    BY <2>6, <2>2, <2>4 DEF Claim, ReopenCart, At, PCs
  <2>7. CASE ChangeItems(h)
    BY <2>7, <2>3, <2>4 DEF ChangeItems, PCs
  <2>8. CASE PlaceOrder(h) \/ AmendOrder(h)
    <3> DEFINE c == op[h].cart
    <3>a. c \in Carts
      BY <2>8, <2>4 DEF PlaceOrder, AmendOrder, At, PCs
    <3>b. sold' = [sold EXCEPT ![c] = sold[c] + 1]
      BY <2>8 DEF PlaceOrder, AmendOrder
    <3>1. sold' \in [Carts -> Nat]
      BY <3>a, <3>b
    <3>2. /\ order' \in [Orders -> {"ABSENT", "OPEN", "CLOSED"}]
          /\ newest' \in Orders \cup {NoOrder}
      BY <2>8 DEF PlaceOrder, AmendOrder
    <3> QED
      BY <2>8, <3>1, <3>2 DEF PlaceOrder, AmendOrder
  <2>9. CASE Finish(h)
    BY <2>9, <2>4, Fields DEF Finish
  <2> QED
    BY <1>1, <2>1, <2>5, <2>6, <2>7, <2>8, <2>9 DEF Step
<1>2. CASE \E h \in Handlers : Crash(h) \/ \E k \in Taps : Tap(h, k)
  <2>1. CASE \E h \in Handlers : Crash(h)
    BY <2>1 DEF Crash
  <2>2. ASSUME NEW h \in Handlers, NEW k \in Taps, Tap(h, k) PROVE RestOK'
    BY <2>2 DEF Tap
  <2> QED
    BY <1>2, <2>1, <2>2
<1>3. CASE BeginCheckout \/ GiveDetails \/ CancelCheckout
  BY <1>3 DEF BeginCheckout, GiveDetails, CancelCheckout
<1>4. CASE \E o \in Orders : OrderMoves(o)
  BY <1>4 DEF OrderMoves
<1>5. CASE UNCHANGED vars
  BY <1>5 DEF vars
<1>6. ASSUME NEW h \in Handlers, Ask(h) \/ Agent(h) PROVE RestOK'
  <2>1. CASE Ask(h)
    BY <2>1 DEF Ask
  <2>2. CASE \/ AgentFindsCart(h) \/ AgentReadsOrder(h) \/ AgentAmends(h)
             \/ AgentFails(h)
    BY <2>2 DEF AgentFindsCart, AgentReadsOrder, AgentAmends, AgentFails
  <2>3. CASE AgentPlaces(h)
    BY <2>3 DEF AgentPlaces
  <2>4. CASE AgentClears(h)
    <3>1. op[h].cart \in Carts
      BY <2>4 DEF AgentClears, At, OpOK, AgentPCs
    <3>2. [cart[op[h].cart] EXCEPT !.filled = FALSE] \in CartRow
      BY <3>1 DEF CartRow
    <3> QED
      BY <2>4, <3>1, <3>2 DEF AgentClears
  <2>5. CASE AgentRecords(h)
    BY <2>5, Fields DEF AgentRecords, Ops
  <2> QED
    BY <1>6, <2>1, <2>2, <2>3, <2>4, <2>5 DEF Agent
<1> QED
  BY <1>1, <1>2, <1>3, <1>4, <1>5, <1>6 DEF Next

LEMMA TypeNext == TypeOK /\ [Next]_vars => TypeOK'
<1> SUFFICES ASSUME TypeOK, [Next]_vars PROVE TypeOK'
  OBVIOUS
<1>1. ASSUME NEW h \in Handlers, NEW r \in Op, NewOp(h, r) PROVE TypeOK'
  <2>1. op' \in Ops /\ \A g \in Handlers : OpOK(op'[g])
    BY <1>1, TypeParts, OpOKKept DEF NewOp, Changes
  <2> QED
    BY <2>1, StepRest, TypeParts DEF Ops, TypeOK, RestOK
<1>2. CASE UNCHANGED op
  BY <1>2, StepRest DEF TypeOK, RestOK
<1> QED
  BY <1>1, <1>2, StepOp, AgentOp
     DEF Next, BeginCheckout, GiveDetails, CancelCheckout, OrderMoves, vars

\* Every reachable state is well typed.
THEOREM CartTypes == Spec => []TypeOK
  BY TypeInit, TypeNext, PTL DEF Spec

-----------------------------------------------------------------------------
(* The inductive invariant: a cart that was bought stays closed, because    *)
(* the one checkout that holds it knows, or can find out, that it placed    *)
(* an order: the newest one is not the one it saw before it began.          *)

KnownOrders ==
    /\ newest # NoOrder => order[newest] # "ABSENT"
    /\ \A h \in Handlers :
         op[h].before # NoOrder => order[op[h].before] # "ABSENT"

IInv == TypeOK /\ OneHolder /\ SoldIsClosed /\ BoughtOnce /\ KnownOrders

LEMMA InvInit == Init => IInv
<1> SUFFICES ASSUME Init PROVE IInv
  OBVIOUS
<1>1. \A h \in Handlers : op[h] = Idle
  BY DEF Init
<1>2. \A h \in Handlers : op[h].pc = "idle" /\ op[h].before = NoOrder
  BY <1>1 DEF Idle
<1>3. newest = NoOrder /\ \A c \in Carts : sold[c] = 0
  BY DEF Init
<1> QED
  BY <1>2, <1>3, TypeInit
     DEF IInv, OneHolder, SoldIsClosed, BoughtOnce, KnownOrders, Holds, Holding

\* A handler that stands at a call outside a checkout's critical part, or
\* that ends, disturbs nothing the invariant is about.
LEMMA Outside ==
  ASSUME IInv, TypeOK', UNCHANGED <<order, newest, sold>>,
         \A c \in Carts : cart[c].status = "CHECKED_OUT"
                            => cart'[c].status = "CHECKED_OUT",
         NEW h \in Handlers, NEW r \in Op, Changes(h, r),
         r.pc \notin Holding,
         r.before \in {NoOrder, op[h].before, newest}
  PROVE  IInv'
<1> USE DEF IInv, Holds
<1>1. \A g \in Handlers : op'[g].pc \in Holding => op'[g] = op[g]
  BY DEF Changes
<1>2. OneHolder'
  BY <1>1 DEF OneHolder
<1>3. \A g \in Handlers : Unsettled(g)' => Unsettled(g) /\ op'[g] = op[g]
  BY <1>1 DEF Unsettled, CommittedSince, Holding
<1>4. SoldIsClosed'
  BY <1>3 DEF SoldIsClosed
<1>5. KnownOrders'
  BY DEF KnownOrders, Changes
<1> QED
  BY <1>2, <1>4, <1>5 DEF BoughtOnce

\* A checkout that goes on holding its cart, and goes to place, amend, look
\* or reopen only if it has not put the cart on an order.
LEMMA Inside ==
  ASSUME IInv, TypeOK', UNCHANGED <<cart, order, newest, sold>>,
         NEW h \in Handlers, NEW r \in Op, Changes(h, r),
         op[h].pc \in Holding, r.pc \in Holding,
         r.cart = op[h].cart, r.before = op[h].before,
         sold[r.cart] > 0 => ~Unsettled(h)'
  PROVE  IInv'
<1> USE DEF IInv, Holds
<1>1. \A g \in Handlers : /\ op'[g].cart = op[g].cart
                          /\ op'[g].before = op[g].before
                          /\ op'[g].pc \in Holding <=> op[g].pc \in Holding
                          /\ g # h => op'[g] = op[g]
  BY DEF Changes
<1>2. OneHolder'
  BY <1>1 DEF OneHolder
<1>3. \A g \in Handlers : g # h => (Unsettled(g)' <=> Unsettled(g))
  BY <1>1 DEF Unsettled, CommittedSince
<1>4. op'[h].cart = r.cart
  BY DEF Changes
<1>5. SoldIsClosed'
  BY <1>1, <1>3, <1>4 DEF SoldIsClosed
<1>6. KnownOrders'
  BY <1>1 DEF KnownOrders
<1> QED
  BY <1>2, <1>5, <1>6 DEF BoughtOnce

\* The claim: an active cart has not been bought and nobody holds it.
LEMMA Claimed ==
  ASSUME IInv, TypeOK', NEW h \in Handlers, Claim(h)
  PROVE  IInv'
<1> DEFINE c == op[h].cart
<1> USE DEF IInv
<1>1. op \in Ops /\ op[h] \in Op /\ c \in Carts
  BY TypeParts DEF Ops, OpOK, Claim, At, AgentPCs
<1>2. CASE ~ClaimWhere(c)
  <2>1. Changes(h, Idle) /\ UNCHANGED <<cart, order, newest, sold>>
    BY <1>1, <1>2, DoneEffect DEF Claim
  <2> QED
    BY <2>1, IdleTyped, Outside DEF Idle, Holding
<1>3. CASE ClaimWhere(c)
  <2>1. /\ AfterClaim(h) \in {"place", "amend"}
        /\ Goto(h, AfterClaim(h))
        /\ cart' = [cart EXCEPT ![c].status = "CHECKED_OUT"]
        /\ UNCHANGED <<order, newest, sold>>
    BY <1>3 DEF Claim, AfterClaim
  <2>2. Changes(h, [op[h] EXCEPT !.pc = AfterClaim(h)])
    BY <1>1, <2>1, GotoEffect DEF PCs
  <2>3. /\ op'[h].pc \in {"place", "amend"}
        /\ op'[h].cart = c /\ op'[h].before = op[h].before
        /\ \A g \in Handlers \ {h} : op'[g] = op[g]
    BY <1>1, <2>1, <2>2 DEF Changes, Op
  <2>4. /\ cart'[c].status = "CHECKED_OUT"
        /\ \A d \in Carts \ {c} : cart'[d] = cart[d]
    BY <1>1, <2>1, TypeParts DEF RestOK, CartRow
  <2>5. cart[c].status = "ACTIVE"
    BY <1>3 DEF ClaimWhere, Active
  <2>6. \A g \in Handlers : Holds(g, c) => FALSE
    BY <1>1, <2>5 DEF OneHolder
  <2>7. OneHolder'
    BY <2>3, <2>4, <2>6 DEF OneHolder, Holds, Holding
  <2>8. sold[c] = 0
    BY <1>1, <2>5, TypeParts DEF SoldIsClosed, RestOK
  <2>9. \A g \in Handlers : g # h => (Unsettled(g)' <=> Unsettled(g))
    BY <2>1, <2>3 DEF Unsettled, CommittedSince
  <2>10. SoldIsClosed'
    BY <2>1, <2>3, <2>4, <2>8, <2>9 DEF SoldIsClosed
  <2>11. KnownOrders'
    BY <2>1, <2>3 DEF KnownOrders
  <2> QED
    BY <2>1, <2>7, <2>10, <2>11 DEF BoughtOnce
<1> QED
  BY <1>2, <1>3

\* An order is committed by the one checkout that holds the cart: the cart
\* had not been bought, and from now on the newest order tells.
LEMMA Placed ==
  ASSUME IInv, TypeOK', NEW h \in Handlers, PlaceOrder(h)
  PROVE  IInv'
<1> DEFINE c == op[h].cart
<1> USE DEF IInv
<1>1. op \in Ops /\ op[h] \in Op /\ c \in Carts /\ Holds(h, c)
      /\ op[h].pc = "place"
  BY TypeParts DEF Ops, OpOK, PlaceOrder, At, Holds, Holding, AgentPCs
<1>2. PICK o \in Orders :
        /\ order[o] = "ABSENT"
        /\ order' = [order EXCEPT ![o] = "OPEN"]
        /\ newest' = o
        /\ sold' = [sold EXCEPT ![c] = @ + 1]
        /\ \/ op' = [op EXCEPT ![h] = [@ EXCEPT !.pc = "finish", !.order = o]]
           \/ Goto(h, "look")
        /\ UNCHANGED cart
  BY DEF PlaceOrder
<1>3. /\ op'[h].pc \in {"finish", "look"}
      /\ op'[h].cart = c /\ op'[h].before = op[h].before
      /\ \A g \in Handlers \ {h} : op'[g] = op[g]
  <2>1. CASE Goto(h, "look")
    <3> DEFINE r == [op[h] EXCEPT !.pc = "look"]
    <3>1. Changes(h, r)
      BY <1>1, <2>1, GotoEffect DEF PCs
    <3>2. r.pc = "look" /\ r.cart = c /\ r.before = op[h].before
      BY <1>1 DEF Op
    <3> QED
      BY <3>1, <3>2 DEF Changes
  <2>2. CASE op' = [op EXCEPT ![h] = [@ EXCEPT !.pc = "finish", !.order = o]]
    <3> DEFINE r == [op[h] EXCEPT !.pc = "finish", !.order = o]
    <3>1. r \in Op /\ r.pc = "finish" /\ r.cart = c /\ r.before = op[h].before
      BY <1>1 DEF Op, PCs
    <3>2. Changes(h, r)
      BY <1>1, <2>2, <3>1, PutEffect
    <3> QED
      BY <3>1, <3>2 DEF Changes
  <2> QED
    BY <1>2, <2>1, <2>2
<1>4. \A g \in Handlers : op[g].before # o
  BY <1>2, CartConstants DEF KnownOrders
<1>5. sold[c] = 0
  BY <1>1, TypeParts DEF SoldIsClosed, Unsettled, RestOK
<1>6. sold'[c] = 1 /\ \A d \in Carts \ {c} : sold'[d] = sold[d]
  BY <1>1, <1>2, <1>5, TypeParts DEF RestOK
<1>7. OneHolder'
  BY <1>1, <1>2, <1>3 DEF OneHolder, Holds, Holding
<1>8. ~Unsettled(h)'
  BY <1>2, <1>3, <1>4, CartConstants DEF Unsettled, CommittedSince
<1>9. \A g \in Handlers : Unsettled(g)' => Unsettled(g) /\ g # h
  <2>1. \A g \in Handlers \ {h} :
          op'[g] = op[g] /\ (op[g].pc = "look" /\ CommittedSince(g) => CommittedSince(g)')
    BY <1>2, <1>3, <1>4, CartConstants DEF CommittedSince
  <2> QED
    BY <1>8, <2>1 DEF Unsettled
<1>10. \A g \in Handlers : op[g].cart = c /\ Unsettled(g) => g = h
  BY <1>1 DEF OneHolder, Holds, Holding, Unsettled
<1>11. SoldIsClosed'
  BY <1>1, <1>2, <1>3, <1>6, <1>9, <1>10 DEF SoldIsClosed, OneHolder
<1>12. KnownOrders'
  BY <1>2, <1>3, TypeParts DEF KnownOrders, RestOK
<1>13. BoughtOnce'
  BY <1>6 DEF BoughtOnce
<1> QED
  BY <1>7, <1>11, <1>12, <1>13

\* An amendment is committed by the one checkout that holds the cart, which
\* then finishes: no failure after the commit reopens the cart.
LEMMA Amended ==
  ASSUME IInv, TypeOK', "afterAmend" \notin Failures,
         NEW h \in Handlers, AmendOrder(h)
  PROVE  IInv'
<1> DEFINE c == op[h].cart
<1> USE DEF IInv
<1>1. op \in Ops /\ op[h] \in Op /\ c \in Carts /\ op[h].pc = "rewrite"
  BY TypeParts DEF Ops, OpOK, AmendOrder, At, AgentPCs
<1>2. /\ Goto(h, "finish") /\ UNCHANGED <<cart, order, newest>>
      /\ sold' = [sold EXCEPT ![c] = @ + 1]
  BY DEF AmendOrder, MayFail
<1>3. /\ op'[h].pc = "finish" /\ op'[h].cart = c /\ op'[h].before = op[h].before
      /\ \A g \in Handlers \ {h} : op'[g] = op[g]
  <2> DEFINE r == [op[h] EXCEPT !.pc = "finish"]
  <2>1. Changes(h, r)
    BY <1>1, <1>2, GotoEffect DEF PCs
  <2>2. r.pc = "finish" /\ r.cart = c /\ r.before = op[h].before
    BY <1>1 DEF Op
  <2> QED
    BY <2>1, <2>2 DEF Changes
<1>4. sold[c] = 0
  BY <1>1, TypeParts DEF SoldIsClosed, Unsettled, RestOK
<1>5. sold'[c] = 1 /\ \A d \in Carts \ {c} : sold'[d] = sold[d]
  BY <1>1, <1>2, <1>4, TypeParts DEF RestOK
<1>6. OneHolder'
  BY <1>1, <1>2, <1>3 DEF OneHolder, Holds, Holding
<1>7. \A g \in Handlers : Unsettled(g)' => Unsettled(g) /\ g # h
  BY <1>2, <1>3 DEF Unsettled, CommittedSince
<1>8. \A g \in Handlers : op[g].cart = c /\ Unsettled(g) => g = h
  BY <1>1 DEF OneHolder, Holds, Holding, Unsettled
<1>9. cart[c].status = "CHECKED_OUT"
  BY <1>1 DEF OneHolder, Holds, Holding
<1>10. SoldIsClosed'
  BY <1>1, <1>2, <1>3, <1>5, <1>7, <1>8, <1>9 DEF SoldIsClosed
<1>11. KnownOrders' /\ BoughtOnce'
  BY <1>2, <1>3, <1>5 DEF KnownOrders, BoughtOnce
<1> QED
  BY <1>6, <1>10, <1>11

\* The cart is given back by the one checkout that holds it, and that has not
\* put it on an order.
LEMMA Reopened ==
  ASSUME IInv, TypeOK', NEW h \in Handlers, ReopenCart(h)
  PROVE  IInv'
<1> DEFINE c == op[h].cart
<1> USE DEF IInv
<1>a. op[h].pc = "reopen" /\ Done(h) /\ UNCHANGED <<order, newest, sold>>
      /\ cart' = [cart EXCEPT ![c].status = "ACTIVE"]
  BY DEF ReopenCart, At
<1>b. op \in Ops /\ c \in Carts
  BY <1>a, TypeParts DEF OpOK, AgentPCs
<1>1. op \in Ops /\ c \in Carts /\ op[h].pc = "reopen" /\ Done(h)
      /\ UNCHANGED <<order, newest, sold>>
      /\ cart' = [cart EXCEPT ![c].status = "ACTIVE"]
  BY <1>a, <1>b
<1>2. /\ op'[h].pc = "idle" /\ op'[h].before = NoOrder
      /\ \A g \in Handlers \ {h} : op'[g] = op[g]
  BY <1>1, DoneEffect DEF Changes, Idle
<1>3. \A d \in Carts \ {c} : cart'[d] = cart[d]
  BY <1>1, TypeParts DEF RestOK, CartRow
<1>4. \A g \in Handlers : Holds(g, c) => g = h
  BY <1>1 DEF OneHolder, Holds, Holding
<1>5. OneHolder'
  BY <1>2, <1>3, <1>4 DEF OneHolder, Holds, Holding
<1>6. sold[c] = 0
  BY <1>1, TypeParts DEF SoldIsClosed, Unsettled, RestOK
<1>7. \A g \in Handlers : Unsettled(g)' => Unsettled(g) /\ g # h
  BY <1>1, <1>2 DEF Unsettled, CommittedSince
<1>8. SoldIsClosed'
  BY <1>1, <1>2, <1>3, <1>6, <1>7 DEF SoldIsClosed
<1>9. KnownOrders' /\ BoughtOnce'
  BY <1>1, <1>2 DEF KnownOrders, BoughtOnce
<1> QED
  BY <1>5, <1>8, <1>9

\* The steps of a checkout between its claim and its end that commit nothing.
LEMMA Between ==
  ASSUME IInv, TypeOK', NEW h \in Handlers,
         CreateFails(h) \/ AmendRead(h) \/ AmendFails(h) \/ LookForOrder(h)
  PROVE  IInv'
<1> DEFINE o == op[h]
<1> USE DEF IInv
<1>1. op \in Ops /\ o \in Op /\ (o.pc \in Holding => o.cart \in Carts)
  BY TypeParts DEF Ops, OpOK, Holding, AgentPCs
<1>2. UNCHANGED <<cart, order, newest, sold>> /\ o.pc \in Holding
  BY DEF CreateFails, AmendRead, AmendFails, LookForOrder, At, Holding
<1>3. sold[o.cart] > 0 => ~Unsettled(h)
  BY <1>1, <1>2 DEF SoldIsClosed
<1>4. ASSUME NEW pc \in {"rewrite", "look", "reopen"}, Goto(h, pc),
             Unsettled(h)
      PROVE  IInv'
  <2> DEFINE r == [o EXCEPT !.pc = pc]
  <2>1. Changes(h, r)
    BY <1>1, <1>4, GotoEffect DEF PCs
  <2>2. r \in Op /\ r.pc = pc /\ r.cart = o.cart /\ r.before = o.before
    BY <1>1 DEF Op, PCs
  <2> QED
    BY <1>2, <1>3, <1>4, <2>1, <2>2, Inside DEF Holding
<1>5. ASSUME NEW n \in Orders \cup {NoOrder},
             op' = [op EXCEPT ![h] = [@ EXCEPT !.pc = "finish", !.order = n]]
      PROVE  IInv'
  <2> DEFINE r == [o EXCEPT !.pc = "finish", !.order = n]
  <2>1. r \in Op /\ r.pc = "finish" /\ r.cart = o.cart /\ r.before = o.before
    BY <1>1 DEF Op, PCs
  <2>2. Changes(h, r)
    BY <1>1, <1>5, <2>1, PutEffect
  <2>3. ~Unsettled(h)'
    BY <2>1, <2>2 DEF Changes, Unsettled
  <2> QED
    BY <1>2, <2>1, <2>2, <2>3, Inside DEF Holding
<1>6. ASSUME Done(h) PROVE IInv'
  BY <1>1, <1>2, <1>6, DoneEffect, IdleTyped, Outside DEF Idle, Holding
<1>7. newest \in Orders \cup {NoOrder}
  BY TypeParts DEF RestOK
<1>8. CASE CreateFails(h)
  BY <1>8, <1>4 DEF CreateFails, At, Unsettled
<1>9. CASE AmendRead(h) \/ AmendFails(h)
  BY <1>9, <1>4 DEF AmendRead, AmendFails, At, Unsettled
<1>10. CASE LookForOrder(h)
  BY <1>10, <1>4, <1>5, <1>6, <1>7 DEF LookForOrder, At, Unsettled
<1> QED
  BY <1>8, <1>9, <1>10

\* The steps that hold no cart afterwards.
LEMMA Before ==
  ASSUME IInv, TypeOK', NEW h \in Handlers,
         \/ FindCart(h) \/ MakeCart(h) \/ ChangeItems(h) \/ GetCart(h)
         \/ ReadActiveOrder(h) \/ ReadNewest(h) \/ Finish(h) \/ Crash(h)
         \/ \E k \in Taps : Tap(h, k)
  PROVE  IInv'
<1> DEFINE o == op[h]
<1> USE DEF IInv
<1>1. op \in Ops /\ o \in Op /\ OpOK(o)
  BY TypeParts DEF Ops
<1>a. UNCHANGED <<order, newest, sold>>
  BY DEF FindCart, MakeCart, ChangeItems, GetCart, ReadActiveOrder,
         ReadNewest, Finish, Crash, Tap
<1>b. \A c \in Carts : cart[c].status = "CHECKED_OUT"
                      => cart'[c].status = "CHECKED_OUT"
  <2>1. CASE MakeCart(h)
    <3>1. PICK d \in Carts :
            /\ cart[d].status = "ABSENT"
            /\ cart' = [cart EXCEPT ![d].status = "ACTIVE"]
      BY <2>1 DEF MakeCart
    <3> QED
      BY <3>1, TypeParts DEF RestOK
  <2>2. CASE ChangeItems(h)
    <3>1. PICK b \in BOOLEAN : cart' = [cart EXCEPT ![o.cart].filled = b]
      BY <2>2 DEF ChangeItems
    <3>2. \A c \in Carts : [cart[c] EXCEPT !.filled = b].status = cart[c].status
      BY TypeParts DEF RestOK, CartRow
    <3> QED
      BY <3>1, <3>2, TypeParts DEF RestOK
  <2>3. CASE UNCHANGED cart
    BY <2>3
  <2> QED
    BY <2>1, <2>2, <2>3 DEF FindCart, MakeCart, ChangeItems, GetCart,
       ReadActiveOrder, ReadNewest, Finish, Crash, Tap
<1>3. ASSUME NEW pc \in PCs \ Holding, Goto(h, pc) PROVE IInv'
  <2> DEFINE r == [o EXCEPT !.pc = pc]
  <2>1. Changes(h, r)
    BY <1>1, <1>3, GotoEffect
  <2>2. r \in Op /\ r.pc = pc /\ r.before = o.before
    BY <1>1 DEF Op, PCs
  <2> QED
    BY <1>a, <1>b, <1>3, <2>1, <2>2, Outside
<1>4. ASSUME NEW r \in Op, op' = [op EXCEPT ![h] = r], r.pc \notin Holding,
             r.before \in {NoOrder, o.before, newest}
      PROVE  IInv'
  BY <1>1, <1>a, <1>b, <1>4, PutEffect, Outside
<1>5. ASSUME Done(h) PROVE IInv'
  BY <1>1, <1>a, <1>b, <1>5, DoneEffect, IdleTyped, Outside DEF Idle, Holding
<1>6. ASSUME NEW c \in Carts, o.pc \in {"find", "make"}, With(h, c) PROVE IInv'
  <2> DEFINE pc == IF o.kind = "confirm" THEN "get" ELSE o.kind
             r == [o EXCEPT !.cart = c, !.pc = pc]
  <2>1. o.kind \in Taps
    BY <1>1, <1>6 DEF OpOK, AgentPCs
  <2>2. pc \in {"get", "add", "clear", "set"}
    BY <2>1 DEF Taps
  <2> HIDE DEF pc
  <2>3. r \in Op /\ r.pc = pc /\ r.before = o.before
    BY <1>1, <2>2 DEF Op, PCs
  <2> USE DEF pc
  <2>4. r.pc \notin Holding
    BY <2>2, <2>3 DEF Holding
  <2> QED
    BY <1>6, <2>3, <2>4, <1>4 DEF With
<1>7. ASSUME NEW k \in Taps, Tap(h, k) PROVE IInv'
  <2> DEFINE r == [Idle EXCEPT !.pc = "find", !.kind = k]
  <2>1. r \in Op /\ r.pc = "find" /\ r.before = NoOrder
    BY DEF Idle, Op, PCs
  <2> QED
    BY <1>7, <2>1, <1>4 DEF Tap, Holding
<1>8. CASE FindCart(h)
  BY <1>8, <1>3, <1>6 DEF FindCart, At, PCs, Holding
<1>9. CASE MakeCart(h)
  BY <1>9, <1>6 DEF MakeCart, At
<1>10. CASE ChangeItems(h) \/ Finish(h) \/ Crash(h)
  BY <1>10, <1>5 DEF ChangeItems, Finish, Crash
<1>11. CASE GetCart(h)
  BY <1>11, <1>3, <1>5 DEF GetCart, PCs, Holding
<1>12. CASE ReadActiveOrder(h)
  <2> DEFINE r == [o EXCEPT !.pc = "claim", !.order = activeOrder]
  <2>1. r \in Op /\ r.pc = "claim" /\ r.before = o.before
    BY <1>1, TypeParts DEF RestOK, Op, PCs
  <2> QED
    BY <1>12, <2>1, <1>3, <1>4 DEF ReadActiveOrder, PCs, Holding
<1>13. CASE ReadNewest(h)
  <2> DEFINE r == [o EXCEPT !.pc = "claim", !.before = newest]
  <2>1. r \in Op /\ r.pc = "claim" /\ r.before = newest
    BY <1>1, TypeParts DEF RestOK, Op, PCs
  <2> QED
    BY <1>13, <2>1, <1>4 DEF ReadNewest, Holding
<1> QED
  BY <1>7, <1>8, <1>9, <1>10, <1>11, <1>12, <1>13

\* The agent holds no cart: it fills its own order and empties the cart's
\* items, whoever holds the cart ...
LEMMA AgentOutside ==
  ASSUME IInv, TypeOK', NEW h \in Handlers, Ask(h) \/ Agent(h), ~AgentPlaces(h)
  PROVE  IInv'
<1> DEFINE o == op[h]
<1> USE DEF IInv
<1>1. op \in Ops /\ o \in Op /\ OpOK(o)
  BY TypeParts DEF Ops
<1>2. UNCHANGED <<order, newest, sold>>
  BY DEF Ask, Agent, AgentFindsCart, AgentReadsOrder, AgentAmends, AgentFails,
         AgentClears, AgentRecords
<1>3. \A c \in Carts : cart[c].status = "CHECKED_OUT"
                      => cart'[c].status = "CHECKED_OUT"
  <2>1. CASE AgentClears(h)
    <3>1. cart' = [cart EXCEPT ![o.cart].filled = FALSE]
      BY <2>1 DEF AgentClears
    <3>2. \A c \in Carts : [cart[c] EXCEPT !.filled = FALSE].status = cart[c].status
      BY TypeParts DEF RestOK, CartRow
    <3> QED
      BY <3>1, <3>2, TypeParts DEF RestOK
  <2>2. CASE UNCHANGED cart
    BY <2>2
  <2> QED
    BY <2>1, <2>2 DEF Ask, Agent, AgentFindsCart, AgentReadsOrder, AgentAmends,
                      AgentFails, AgentRecords
<1>4. ASSUME NEW r \in Op, op' = [op EXCEPT ![h] = r], r.pc \in AgentPCs,
             r.before \in {NoOrder, o.before}
      PROVE  IInv'
  <2>1. r.pc \notin Holding
    BY <1>4 DEF AgentPCs, Holding
  <2> QED
    BY <1>1, <1>2, <1>3, <1>4, <2>1, PutEffect, Outside
<1>5. ASSUME NEW pc \in AgentPCs, Goto(h, pc) PROVE IInv'
  <2> DEFINE r == [o EXCEPT !.pc = pc]
  <2>1. r \in Op /\ r.pc = pc /\ r.before = o.before
    BY <1>1 DEF Op
  <2> QED
    BY <1>4, <1>5, <2>1 DEF Goto
<1>6. ASSUME Done(h) PROVE IInv'
  BY <1>1, <1>2, <1>3, <1>6, DoneEffect, IdleTyped, Outside DEF Idle, Holding
<1>7. CASE Ask(h)
  <2> DEFINE r == [Idle EXCEPT !.pc = "agentCart", !.order = activeOrder]
  <2>1. r \in Op /\ r.pc \in AgentPCs /\ r.before = NoOrder
    BY TypeParts DEF RestOK, Idle, Op, AgentPCs
  <2> QED
    BY <1>4, <1>7, <2>1 DEF Ask
<1>8. CASE AgentFindsCart(h)
  <2>1. ASSUME NEW c \in Carts,
               op' = [op EXCEPT ![h] = [@ EXCEPT !.pc = "agentOrder", !.cart = c]]
        PROVE  IInv'
    <3> DEFINE r == [o EXCEPT !.pc = "agentOrder", !.cart = c]
    <3>1. r \in Op /\ r.pc \in AgentPCs /\ r.before = o.before
      BY <1>1 DEF Op, AgentPCs
    <3> QED
      BY <1>4, <2>1, <3>1
  <2> QED
    BY <1>5, <1>8, <2>1 DEF AgentFindsCart, AgentPCs
<1>9. CASE AgentReadsOrder(h) \/ AgentAmends(h) \/ AgentClears(h)
  BY <1>5, <1>9 DEF AgentReadsOrder, AgentAmends, AgentClears, AfterAgentOrder,
                    AgentPCs
<1>10. CASE AgentFails(h) \/ AgentRecords(h)
  BY <1>6, <1>10 DEF AgentFails, AgentRecords
<1> QED
  BY <1>7, <1>8, <1>9, <1>10 DEF Agent

\* ... and the order it places is newer than any that a checkout remembers, so
\* that a checkout which looks for its own order takes it for the one it
\* placed.
LEMMA AgentPlaced ==
  ASSUME IInv, TypeOK', NEW h \in Handlers, AgentPlaces(h)
  PROVE  IInv'
<1> USE DEF IInv
<1>1. op \in Ops /\ op[h] \in Op
  BY TypeParts DEF Ops
<1>2. PICK n \in Orders :
        /\ order[n] = "ABSENT"
        /\ order' = [order EXCEPT ![n] = "OPEN"]
        /\ newest' = n
        /\ \/ op' = [op EXCEPT ![h] = [@ EXCEPT !.pc = AfterAgentOrder(h), !.order = n]]
           \/ Done(h)
        /\ UNCHANGED <<cart, sold>>
  BY DEF AgentPlaces
<1>3. /\ op'[h].pc \notin Holding
      /\ op'[h].before \in {NoOrder, op[h].before}
      /\ \A g \in Handlers \ {h} : op'[g] = op[g]
  <2>1. CASE Done(h)
    BY <1>1, <2>1, DoneEffect DEF Changes, Idle, Holding
  <2>2. CASE op' = [op EXCEPT ![h] = [@ EXCEPT !.pc = AfterAgentOrder(h), !.order = n]]
    BY <1>1, <2>2 DEF Ops, Op, AfterAgentOrder, Holding
  <2> QED
    BY <1>2, <2>1, <2>2
<1>4. \A g \in Handlers : op[g].before # n
  BY <1>2, CartConstants DEF KnownOrders
<1>5. OneHolder'
  BY <1>2, <1>3 DEF OneHolder, Holds
<1>6. \A g \in Handlers : Unsettled(g)' => Unsettled(g) /\ op'[g] = op[g]
  <2>1. ~Unsettled(h)'
    BY <1>3 DEF Unsettled, Holding
  <2>2. ASSUME NEW g \in Handlers \ {h}, Unsettled(g)'
        PROVE  Unsettled(g) /\ op'[g] = op[g]
    BY <1>2, <1>3, <1>4, <2>2, CartConstants DEF Unsettled, CommittedSince
  <2> QED
    BY <2>1, <2>2
<1>7. SoldIsClosed'
  BY <1>2, <1>6 DEF SoldIsClosed
<1>8. KnownOrders'
  BY <1>2, <1>3, TypeParts DEF KnownOrders, RestOK
<1>9. BoughtOnce'
  BY <1>2 DEF BoughtOnce
<1> QED
  BY <1>5, <1>7, <1>8, <1>9

LEMMA InvNext ==
  ASSUME "afterAmend" \notin Failures
  PROVE  IInv /\ [Next]_vars => IInv'
<1> SUFFICES ASSUME IInv, [Next]_vars PROVE IInv'
  OBVIOUS
<1>1. TypeOK'
  BY TypeNext DEF IInv
<1>2. ASSUME NEW h \in Handlers,
             Step(h) \/ Crash(h) \/ \E k \in Taps : Tap(h, k)
      PROVE  IInv'
  BY <1>1, <1>2, Before, Claimed, Placed, Amended, Reopened, Between DEF Step
<1>3. ASSUME NEW o \in Orders, OrderMoves(o) PROVE IInv'
  <2>1. /\ UNCHANGED <<cart, newest, op, sold>>
        /\ \A p \in Orders : order[p] # "ABSENT" => order'[p] # "ABSENT"
    BY <1>3, TypeParts DEF IInv, OrderMoves, RestOK
  <2>2. KnownOrders'
    BY <2>1, TypeParts, Fields DEF IInv, KnownOrders, RestOK, Ops
  <2> QED
    BY <1>1, <2>1, <2>2
       DEF IInv, OneHolder, SoldIsClosed, BoughtOnce, Holds, Unsettled,
           CommittedSince
<1>4. CASE UNCHANGED <<cart, order, newest, op, sold>>
  BY <1>1, <1>4 DEF IInv, OneHolder, SoldIsClosed, BoughtOnce, KnownOrders,
                    Holds, Unsettled, CommittedSince
<1>5. ASSUME NEW h \in Handlers, Ask(h) \/ Agent(h) PROVE IInv'
  BY <1>1, <1>5, AgentOutside, AgentPlaced
<1> QED
  BY <1>2, <1>3, <1>4, <1>5
     DEF Next, BeginCheckout, GiveDetails, CancelCheckout, vars

\* One cart never becomes two orders and is never put on an order twice, and
\* what was bought is never on offer again (checkout), as long as nothing
\* fails after an amendment was committed.
THEOREM CartBoughtOnce ==
  ASSUME "afterAmend" \notin Failures
  PROVE  Spec => [](BoughtOnce /\ OneHolder /\ SoldIsClosed)
<1>1. Init => IInv
  BY InvInit
<1>2. IInv /\ [Next]_vars => IInv'
  BY InvNext
<1>3. IInv => BoughtOnce /\ OneHolder /\ SoldIsClosed
  BY DEF IInv
<1> QED
  BY <1>1, <1>2, <1>3, PTL DEF Spec

\* Of the same invariant, each for itself: only one checkout works on a cart it
\* claimed, the cart staying closed meanwhile (checkout's updateMany) ...
THEOREM CartHasOneHolder ==
  ASSUME "afterAmend" \notin Failures
  PROVE  Spec => []OneHolder
  BY CartBoughtOnce, PTL

\* ... and what is on an order stays closed, no checkout being about to place
\* or to reopen it (checkout's catch).
THEOREM CartStaysClosed ==
  ASSUME "afterAmend" \notin Failures
  PROVE  Spec => []SoldIsClosed
  BY CartBoughtOnce, PTL
=============================================================================
