----------------------------- MODULE CartCheckout -----------------------------
(***************************************************************************)
(* The carts of one conversation, from the first tap on "Add to cart" to    *)
(* the order: CartService, ShoppingFlowService.confirmOrder and the agent's *)
(* executeCreateOrder.  Every tap and every text is a webhook delivery of   *)
(* its own, so handlers interleave between their database calls, and any of *)
(* them may die between two calls (Crash).                                  *)
(*                                                                         *)
(* A checkout closes (claims) the cart first, places or amends the order    *)
(* next, and reopens the cart if it finds that nothing was placed.  Which   *)
(* of its calls may fail, and when, is the constant Failures.  The agent    *)
(* claims nothing: it copies the active cart's items to its order and       *)
(* empties the cart afterwards.                                             *)
(***************************************************************************)
EXTENDS Integers, FiniteSets

CONSTANTS
    Carts,          \* cart ids
    Orders,         \* order ids of the conversation
    NoCart,
    NoOrder,        \* "no order"
    Handlers,       \* slots for handlers running at the same time
    Failures,       \* what may go wrong in a checkout
    MaxTaps,        \* bound: how many taps are handled
    MaxCrashes      \* bound: how many handlers die half way

FailureKinds == {"stock", "create", "afterCreate", "amend", "afterAmend",
                 "look"}

ASSUME CartConstants ==
    /\ NoCart \notin Carts /\ NoOrder \notin Orders
    /\ Failures \subseteq FailureKinds
    /\ {MaxTaps, MaxCrashes} \subseteq Nat

VARIABLES
    cart,           \* the Cart table: status, and whether there are items
    order,          \* orders: not placed, amendable (OPEN) or not (CLOSED)
    newest,         \* the conversation's order with the latest createdAt
    activeOrder,    \* conversation.activeOrderId
    details,        \* pendingAddress and pendingPaymentMethod: not asked for,
                    \* asked for (shoppingState), or given
    op,             \* what each handler is doing
    taps,           \* bound: taps so far
    crashes,        \* bound: handlers that have died so far
    sold            \* history: how often checkouts put a cart on an order

conversation == <<activeOrder, details>>
bounds == <<taps, crashes>>
vars == <<cart, order, newest, conversation, op, bounds, sold>>

Taps == {"add", "clear", "set", "confirm"}
PCs == {"idle", "find", "make", "add", "clear", "set", "get", "active",
        "newest", "claim", "place", "amend", "rewrite", "look", "reopen",
        "finish"}
AgentPCs == {"agentCart", "agentOrder", "agentPlace", "agentAmend",
             "agentClear", "agentRecord"}

NoCartRow == [status |-> "ABSENT", filled |-> FALSE]
Idle == [pc |-> "idle", kind |-> "none", cart |-> NoCart, order |-> NoOrder,
         before |-> NoOrder]

Init ==
    /\ cart = [c \in Carts |-> NoCartRow]
    /\ order = [o \in Orders |-> "ABSENT"]
    /\ newest = NoOrder
    /\ activeOrder = NoOrder
    /\ details = "none"
    /\ op = [h \in Handlers |-> Idle]
    /\ taps = 0
    /\ crashes = 0
    /\ sold = [c \in Carts |-> 0]

-----------------------------------------------------------------------------
At(h, pc) == op[h].pc = pc
Goto(h, pc) == op' = [op EXCEPT ![h].pc = pc]
Done(h) == op' = [op EXCEPT ![h] = Idle]
Active(c) == cart[c].status = "ACTIVE"
MayFail(f) == f \in Failures

(* A tap arrives.  "Confirm" is handled only while an address and a payment *)
(* method are known (confirmOrder: otherwise it only replies).              *)
Tap(h, kind) ==
    /\ taps < MaxTaps
    /\ taps' = taps + 1
    /\ kind = "confirm" => details = "given"
    /\ op[h] = Idle
    /\ op' = [op EXCEPT ![h] = [Idle EXCEPT !.pc = "find", !.kind = kind]]
    /\ UNCHANGED <<cart, order, newest, conversation, crashes, sold>>

(* beginCheckout asks for the address if there is something to check out;  *)
(* the cart may have changed when the answers arrive (receiveAddress,       *)
(* setPaymentMethod).  cancelCheckout forgets them.                         *)
BeginCheckout ==
    /\ details = "none"
    /\ \E c \in Carts : Active(c) /\ cart[c].filled
    /\ details' = "asked"
    /\ UNCHANGED <<cart, order, newest, activeOrder, op, bounds, sold>>

GiveDetails ==
    /\ details = "asked"
    /\ details' = "given"
    /\ UNCHANGED <<cart, order, newest, activeOrder, op, bounds, sold>>

CancelCheckout ==
    /\ details # "none"
    /\ details' = "none"
    /\ UNCHANGED <<cart, order, newest, activeOrder, op, bounds, sold>>

-----------------------------------------------------------------------------
(* getOrCreateActive: look for an active cart, and create one if there was  *)
(* none (two handlers may both find none).                                  *)

With(h, c) ==
    op' = [op EXCEPT ![h] = [@ EXCEPT !.cart = c,
             !.pc = IF op[h].kind = "confirm" THEN "get" ELSE op[h].kind]]

FindCart(h) ==
    /\ At(h, "find")
    /\ IF \E c \in Carts : Active(c)
       THEN \E c \in Carts : Active(c) /\ With(h, c)
       ELSE Goto(h, "make")
    /\ UNCHANGED <<cart, order, newest, conversation, bounds, sold>>

MakeCart(h) ==
    /\ At(h, "make")
    /\ \E c \in Carts :
         /\ cart[c].status = "ABSENT"
         /\ cart' = [cart EXCEPT ![c].status = "ACTIVE"]
         /\ With(h, c)
    /\ UNCHANGED <<order, newest, conversation, bounds, sold>>

\* addItem, clear and updateItemQuantity write the items of the cart they
\* were given, whatever its status is by then
ChangeItems(h) ==
    LET c == op[h].cart
    IN  /\ op[h].pc \in {"add", "clear", "set"}
        /\ \E filled \in BOOLEAN :
             /\ At(h, "add") => filled
             /\ At(h, "clear") => ~filled
             /\ At(h, "set") => (filled => cart[c].filled)
             /\ cart' = [cart EXCEPT ![c].filled = filled]
        /\ Done(h)
        /\ UNCHANGED <<order, newest, conversation, bounds, sold>>

-----------------------------------------------------------------------------
(* checkout.                                                                *)

\* the cart is read: not active any more, empty, or with an item that is no
\* longer available, it is refused
GetCart(h) ==
    LET c == op[h].cart
    IN  /\ At(h, "get")
        /\ \/ Active(c) /\ cart[c].filled /\ Goto(h, "active")
           \/ Done(h)
        /\ UNCHANGED <<cart, order, newest, conversation, bounds, sold>>

\* an order of the conversation that can still be amended is amended;
\* otherwise a new one is placed, and the newest one so far is remembered
ReadActiveOrder(h) ==
    /\ At(h, "active")
    /\ IF activeOrder # NoOrder /\ order[activeOrder] = "OPEN"
       THEN op' = [op EXCEPT ![h] = [@ EXCEPT !.pc = "claim",
                                              !.order = activeOrder]]
       ELSE Goto(h, "newest")
    /\ UNCHANGED <<cart, order, newest, conversation, bounds, sold>>

ReadNewest(h) ==
    /\ At(h, "newest")
    /\ op' = [op EXCEPT ![h] = [@ EXCEPT !.pc = "claim", !.before = newest]]
    /\ UNCHANGED <<cart, order, newest, conversation, bounds, sold>>

\* the conditional update: of several confirmations one gets past it, and
\* goes on to amend the order it read or to place one
AfterClaimAmends(h) == "amend"
AfterClaim(h) == IF op[h].order = NoOrder THEN "place" ELSE "amend"

ClaimWhereNothing(c) == cart[c].status # "ABSENT"
ClaimWhere(c) == Active(c)

Claim(h) ==
    LET c == op[h].cart
    IN  /\ At(h, "claim")
        /\ IF ClaimWhere(c)
           THEN /\ cart' = [cart EXCEPT ![c].status = "CHECKED_OUT"]
                /\ Goto(h, AfterClaim(h))
           ELSE Done(h) /\ UNCHANGED cart
        /\ UNCHANGED <<order, newest, conversation, bounds, sold>>

\* OrderService.create commits; a later step of it may still fail
PlaceOrder(h) ==
    /\ At(h, "place")
    /\ \E o \in Orders :
         /\ order[o] = "ABSENT"
         /\ order' = [order EXCEPT ![o] = "OPEN"]
         /\ newest' = o
         /\ sold' = [sold EXCEPT ![op[h].cart] = @ + 1]
         /\ \/ op' = [op EXCEPT ![h] = [@ EXCEPT !.pc = "finish", !.order = o]]
            \/ MayFail("afterCreate") /\ Goto(h, "look")
    /\ UNCHANGED <<cart, conversation, bounds>>

\* ... or is refused (an HTTP error: the cart is given back), or fails
\* otherwise before it commits
CreateFails(h) ==
    /\ At(h, "place")
    /\ \/ MayFail("stock") /\ Goto(h, "reopen")
       \/ MayFail("create") /\ Goto(h, "look")
    /\ UNCHANGED <<cart, order, newest, conversation, bounds, sold>>

\* replaceItems on the open order: it checks the order again, and commits
AmendRead(h) ==
    /\ At(h, "amend")
    /\ Goto(h, IF order[op[h].order] = "OPEN" THEN "rewrite" ELSE "reopen")
    /\ UNCHANGED <<cart, order, newest, conversation, bounds, sold>>

AmendOrder(h) ==
    /\ At(h, "rewrite")
    /\ sold' = [sold EXCEPT ![op[h].cart] = @ + 1]
    /\ \/ Goto(h, "finish")
       \/ MayFail("afterAmend") /\ Goto(h, "reopen")
    /\ UNCHANGED <<cart, order, newest, conversation, bounds>>

AmendFails(h) ==
    /\ At(h, "rewrite")
    /\ MayFail("stock") \/ MayFail("amend")
    /\ Goto(h, "reopen")
    /\ UNCHANGED <<cart, order, newest, conversation, bounds, sold>>

\* orderCommittedSince: was an order placed after all?
CommittedSinceNever(h) == FALSE
CommittedSince(h) == newest # NoOrder /\ newest # op[h].before

LookForOrder(h) ==
    /\ At(h, "look")
    /\ \/ IF CommittedSince(h)
          THEN op' = [op EXCEPT ![h] = [@ EXCEPT !.pc = "finish",
                                                 !.order = newest]]
          ELSE Goto(h, "reopen")
       \/ MayFail("look") /\ Done(h)
    /\ UNCHANGED <<cart, order, newest, conversation, bounds, sold>>

ReopenCart(h) ==
    /\ At(h, "reopen")
    /\ cart' = [cart EXCEPT ![op[h].cart].status = "ACTIVE"]
    /\ Done(h)
    /\ UNCHANGED <<order, newest, conversation, bounds, sold>>

\* confirmOrder: the checkout is over and the order is the active one
Finish(h) ==
    /\ At(h, "finish")
    /\ activeOrder' = op[h].order
    /\ details' = "none"
    /\ Done(h)
    /\ UNCHANGED <<cart, order, newest, bounds, sold>>

-----------------------------------------------------------------------------
(* The agent reads an order in the customer's text (executeCreateOrder): it *)
(* works on the conversation it read before it asked the model.             *)
Ask(h) ==
    /\ taps < MaxTaps
    /\ taps' = taps + 1
    /\ op[h] = Idle
    /\ op' = [op EXCEPT ![h] = [Idle EXCEPT !.pc = "agentCart",
                                           !.order = activeOrder]]
    /\ UNCHANGED <<cart, order, newest, conversation, crashes, sold>>

\* findActiveForConversation makes no cart; an empty one is passed over
AgentFindsCart(h) ==
    /\ At(h, "agentCart")
    /\ \/ \E c \in Carts :
            /\ Active(c) /\ cart[c].filled
            /\ op' = [op EXCEPT ![h] = [@ EXCEPT !.pc = "agentOrder", !.cart = c]]
       \/ /\ \/ \A c \in Carts : ~Active(c)
             \/ \E c \in Carts : Active(c) /\ ~cart[c].filled
          /\ Goto(h, "agentOrder")
    /\ UNCHANGED <<cart, order, newest, conversation, bounds, sold>>

AgentReadsOrder(h) ==
    /\ At(h, "agentOrder")
    /\ Goto(h, IF op[h].order # NoOrder /\ order[op[h].order] = "OPEN"
               THEN "agentAmend" ELSE "agentPlace")
    /\ UNCHANGED <<cart, order, newest, conversation, bounds, sold>>

AfterAgentOrder(h) == IF op[h].cart = NoCart THEN "agentRecord" ELSE "agentClear"

\* a failure ends the turn with an apology, also when the order is committed
AgentPlaces(h) ==
    /\ At(h, "agentPlace")
    /\ \E o \in Orders :
         /\ order[o] = "ABSENT"
         /\ order' = [order EXCEPT ![o] = "OPEN"]
         /\ newest' = o
         /\ \/ op' = [op EXCEPT ![h] = [@ EXCEPT !.pc = AfterAgentOrder(h), !.order = o]]
            \/ MayFail("afterCreate") /\ Done(h)
    /\ UNCHANGED <<cart, conversation, bounds, sold>>

AgentAmends(h) ==
    /\ At(h, "agentAmend")
    /\ order[op[h].order] = "OPEN"
    /\ Goto(h, AfterAgentOrder(h))
    /\ UNCHANGED <<cart, order, newest, conversation, bounds, sold>>

AgentFails(h) ==
    /\ \/ At(h, "agentPlace") /\ (MayFail("stock") \/ MayFail("create"))
       \/ At(h, "agentAmend") /\ \/ order[op[h].order] # "OPEN"
                                 \/ Failures \cap {"stock", "amend", "afterAmend"} # {}
    /\ Done(h)
    /\ UNCHANGED <<cart, order, newest, conversation, bounds, sold>>

\* whatever the cart's status is by then, and whatever was added since (a
\* failure here ends the turn like a crash)
AgentClears(h) ==
    /\ At(h, "agentClear")
    /\ cart' = [cart EXCEPT ![op[h].cart].filled = FALSE]
    /\ Goto(h, "agentRecord")
    /\ UNCHANGED <<order, newest, conversation, bounds, sold>>

AgentRecords(h) ==
    /\ At(h, "agentRecord")
    /\ activeOrder' = op[h].order
    /\ Done(h)
    /\ UNCHANGED <<cart, order, newest, details, bounds, sold>>

Agent(h) ==
    \/ AgentFindsCart(h) \/ AgentReadsOrder(h) \/ AgentPlaces(h)
    \/ AgentAmends(h) \/ AgentFails(h) \/ AgentClears(h) \/ AgentRecords(h)

-----------------------------------------------------------------------------
(* An order is paid, cancelled or expires, or a merchant sets its status.   *)
OrderMoves(o) ==
    /\ order[o] # "ABSENT"
    /\ order' = [order EXCEPT ![o] = IF @ = "OPEN" THEN "CLOSED" ELSE "OPEN"]
    /\ UNCHANGED <<cart, newest, conversation, op, bounds, sold>>

Crash(h) ==
    /\ op[h] # Idle
    /\ crashes < MaxCrashes
    /\ crashes' = crashes + 1
    /\ Done(h)
    /\ UNCHANGED <<cart, order, newest, conversation, taps, sold>>

Step(h) ==
    \/ FindCart(h)  \/ MakeCart(h)        \/ ChangeItems(h)
    \/ GetCart(h)   \/ ReadActiveOrder(h) \/ ReadNewest(h)
    \/ Claim(h)     \/ PlaceOrder(h)      \/ CreateFails(h)
    \/ AmendRead(h) \/ AmendOrder(h)      \/ AmendFails(h)
    \/ LookForOrder(h) \/ ReopenCart(h)   \/ Finish(h)

Next ==
    \/ \E h \in Handlers : Step(h) \/ Crash(h) \/ \E k \in Taps : Tap(h, k)
    \/ \E h \in Handlers : Ask(h) \/ Agent(h)
    \/ BeginCheckout \/ GiveDetails \/ CancelCheckout
    \/ \E o \in Orders : OrderMoves(o)

Spec == Init /\ [][Next]_vars

-----------------------------------------------------------------------------
(* Properties.                                                              *)

CartRow == [status : {"ABSENT", "ACTIVE", "CHECKED_OUT"}, filled : BOOLEAN]
Op == [pc : PCs \cup AgentPCs, kind : Taps \cup {"none"}, cart : Carts \cup {NoCart},
       order : Orders \cup {NoOrder}, before : Orders \cup {NoOrder}]

\* what a handler knows when it stands at a given call
OpOK(r) ==
    /\ r.pc = "idle" => r = Idle
    /\ r.pc \notin AgentPCs \cup {"idle"} => r.kind \in Taps
    /\ r.pc \notin (AgentPCs \ {"agentClear"}) \cup {"idle", "find", "make"}
         => r.cart \in Carts
    /\ r.pc \in {"amend", "rewrite", "agentAmend", "agentClear", "agentRecord"}
         => r.order \in Orders

TypeOK ==
    /\ cart \in [Carts -> CartRow]
    /\ order \in [Orders -> {"ABSENT", "OPEN", "CLOSED"}]
    /\ newest \in Orders \cup {NoOrder}
    /\ activeOrder \in Orders \cup {NoOrder}
    /\ details \in {"none", "asked", "given"}
    /\ op \in [Handlers -> Op]
    /\ \A h \in Handlers : OpOK(op[h])
    /\ taps \in Nat /\ crashes \in Nat
    /\ sold \in [Carts -> Nat]

\* checkouts that hold a cart: they have claimed it and have not let it go
Holding == {"place", "amend", "rewrite", "look", "reopen", "finish"}
Holds(h, c) == op[h].cart = c /\ op[h].pc \in Holding

\* checkouts that know, or will find out, that nothing was placed
Unsettled(h) ==
    \/ op[h].pc \in {"place", "amend", "rewrite", "reopen"}
    \/ op[h].pc = "look" /\ ~CommittedSince(h)

\* No checkout turns one cart into two orders, nor twice into the same one: a
\* double tap on Confirm, a failure after the order was committed, a reopened
\* cart and a second checkout put a cart on an order at most once (checkout).
\* (It does not count the agent, who claims no cart: what a checkout has read
\* may be on the agent's order too.)
BoughtOnce == \A c \in Carts : sold[c] <= 1

\* A conversation has at most one active cart (the comment on model Cart of
\* schema.prisma): getOrCreateActive and a reopened cart both break it.
OneActiveCart == \A c, d \in Carts : Active(c) /\ Active(d) => c = d

\* The claim is exclusive: from the conditional update to the end of the
\* checkout the cart is closed, and no other checkout holds it (checkout).
OneHolder ==
    \A h \in Handlers, c \in Carts :
      Holds(h, c) => /\ cart[c].status = "CHECKED_OUT"
                     /\ \A g \in Handlers : Holds(g, c) => g = h

\* What is on an order is never on offer again: the cart is closed and no
\* checkout is going to place it or to reopen it.
SoldIsClosed ==
    \A c \in Carts : sold[c] > 0 =>
      /\ cart[c].status = "CHECKED_OUT"
      /\ \A h \in Handlers : op[h].cart = c => ~Unsettled(h)

\* Checking out is one step for the customer: seen from outside, an open cart
\* is bought once, in the step that commits the order, or given up; a checkout
\* that is still undecided has neither bought nor given up its cart.
Undecided(h) == op[h].pc \in {"place", "amend", "rewrite", "look", "reopen"}

phase ==
    [c \in Carts |->
       CASE cart[c].status = "ABSENT" -> "new"
         [] Active(c) -> "open"
         [] \E h \in Handlers :
              op[h].cart = c /\ Undecided(h) /\ sold[c] = 0 -> "open"
         [] OTHER -> "closed"]

Purchases == INSTANCE Purchase WITH phase <- phase, sold <- sold, Carts <- Carts
CheckoutIsOneStep == Purchases!Spec
=============================================================================
