---------------------------- MODULE ShoppingFlow ----------------------------
(***************************************************************************)
(* The button-driven shop of one conversation: the prompts it is in       *)
(* (Conversation.shoppingState), the item, address and payment method it  *)
(* is waiting for, the basket, and the order placed from them.            *)
(*                                                                         *)
(* Every button ever sent stays tappable, so a tap may arrive in any      *)
(* state.  A handler works on the conversation it read; another message   *)
(* may be handled before it writes, and it may die before it writes.      *)
(* What a search lists is in ShoppingSearch: here only the prompt it      *)
(* leaves the conversation in matters.                                     *)
(***************************************************************************)
EXTENDS Naturals

CONSTANTS
  Variants, Absent,
  Alone,       \* the variants that are the only one of their product
  MaxOrders    \* bound: orders placed

\* what a handler in flight read of the conversation, and whether it has placed its order
Snapshots == [asks : {"quantity", "address", "tap", "anything", "chat"}, item : Variants \cup {Absent},
              ready : BOOLEAN, escalated : BOOLEAN, placed : BOOLEAN]

ASSUME FlowAssumption ==
  /\ MaxOrders \in Nat /\ Alone \subseteq Variants
  /\ Absent \notin Nat \cup Variants \cup Snapshots

VARIABLES
  state,      \* Conversation.shoppingState
  pending,    \* pendingVariantId
  address,    \* pendingAddress: the number of orders placed when it was given, or Absent
  method,     \* pendingPaymentMethod was chosen
  basket,     \* the variants in the active cart
  orders,     \* orders placed
  escalated,  \* a human answers this conversation
  handling,       \* what a handler in flight read, or Absent
  disturbed   \* history: a message was handled while another one was, or a handler died

flowVars == <<state, pending, address, method, basket, orders, escalated, handling, disturbed>>

States == {"IDLE", "MAIN_MENU", "BROWSING_CATEGORIES", "BROWSING_PRODUCTS", "VIEWING_PRODUCT",
           "AWAITING_QUANTITY", "CART_REVIEW", "COLLECTING_ADDRESS", "COLLECTING_PAYMENT",
           "ORDER_CONFIRMATION"}
Browsing == {"MAIN_MENU", "BROWSING_CATEGORIES", "BROWSING_PRODUCTS", "VIEWING_PRODUCT"}

Stay == UNCHANGED <<state, pending, address, method, basket, orders>>
MoveTo(s) == state' = s /\ UNCHANGED <<pending, address, method, basket, orders>>
Prompt(s, v) == state' = s /\ pending' = v /\ UNCHANGED <<address, method, basket, orders>>

-----------------------------------------------------------------------------
(* Browsing *)

SendMainMenu == MoveTo("MAIN_MENU")

\* a category's products, the whole catalogue, or a dead end
ShowProducts == MoveTo("BROWSING_PRODUCTS") \/ MoveTo("IDLE")
ShowShop == MoveTo("BROWSING_CATEGORIES") \/ ShowProducts

ShowOutOfStockKeepsPrompt ==
  \/ Stay
  \/ \E v \in Alone : Prompt("AWAITING_QUANTITY", v)
  \/ Alone # {} /\ Prompt("AWAITING_QUANTITY", Absent)
  \/ Variants # Alone /\ MoveTo("VIEWING_PRODUCT")

\* the page of v's product: the only variant is offered at once, in stock or not; several are listed
ShowProductDetail ==
  \/ Stay
  \/ \E v \in Alone : Prompt("AWAITING_QUANTITY", v)
  \/ Alone # {} /\ Prompt("VIEWING_PRODUCT", Absent)
  \/ Variants # Alone /\ MoveTo("VIEWING_PRODUCT")

AskQuantity == Stay \/ \E v \in Variants : Prompt("AWAITING_QUANTITY", v)

\* the cart took the change; the channel refused to say so, and the handler failed before it moved the prompt
OnlyTheCart(baskets) == basket' \in baskets /\ UNCHANGED <<state, pending, address, method, orders>>

\* add, set or remove a line, or be refused: either way the customer is browsing again
MutateCartItem ==
  \E v \in Variants :
    LET baskets == {basket, basket \cup {v}, basket \ {v}}
    IN  \/ /\ state' = "BROWSING_PRODUCTS" /\ basket' \in baskets
           /\ UNCHANGED <<pending, address, method, orders>>
        \/ OnlyTheCart(baskets)
QuickAddToCart ==
  \/ Stay
  \/ /\ state' = "BROWSING_PRODUCTS"
     /\ \E v \in Variants : basket' \in {basket, basket \cup {v}}
     /\ UNCHANGED <<pending, address, method, orders>>

SimilarProductsShown == Stay \/ MoveTo("BROWSING_PRODUCTS")

ShowCart == IF basket = {} THEN Stay ELSE MoveTo("CART_REVIEW")

\* a variant the customer asked for: one is in stock, several are, or none
PromptForVariant ==
  (\E v \in Variants : Prompt("AWAITING_QUANTITY", v)) \/ MoveTo("VIEWING_PRODUCT")

\* "the first one" of the results last shown
TryOrdinalReference == ShowProductDetail

\* requests that a text is read as
TryCartAdd == MutateCartItem
TrySetCartQuantity == MutateCartItem
TryRemoveFromCart == Stay \/ MutateCartItem
TryViewCart == ShowCart
TryRecommendationPick == Stay \/ ShowProductDetail
TryProductDetailsByName == ShowProductDetail
ListFound == MoveTo("BROWSING_PRODUCTS")

\* what the patterns can take a text for; one that none takes is searched for
Readings == {"ordinal", "add", "set", "remove", "viewCart", "pick", "details", "question", "discovery", "search"}

Search ==
  \E reading \in Readings :
    \/ reading = "ordinal" /\ TryOrdinalReference
    \/ reading = "add" /\ TryCartAdd
    \/ reading = "set" /\ TrySetCartQuantity
    \/ reading = "remove" /\ TryRemoveFromCart
    \/ reading = "viewCart" /\ TryViewCart
    \/ reading = "pick" /\ TryRecommendationPick
    \/ reading = "details" /\ TryProductDetailsByName
    \/ reading = "question" /\ Stay
    \/ reading = "discovery" /\ ShowShop
    \/ reading = "search" /\ (ListFound \/ PromptForVariant \/ Stay)

\* the assistant's "the first one": ask how many, as the buttons do
TryResolveReference == \E v \in Variants : Prompt("AWAITING_QUANTITY", v)

-----------------------------------------------------------------------------
(* Prompts and checkout.  `from` is the conversation the handler read *)

\* what a reply to "how many?" says: numbers 0 for none of use, and words beside the number
Replies == [affirmative : BOOLEAN, number : 0..1, otherWords : 0..2, hasBudget : BOOLEAN,
            question : BOOLEAN, interruption : BOOLEAN]

\* "2", "three pairs" and "yes" are quantities of an item in the prompt; "pearl earrings under 1300" is a request
ReadQuantityReply(reply, item) ==
  LET plain == reply.number > 0 /\ reply.otherWords <= 1 /\ ~reply.hasBudget /\ ~reply.question
  IN  IF item # Absent /\ (reply.affirmative \/ plain) THEN "quantity"
      ELSE IF reply.interruption \/ reply.question \/ reply.hasBudget \/ reply.otherWords >= 2 THEN "request"
      ELSE "unclear"
QuantityReadings == [item \in Variants \cup {Absent} |-> {ReadQuantityReply(reply, item) : reply \in Replies}]

\* the item may be gone; the cart may refuse, or the channel after it
ReceiveQuantity(from) ==
  \E reading \in QuantityReadings[from.item] :
    \/ reading = "request" /\ Search
    \/ reading = "unclear" /\ Stay
    \/ /\ reading = "quantity"
       /\ \/ Prompt("BROWSING_PRODUCTS", Absent)
          \/ OnlyTheCart({basket, basket \cup {from.item}})
          \/ /\ state' = "CART_REVIEW" /\ pending' = Absent
             /\ basket' = basket \cup {from.item}
             /\ UNCHANGED <<address, method, orders>>

ClearCart == basket' = {} /\ UNCHANGED <<state, pending, address, method, orders>>

BeginCheckout == IF basket = {} THEN ShowCart ELSE MoveTo("COLLECTING_ADDRESS")

\* a question or a short text is not an address
ReceiveAddress ==
  \/ Stay
  \/ /\ state' = "COLLECTING_PAYMENT" /\ address' = orders
     /\ UNCHANGED <<pending, method, basket, orders>>

SetPaymentMethod ==
  /\ state' = "ORDER_CONFIRMATION" /\ method' = TRUE
  /\ UNCHANGED <<pending, address, basket, orders>>

CancelCheckout ==
  /\ state' = "CART_REVIEW" /\ address' = Absent /\ method' = FALSE
  /\ UNCHANGED <<pending, basket, orders>>

\* a list of the orders, or a new payment link for one: the prompt stays
ShowOrders == Stay
RetryPayment == Stay

Restart == IF basket = {} THEN Stay ELSE MoveTo("COLLECTING_ADDRESS")

\* nothing is kept for the next order
Cleared == state' = "IDLE" /\ pending' = Absent /\ address' = Absent /\ method' = FALSE
KeptForNextTime == state' = "IDLE" /\ pending' = Absent /\ UNCHANGED <<address, method>>
AfterOrder == Cleared

CanPlace(from) == from.ready /\ basket # {} /\ orders < MaxOrders

\* both answers are needed; the cart may refuse, or another confirmation has it
ConfirmOrder(from) ==
  \/ ~from.ready /\ Restart
  \/ from.ready /\ Stay
  \/ CanPlace(from) /\ orders' = orders + 1 /\ basket' = {} /\ AfterOrder

-----------------------------------------------------------------------------
(* Routing *)

HandleInteractive(from) ==
  \/ ShowShop
  \/ ShowCart
  \/ ShowProducts
  \/ ShowProductDetail
  \/ AskQuantity
  \/ QuickAddToCart
  \/ SimilarProductsShown
  \/ BeginCheckout
  \/ ClearCart
  \/ SetPaymentMethod
  \/ ConfirmOrder(from)
  \/ CancelCheckout
  \/ ShowOrders
  \/ RetryPayment

HandleFreeText(from) ==
  \/ from.asks = "quantity" /\ ReceiveQuantity(from)
  \/ from.asks = "address" /\ ReceiveAddress
  \/ from.asks = "tap" /\ (CancelCheckout \/ Stay)
  \/ from.asks = "anything" /\ Search
  \/ from.asks = "chat" /\ (TryResolveReference \/ Stay)

HandleTurn(from) ==
  \/ SendMainMenu
  \/ ~from.escalated /\ HandleInteractive(from)
  \/ ~from.escalated /\ HandleFreeText(from)

-----------------------------------------------------------------------------
FlowInit ==
  /\ state = "IDLE" /\ pending = Absent /\ address = Absent /\ method = FALSE
  /\ basket = {} /\ orders = 0 /\ escalated = FALSE
  /\ handling = Absent /\ disturbed = FALSE

\* what the text of a customer is taken for in a state
Asks ==
  CASE state = "AWAITING_QUANTITY" -> "quantity"
    [] state = "COLLECTING_ADDRESS" -> "address"
    [] state \in {"COLLECTING_PAYMENT", "ORDER_CONFIRMATION"} -> "tap"
    [] state \in Browsing -> "anything"
    [] state \in {"IDLE", "CART_REVIEW"} -> "chat"

\* what a handler uses of the conversation it read
FlowReading == [asks |-> Asks, item |-> IF Asks = "quantity" THEN pending ELSE Absent,
        ready |-> address # Absent /\ method, escalated |-> escalated, placed |-> FALSE]

FlowAtOnce ==
  /\ HandleTurn(FlowReading)
  /\ disturbed' = (disturbed \/ handling # Absent)
  /\ UNCHANGED <<escalated, handling>>
\* bound: one overlap, or one death, in a behaviour
StartFlow ==
  /\ handling = Absent /\ ~disturbed /\ handling' = FlowReading
  /\ UNCHANGED <<state, pending, address, method, basket, orders, escalated, disturbed>>
FinishFlow ==
  /\ handling # Absent /\ ~handling.placed
  /\ HandleTurn(handling)
  /\ handling' = Absent /\ UNCHANGED <<escalated, disturbed>>

\* cart.checkout has returned an order; the conversation is updated after that
Place ==
  /\ handling # Absent /\ ~handling.placed /\ ~handling.escalated /\ CanPlace(handling)
  /\ orders' = orders + 1 /\ basket' = {}
  /\ handling' = [handling EXCEPT !.placed = TRUE]
  /\ UNCHANGED <<state, pending, address, method, escalated, disturbed>>
RecordPlaced ==
  /\ handling # Absent /\ handling.placed
  /\ AfterOrder /\ handling' = Absent
  /\ UNCHANGED <<basket, orders, escalated, disturbed>>
Die ==
  /\ handling # Absent /\ handling.placed
  /\ handling' = Absent /\ disturbed' = TRUE
  /\ UNCHANGED <<state, pending, address, method, basket, orders, escalated>>

EscalateOrResume ==
  /\ escalated' = ~escalated
  /\ UNCHANGED <<state, pending, address, method, basket, orders, handling, disturbed>>

FlowNext == FlowAtOnce \/ StartFlow \/ FinishFlow \/ Place \/ RecordPlaced \/ Die \/ EscalateOrResume

FlowSpec == FlowInit /\ [][FlowNext]_flowVars

-----------------------------------------------------------------------------
\* Every variable of the flow has its type.
FlowTypeOK ==
  /\ state \in States /\ pending \in Variants \cup {Absent}
  /\ address \in 0..MaxOrders \cup {Absent} /\ method \in BOOLEAN
  /\ basket \subseteq Variants /\ orders \in 0..MaxOrders /\ escalated \in BOOLEAN
  /\ handling \in Snapshots \cup {Absent} /\ disturbed \in BOOLEAN

\* A prompt has what its answer is for, whatever tap or late handler left it: a number typed at "how many?" has an item,
\* a payment choice an address, a confirmation a method (shopping-flow.service.ts 254-265, 1377-1440).
PromptHasItsItem ==
  /\ state = "AWAITING_QUANTITY" => pending # Absent
  /\ state = "COLLECTING_PAYMENT" => address # Absent
  /\ state = "ORDER_CONFIRMATION" => method

\* An order goes to an address the customer gave after the previous order, never to one left over from it,
\* as long as no two messages were handled at once and no handler died between the order and the update.
AddressIsFresh ==
  [][(orders' # orders /\ ~disturbed) => address = orders]_flowVars
=============================================================================
