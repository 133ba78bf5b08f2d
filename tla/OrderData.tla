------------------------------ MODULE OrderData ------------------------------
(***************************************************************************)
(* The rows of the order store and the pure helpers of OrderService and of *)
(* the worker's order jobs: lifecycle and shipment statuses, which orders   *)
(* hold stock, what reserving and releasing does to the counters, and the   *)
(* checks each handler makes on the row it has read.                        *)
(*                                                                         *)
(* Some helpers have a second form just above them, a slip that is easy to *)
(* make in that code (CanReserveUnchecked, NextStageShort, ...).  Nothing   *)
(* uses those forms: put in the helper's place, each shows that the         *)
(* property which guards that code can fail.                                *)
(***************************************************************************)
EXTENDS Integers, FiniteSets

CONSTANTS
    Orders,         \* order ids
    Variants,       \* catalogue variants whose stock is tracked
    Links,          \* Razorpay payment links that can be created
    NoOrder,        \* "no order"
    NoLink,         \* razorpayPaymentLinkId = null
    MaxQty,         \* largest quantity of one variant on an order
    Limit,          \* business.autonomyMaxOrderValue
    TotalOf(_)      \* total of an item list, shipping fee included

Items   == [Variants -> 0 .. MaxQty]
NoItems == [v \in Variants |-> 0]

ASSUME ConstantsOK ==
    /\ IsFiniteSet(Orders)
    /\ NoOrder \notin Orders
    /\ NoLink \notin Links
    /\ MaxQty \in Nat
    /\ Limit \in Nat
    /\ \A items \in Items : TotalOf(items) \in Nat

OrderStatus == {"DRAFT", "AWAITING_APPROVAL", "PENDING_PAYMENT", "PAID",
                "FULFILLED", "CANCELLED", "REFUNDED"}
Terminal    == {"CANCELLED", "REFUNDED"}
Amendable   == {"DRAFT", "AWAITING_APPROVAL", "PENDING_PAYMENT"}
Waiting     == {"AWAITING_APPROVAL", "PENDING_PAYMENT"}

\* the shipment pipeline of the worker, and every fulfilment status
Stages      == {"PACKED", "SHIPPED", "OUT_FOR_DELIVERY", "DELIVERED"}
Fulfilment  == Stages \cup {"NOT_STARTED", "FAILED", "RETURNED"}

Methods     == {"NONE", "COD", "ONLINE"}

-----------------------------------------------------------------------------
(* One row per order id: ABSENT before it is inserted, DELETED after the    *)
(* test-data reset has removed it (ids are never reused).                   *)

Row == [status  : OrderStatus \cup {"ABSENT", "DELETED"},
        fulfil  : Fulfilment,
        method  : Methods,
        items   : Items,
        link    : Links \cup {NoLink},
        payment : Links \cup {NoLink}]

NoRow == [status |-> "ABSENT", fulfil |-> "NOT_STARTED", method |-> "NONE",
          items |-> NoItems, link |-> NoLink, payment |-> NoLink]

Present(r) == r.status \in OrderStatus
Due(r)     == TotalOf(r.items)

\* An order that was inserted and not cancelled, refunded or deleted holds
\* its items: they were taken off the shelf and were not put back.
Holds(r)   == r.status \in OrderStatus \ Terminal
Held(r, v) == IF Holds(r) THEN r.items[v] ELSE 0

\* The units of variant v that the orders of a table hold, one element per
\* unit, so that "how many units are held" is the cardinality of one set.
Units(table, v) ==
    {u \in Orders \X (1 .. MaxQty) : u[2] <= Held(table[u[1]], v)}

-----------------------------------------------------------------------------
(* reserveStock and releaseStock, each inside the caller's transaction.     *)

CanReserveUnchecked(inv, items) == TRUE
CanReserve(inv, items) == \A v \in Variants : inv[v] >= items[v]
Reserve(inv, items)    == [v \in Variants |-> inv[v] - items[v]]
Release(inv, items)    == [v \in Variants |-> inv[v] + items[v]]

\* create: the status an order is inserted with
Exceeds(items) == TotalOf(items) > Limit
InitialStatusUnlimited(method, items) ==
    IF method = "NONE" THEN "DRAFT" ELSE "PENDING_PAYMENT"
InitialStatus(method, items) ==
    IF method = "NONE" THEN "DRAFT"
    ELSE IF Exceeds(items) THEN "AWAITING_APPROVAL" ELSE "PENDING_PAYMENT"

\* create: the statuses an unattended order expires in
ExpiresWhenPayable(status) == status = "PENDING_PAYMENT"
Expires(status) == status \in Waiting

\* replaceItems: the status an amended order is written with, computed from
\* the row that was read before the transaction
AmendedStatus(seen, items) ==
    IF Exceeds(items) /\ seen.status = "PENDING_PAYMENT"
    THEN "AWAITING_APPROVAL" ELSE seen.status

\* updateStatus: the target statuses that put the items back on the shelf
ReleasingCancelOnly(target) == target = "CANCELLED"
Releasing(target) == target \in Terminal

-----------------------------------------------------------------------------
(* The worker's checks on the row a job has read.                           *)

StatusRank(s) ==
    CASE s \in {"DRAFT", "AWAITING_APPROVAL"} -> 0
      [] s = "PENDING_PAYMENT"                -> 1
      [] s = "PAID"                           -> 2
      [] s = "FULFILLED"                      -> 3
      [] OTHER                                -> 99

FulfilRank(f) ==
    CASE f = "NOT_STARTED"      -> 0
      [] f = "PACKED"           -> 1
      [] f = "SHIPPED"          -> 2
      [] f = "OUT_FOR_DELIVERY" -> 3
      [] f = "DELIVERED"        -> 4
      [] OTHER                  -> 5

\* the stage the pipeline schedules after stage s ("none" after the last)
NextStageShort(s) ==
    CASE s = "PACKED"           -> "SHIPPED"
      [] s = "SHIPPED"          -> "OUT_FOR_DELIVERY"
      [] OTHER                  -> "none"
NextStage(s) ==
    CASE s = "PACKED"           -> "SHIPPED"
      [] s = "SHIPPED"          -> "OUT_FOR_DELIVERY"
      [] s = "OUT_FOR_DELIVERY" -> "DELIVERED"
      [] OTHER                  -> "none"

\* processPayment goes on to mark the order PAID
PayAppliesToTerminal(r) == Present(r)
PayApplies(r) == /\ Present(r)
                 /\ r.status \notin Terminal
                 /\ StatusRank(r.status) < StatusRank("PAID")

\* processFulfillmentStage goes on to write stage s
StageApplies(r, s) == /\ Present(r)
                      /\ r.status \notin Terminal
                      /\ FulfilRank(r.fulfil) < FulfilRank(s)

\* processOrderExpiry goes on to cancel
ExpiryApplies(r, expected) == r.status = expected

\* What the database checks when the Razorpay confirmation is written: the
\* order is still PENDING_PAYMENT and its total is the one just verified.
ConfirmWhereStatusOnly(r, seen) == r.status = "PENDING_PAYMENT"
ConfirmWhereNothing(r, seen)    == Present(r)
ConfirmWhere(r, seen) == /\ r.status = "PENDING_PAYMENT"
                         /\ Due(r) = Due(seen)

\* The condition of a retry's updateMany: of several taps one link is attached.
AttachWhereIdOnly(r) == Present(r)
AttachWhere(r) == r.status = "PENDING_PAYMENT" /\ r.link = NoLink
=============================================================================
