--------------------------- MODULE OrderLifecycle ---------------------------
(***************************************************************************)
(* Orders from checkout to delivery: the API handlers of OrderService, the *)
(* Razorpay webhook and the worker's order jobs, all working on the same    *)
(* order rows and stock counters.                                           *)
(*                                                                         *)
(* Each running handler is a slot of `op': it holds the row it has read     *)
(* (`seen') and the database call it makes next (`pc').  One action is one  *)
(* database call, transaction, Razorpay request or queue insertion, so      *)
(* handlers interleave exactly between the awaits of the code, and a        *)
(* handler may die between any two of them (Crash).                         *)
(***************************************************************************)
EXTENDS OrderData

CONSTANTS
    Supply,         \* units of each variant before any order is placed
    Handlers,       \* slots for handlers running at the same time
    Requests,       \* the kinds of request that are made
    MaxRequests,    \* bound: how many requests are made
    MaxCrashes,     \* bound: how many handlers die half way
    Answers         \* what Razorpay may answer to a request for a link

Kinds == {"create", "approve", "amend", "retry", "status", "fulfil",
          "webhook", "reset"}

\* order-progress and order-expiry jobs: mark paid, advance to a shipment
\* stage, cancel if still in the status the job was scheduled for
Job == [kind : {"pay"},    o : Orders, target : {"PAID"}]
  \cup [kind : {"stage"},  o : Orders, target : Stages]
  \cup [kind : {"expire"}, o : Orders, target : Waiting]

PayJob(o)       == [kind |-> "pay",    o |-> o, target |-> "PAID"]
StageJob(o, s)  == [kind |-> "stage",  o |-> o, target |-> s]
ExpireJob(o, s) == [kind |-> "expire", o |-> o, target |-> s]

ASSUME AnswersOK == Answers \subseteq {"created", "refused", "not configured"}
ASSUME SupplyOK == Supply \in [Variants -> Nat]
ASSUME BoundsOK == Requests \subseteq Kinds /\ {MaxRequests, MaxCrashes} \subseteq Nat

VARIABLES
    row,            \* the Order table
    inventory,      \* Variant.inventory
    razorpay,       \* external: the payment links Razorpay has created
    queue,          \* BullMQ: how many copies of each job are waiting
    op,             \* what each handler slot is doing
    used,           \* bound: requests made so far
    crashes,        \* bound: handlers that have died so far
    \* history, for the properties only
    offered,        \* links sent to the customer, with the total due then
    opened,         \* how often each order became PENDING_PAYMENT
    confirmed,      \* how often a Razorpay payment confirmed it
    everPaid,       \* orders that have been PAID or FULFILLED
    reviewed,       \* orders a merchant approved or set the status of
    stale           \* orders written from a row that had changed meanwhile

history == <<offered, opened, confirmed, everPaid, reviewed, stale>>
bounds  == <<used, crashes>>
vars    == <<row, inventory, razorpay, queue, op, bounds, history>>

-----------------------------------------------------------------------------
NoTable == [o \in Orders |-> NoRow]
Idle == [pc |-> "idle", kind |-> "none", o |-> NoOrder, seen |-> NoTable,
         want |-> NoItems, target |-> "none", link |-> NoLink,
         failed |-> FALSE]

PCs == {"idle", "link", "attach", "clear", "progress", "expiry", "reply",
        "approve", "amend", "reread", "status", "fulfil", "read_paid",
        "confirm", "pay", "stage", "schedule", "expire", "reset"}

Op == [pc : PCs, kind : Kinds \cup {"none", "pay", "stage", "expire"},
       o : Orders \cup {NoOrder}, seen : [Orders -> Row], want : Items,
       target : OrderStatus \cup Fulfilment \cup {"none"},
       link : Links \cup {NoLink}, failed : BOOLEAN]

NotCreated == [order |-> NoOrder, amount |-> 0, paid |-> FALSE]

Init ==
    /\ row = NoTable
    /\ inventory = Supply
    /\ razorpay = [l \in Links |-> NotCreated]
    /\ queue = [j \in Job |-> 0]
    /\ op = [h \in Handlers |-> Idle]
    /\ used = 0
    /\ crashes = 0
    /\ offered = [o \in Orders |-> {}]
    /\ opened = [o \in Orders |-> 0]
    /\ confirmed = [o \in Orders |-> 0]
    /\ everPaid = {}
    /\ reviewed = {}
    /\ stale = {}

-----------------------------------------------------------------------------
(* Helpers of the actions.                                                  *)

Holding(o, r) == [NoTable EXCEPT ![o] = r]
Snapshot(o)   == Holding(o, row[o])
Seen(h)       == op[h].seen[op[h].o]

Request(k) == /\ k \in Requests
              /\ used < MaxRequests
              /\ used' = used + 1
              /\ UNCHANGED crashes

\* handler slots: start with the row of o just read, move on with or without
\* the row an update has returned, end
Handler(pc, kind, o, seen) ==
    [Idle EXCEPT !.pc = pc, !.kind = kind, !.o = o, !.seen = seen]
Begin(h, r) == op[h] = Idle /\ op' = [op EXCEPT ![h] = r]
Continue(h, pc, r) ==
    op' = [op EXCEPT ![h] = [@ EXCEPT !.pc = pc,
                                      !.seen = Holding(op[h].o, r),
                                      !.link = NoLink, !.want = NoItems]]
Done(h)     == op' = [op EXCEPT ![h] = Idle]
At(h, pc)   == op[h].pc = pc
Goto(h, pc) == op' = [op EXCEPT ![h] = [@ EXCEPT !.pc = pc]]

\* the row on which handler h decided is still the row it is writing to
SameRow(r, s) == r.status = s.status /\ r.items = s.items
Fresh(h)      == SameRow(row[op[h].o], Seen(h))

\* An update of row o to r, with the history it leaves.
SetRow(o, r) ==
    /\ row' = [row EXCEPT ![o] = r]
    /\ opened' = [opened EXCEPT ![o] =
         IF r.status = "PENDING_PAYMENT" /\ row[o].status # r.status
         THEN @ + 1 ELSE @]
    /\ everPaid' = IF r.status \in {"PAID", "FULFILLED"}
                   THEN everPaid \cup {o} ELSE everPaid

\* all that is left to do is to schedule shipment stage s
ThenScheduleBlank(h, s) ==
    op' = [op EXCEPT ![h] = [Handler("schedule", op[h].kind, NoOrder, NoTable)
                               EXCEPT !.target = s]]
ThenSchedule(h, s) ==
    op' = [op EXCEPT ![h] = [Handler("schedule", op[h].kind, op[h].o, NoTable)
                               EXCEPT !.target = s]]

MarkStale(h) == stale' = IF Fresh(h) THEN stale ELSE stale \cup {op[h].o}
Enqueue(j)   == queue' = [queue EXCEPT ![j] = @ + 1]

\* A handler has one row and the customer knows the order once creating it
\* has returned (conversation.activeOrderId is written by the caller).
Placed(o) == ~ \E h \in Handlers : op[h].o = o /\ op[h].kind = "create"

-----------------------------------------------------------------------------
(* create: reserve stock and insert the order in one transaction.           *)

NewRow(method, items) ==
    [NoRow EXCEPT !.status = InitialStatus(method, items),
                  !.method = method, !.items = items]
AfterInsert(r) ==
    IF r.status # "PENDING_PAYMENT" THEN "expiry"
    ELSE IF r.method = "ONLINE" THEN "link" ELSE "progress"

CreateTx(h, o) ==
    /\ Request("create")
    /\ row[o].status = "ABSENT"
    /\ \E items \in Items, method \in Methods :
         LET r == NewRow(method, items)
         IN  /\ CanReserve(inventory, items)
             /\ inventory' = Reserve(inventory, items)
             /\ SetRow(o, r)
             /\ Begin(h, Handler(AfterInsert(r), "create", o, Holding(o, r)))
    /\ UNCHANGED <<razorpay, queue, offered, confirmed, reviewed, stale>>

(* approve: the status is checked on a read, and written unconditionally.   *)

ApproveRead(h, o) ==
    /\ Request("approve")
    /\ row[o].status = "AWAITING_APPROVAL"
    /\ Begin(h, Handler("approve", "approve", o, Snapshot(o)))
    /\ UNCHANGED <<row, inventory, razorpay, queue, history>>

AfterApproval(r) ==
    IF r.method = "ONLINE" THEN "link"
    ELSE IF r.link = NoLink THEN "progress" ELSE "expiry"

ApproveWrite(h) ==
    LET o == op[h].o
        r == [row[o] EXCEPT !.status = "PENDING_PAYMENT"]
    IN  /\ At(h, "approve")
        /\ Present(row[o])
        /\ SetRow(o, r)
        /\ MarkStale(h)
        /\ reviewed' = reviewed \cup {o}
        /\ Continue(h, AfterApproval(r), r)
        /\ UNCHANGED <<inventory, razorpay, queue, bounds, offered, confirmed>>

(* replaceItems: release what was read, reserve the new list, rewrite.      *)

AmendRead(h, o) ==
    /\ Request("amend")
    /\ Placed(o)
    /\ row[o].status \in Amendable
    /\ \E items \in Items \ {NoItems} :
         Begin(h, [Handler("amend", "amend", o, Snapshot(o))
                     EXCEPT !.want = items])
    /\ UNCHANGED <<row, inventory, razorpay, queue, history>>

AfterAmendment(r) ==
    IF r.method = "ONLINE" /\ r.status = "PENDING_PAYMENT"
    THEN "link" ELSE "reply"

AmendWrite(h) ==
    LET o == op[h].o
        released == Release(inventory, Seen(h).items)
        r == [row[o] EXCEPT !.items = op[h].want,
                            !.status = AmendedStatus(Seen(h), op[h].want)]
    IN  /\ At(h, "amend")
        /\ Present(row[o])
        /\ CanReserve(released, op[h].want)
        /\ inventory' = Reserve(released, op[h].want)
        /\ SetRow(o, r)
        /\ MarkStale(h)
        /\ Continue(h, AfterAmendment(r), r)
        /\ UNCHANGED <<razorpay, queue, bounds, offered, confirmed, reviewed>>

\* out of stock: the transaction rolls back and the request is refused
AmendRefused(h) ==
    /\ At(h, "amend")
    /\ ~CanReserve(Release(inventory, Seen(h).items), op[h].want)
    /\ Done(h)
    /\ UNCHANGED <<row, inventory, razorpay, queue, bounds, history>>

(* retryPaymentLink: the customer taps "Try again".                         *)

RetryRead(h, o) ==
    /\ Request("retry")
    /\ Placed(o)
    /\ row[o].status = "PENDING_PAYMENT"
    /\ row[o].method = "ONLINE"
    /\ Begin(h, Handler(IF row[o].link = NoLink THEN "link" ELSE "reply",
                        "retry", o, Snapshot(o)))
    /\ UNCHANGED <<row, inventory, razorpay, queue, history>>

-----------------------------------------------------------------------------
(* The payment link, for create, approve, replaceItems and the retry: the   *)
(* request to Razorpay, and the write that follows it.                      *)

LinkCreated(h, l) ==
    /\ At(h, "link")
    /\ "created" \in Answers
    /\ razorpay[l] = NotCreated
    /\ razorpay' = [razorpay EXCEPT ![l] =
         [order |-> op[h].o, amount |-> Due(Seen(h)), paid |-> FALSE]]
    /\ op' = [op EXCEPT ![h] = [@ EXCEPT !.pc = "attach", !.link = l]]
    /\ UNCHANGED <<row, inventory, queue, bounds, history>>

\* Razorpay is configured but refused
LinkRefused(h) ==
    /\ At(h, "link")
    /\ "refused" \in Answers
    /\ IF op[h].kind = "retry" THEN Done(h)
       ELSE op' = [op EXCEPT ![h] = [@ EXCEPT !.failed = TRUE,
                     !.pc = IF op[h].kind = "amend" THEN "clear"
                            ELSE "expiry"]]
    /\ UNCHANGED <<row, inventory, razorpay, queue, bounds, history>>

\* Razorpay is not configured for the business
LinkNotConfigured(h) ==
    /\ At(h, "link")
    /\ "not configured" \in Answers
    /\ IF op[h].kind = "retry" THEN Done(h)
       ELSE Goto(h, IF op[h].kind = "amend" THEN "reply"
                    ELSE IF Seen(h).link = NoLink THEN "progress"
                    ELSE "expiry")
    /\ UNCHANGED <<row, inventory, razorpay, queue, bounds, history>>

\* create, approve and replaceItems store the link unconditionally
AttachLink(h) ==
    LET o == op[h].o
        r == [row[o] EXCEPT !.link = op[h].link]
    IN  /\ At(h, "attach")
        /\ op[h].kind # "retry"
        /\ Present(row[o])
        /\ SetRow(o, r)
        /\ Continue(h, IF op[h].kind = "amend" THEN "reply" ELSE "expiry", r)
        /\ UNCHANGED <<inventory, razorpay, queue, bounds, offered, confirmed,
                       reviewed, stale>>

\* the retry stores it only if the order still waits without a link
RetryAttach(h) ==
    LET o == op[h].o
        r == [row[o] EXCEPT !.link = op[h].link]
    IN  /\ At(h, "attach")
        /\ op[h].kind = "retry"
        /\ IF AttachWhere(row[o])
           THEN SetRow(o, r) /\ Continue(h, "reply", r)
           ELSE Goto(h, "reread") /\ UNCHANGED <<row, opened, everPaid>>
        /\ UNCHANGED <<inventory, razorpay, queue, bounds, offered, confirmed,
                       reviewed, stale>>

\* ... and otherwise hands out the link that was attached meanwhile
RetryReread(h) ==
    LET o == op[h].o
    IN  /\ At(h, "reread")
        /\ IF row[o].status = "PENDING_PAYMENT" /\ row[o].link # NoLink
           THEN Continue(h, "reply", row[o])
           ELSE Done(h)
        /\ UNCHANGED <<row, inventory, razorpay, queue, bounds, history>>

\* a refused link after an amendment: the old link is dropped from the order
ClearLink(h) ==
    LET o == op[h].o
        r == [row[o] EXCEPT !.link = NoLink]
    IN  /\ At(h, "clear")
        /\ Present(row[o])
        /\ SetRow(o, r)
        /\ Continue(h, "reply", r)
        /\ UNCHANGED <<inventory, razorpay, queue, bounds, offered, confirmed,
                       reviewed, stale>>

\* scheduleOrderProgress: the simulated payment, for orders without a link
ScheduleProgress(h) ==
    /\ At(h, "progress")
    /\ Enqueue(PayJob(op[h].o))
    /\ Goto(h, "expiry")
    /\ UNCHANGED <<row, inventory, razorpay, bounds, history>>

\* scheduleOrderExpiry: approve always expects PENDING_PAYMENT, create the
\* waiting status of the row it holds (and nothing for a DRAFT)
ScheduleExpiry(h) ==
    LET expected == IF op[h].kind = "approve" THEN "PENDING_PAYMENT"
                    ELSE Seen(h).status
    IN  /\ At(h, "expiry")
        /\ IF Expires(expected) THEN Enqueue(ExpireJob(op[h].o, expected))
           ELSE UNCHANGED queue
        /\ Goto(h, "reply")
        /\ UNCHANGED <<row, inventory, razorpay, bounds, history>>

\* The handler returns and the customer is sent the link of the row it holds,
\* unless the link failed or (in the checkout flows) the order awaits review.
Reply(h) ==
    LET o == op[h].o
        l == Seen(h).link
        sends == /\ l # NoLink
                 /\ ~op[h].failed
                 /\ op[h].kind # "approve" =>
                      Seen(h).status # "AWAITING_APPROVAL"
    IN  /\ At(h, "reply")
        /\ offered' = IF sends
                      THEN [offered EXCEPT ![o] =
                              @ \cup {[link |-> l, due |-> Due(row[o])]}]
                      ELSE offered
        /\ Done(h)
        /\ UNCHANGED <<row, inventory, razorpay, queue, bounds, opened,
                       confirmed, everPaid, reviewed, stale>>

-----------------------------------------------------------------------------
(* The merchant's and the assistant's direct changes.                       *)

StatusRead(h, o) ==
    /\ Request("status")
    /\ Present(row[o])
    /\ row[o].status \notin Terminal
    /\ \E target \in OrderStatus :
         Begin(h, [Handler("status", "status", o, Snapshot(o))
                     EXCEPT !.target = target])
    /\ UNCHANGED <<row, inventory, razorpay, queue, history>>

StatusWrite(h) ==
    LET o == op[h].o
    IN  /\ At(h, "status")
        /\ Present(row[o])
        /\ inventory' = IF Releasing(op[h].target)
                        THEN Release(inventory, Seen(h).items) ELSE inventory
        /\ SetRow(o, [row[o] EXCEPT !.status = op[h].target])
        /\ MarkStale(h)
        /\ reviewed' = reviewed \cup {o}
        /\ Done(h)
        /\ UNCHANGED <<razorpay, queue, bounds, offered, confirmed>>

TrackableAlways(r) == Present(r)
Trackable(r) == r.status \in {"PAID", "FULFILLED"}

FulfilRead(h, o) ==
    /\ Request("fulfil")
    /\ Trackable(row[o])
    /\ \E target \in Fulfilment :
         Begin(h, [Handler("fulfil", "fulfil", o, Snapshot(o))
                     EXCEPT !.target = target])
    /\ UNCHANGED <<row, inventory, razorpay, queue, history>>

\* updateFulfillmentStatus and the worker's stage job write the same columns
FulfilledRow(r, f) ==
    [r EXCEPT !.fulfil = f,
              !.status = IF f = "DELIVERED" THEN "FULFILLED" ELSE @]

FulfilWrite(h) ==
    LET o == op[h].o
    IN  /\ At(h, "fulfil")
        /\ Present(row[o])
        /\ SetRow(o, FulfilledRow(row[o], op[h].target))
        /\ MarkStale(h)
        /\ Done(h)
        /\ UNCHANGED <<inventory, razorpay, queue, bounds, offered, confirmed,
                       reviewed>>

\* resetTestData: every order of the customer, released and deleted
ResetRead(h) ==
    /\ Request("reset")
    /\ Begin(h, Handler("reset", "reset", NoOrder, row))
    /\ UNCHANGED <<row, inventory, razorpay, queue, history>>

ResetWrite(h) ==
    LET seen == op[h].seen
    IN  /\ At(h, "reset")
        /\ inventory' = [v \in Variants |->
                           inventory[v] + Cardinality(Units(seen, v))]
        /\ row' = [o \in Orders |->
                     IF Present(row[o])
                     THEN [row[o] EXCEPT !.status = "DELETED"] ELSE row[o]]
        /\ stale' = stale \cup {o \in Orders : ~SameRow(row[o], seen[o])}
        /\ Done(h)
        /\ UNCHANGED <<razorpay, queue, bounds, offered, opened, confirmed,
                       everPaid, reviewed>>

-----------------------------------------------------------------------------
(* Razorpay: the customer pays a link, and the payment_link.paid webhook is *)
(* delivered, possibly several times and at the same time.                  *)

CustomerPays(l) ==
    /\ \E o \in Orders : \E s \in offered[o] : s.link = l
    /\ ~razorpay[l].paid
    /\ razorpay' = [razorpay EXCEPT ![l].paid = TRUE]
    /\ UNCHANGED <<row, inventory, queue, op, bounds, history>>

\* ingest: the order that carries the link (a replaced link finds none)
WebhookLookup(h, o, l) ==
    /\ razorpay[l].paid
    /\ Present(row[o])
    /\ row[o].link = l
    /\ razorpay[l].order = o
    /\ Request("webhook")
    /\ Begin(h, [Handler("read_paid", "webhook", o, NoTable)
                   EXCEPT !.link = l])
    /\ UNCHANGED <<row, inventory, razorpay, queue, history>>

\* markPaidViaRazorpay: the fast path on the row, and the amount check
WebhookRead(h) ==
    LET o == op[h].o
    IN  /\ At(h, "read_paid")
        /\ IF /\ row[o].status = "PENDING_PAYMENT"
              /\ razorpay[op[h].link].amount = Due(row[o])
           THEN op' = [op EXCEPT ![h] = [@ EXCEPT !.pc = "confirm",
                                                  !.seen = Snapshot(o)]]
           ELSE Done(h)
        /\ UNCHANGED <<row, inventory, razorpay, queue, bounds, history>>

\* ... then the conditional update: exactly one delivery gets past it
WebhookConfirm(h) ==
    LET o == op[h].o
    IN  /\ At(h, "confirm")
        /\ IF ConfirmWhere(row[o], Seen(h))
           THEN /\ SetRow(o, [row[o] EXCEPT !.status = "PAID",
                                            !.payment = op[h].link])
                /\ confirmed' = [confirmed EXCEPT ![o] = @ + 1]
                /\ ThenSchedule(h, "PACKED")
           ELSE Done(h) /\ UNCHANGED <<row, opened, everPaid, confirmed>>
        /\ UNCHANGED <<inventory, razorpay, queue, bounds, offered, reviewed,
                       stale>>

\* scheduleFulfillmentKickoff, and the pipeline's own "advance" jobs
ScheduleStage(h) ==
    /\ At(h, "schedule")
    /\ Enqueue(StageJob(op[h].o, op[h].target))
    /\ Done(h)
    /\ UNCHANGED <<row, inventory, razorpay, bounds, history>>

-----------------------------------------------------------------------------
(* The worker's jobs.  A job may start any time after it was scheduled; a   *)
(* job whose check fails ends without an effect.                            *)

TakeJob(j) == queue[j] > 0 /\ queue' = [queue EXCEPT ![j] = @ - 1]

JobApplies(j) ==
    \/ j.kind = "pay"    /\ PayApplies(row[j.o])
    \/ j.kind = "stage"  /\ StageApplies(row[j.o], j.target)
    \/ j.kind = "expire" /\ ExpiryApplies(row[j.o], j.target)

JobRead(h, j) ==
    /\ TakeJob(j)
    /\ JobApplies(j)
    /\ Begin(h, [Handler(j.kind, j.kind, j.o, Snapshot(j.o))
                   EXCEPT !.target = j.target])
    /\ UNCHANGED <<row, inventory, razorpay, bounds, history>>

JobSkips(h, j) ==
    /\ TakeJob(j)
    /\ ~JobApplies(j)
    /\ op[h] = Idle
    /\ UNCHANGED <<row, inventory, razorpay, op, bounds, history>>

\* processPayment: PAID, then the first shipment stage is scheduled
PayWrite(h) ==
    LET o == op[h].o
    IN  /\ At(h, "pay")
        /\ Present(row[o])
        /\ SetRow(o, [row[o] EXCEPT !.status = "PAID"])
        /\ MarkStale(h)
        /\ ThenSchedule(h, "PACKED")
        /\ UNCHANGED <<inventory, razorpay, queue, bounds, offered, confirmed,
                       reviewed>>

\* processFulfillmentStage: the stage, then the next one is scheduled
StageWrite(h) ==
    LET o == op[h].o
        s == op[h].target
    IN  /\ At(h, "stage")
        /\ Present(row[o])
        /\ SetRow(o, FulfilledRow(row[o], s))
        /\ MarkStale(h)
        /\ IF NextStage(s) = "none" THEN Done(h)
           ELSE ThenSchedule(h, NextStage(s))
        /\ UNCHANGED <<inventory, razorpay, queue, bounds, offered, confirmed,
                       reviewed>>

\* processOrderExpiry: put the items read back on the shelf and cancel
ExpireWrite(h) ==
    LET o == op[h].o
    IN  /\ At(h, "expire")
        /\ Present(row[o])
        /\ inventory' = Release(inventory, Seen(h).items)
        /\ SetRow(o, [row[o] EXCEPT !.status = "CANCELLED"])
        /\ MarkStale(h)
        /\ Done(h)
        /\ UNCHANGED <<razorpay, queue, bounds, offered, confirmed, reviewed>>

-----------------------------------------------------------------------------
(* Failures.                                                                *)

Updating == {"approve", "amend", "clear", "status", "fulfil", "pay", "stage",
             "expire"}

\* P2025: an unconditional update of a row that was deleted throws (and its
\* transaction rolls back); a retried job then ends with "order not found"
RowGone(h) ==
    /\ \/ op[h].pc \in Updating
       \/ At(h, "attach") /\ op[h].kind # "retry"
    /\ ~Present(row[op[h].o])
    /\ Done(h)
    /\ UNCHANGED <<row, inventory, razorpay, queue, bounds, history>>

\* A handler dies or throws between two of its steps.  A request is lost; a
\* job is attempted again, unless it has used up its attempts.  A job that
\* had written its row is retried as the job it was.
Retried(h) ==
    CASE op[h].kind = "pay"    -> {PayJob(op[h].o)}
      [] op[h].kind = "expire" -> {ExpireJob(op[h].o, op[h].target)}
      [] op[h].kind = "stage"  ->
           {StageJob(op[h].o, s) : s \in {s \in Stages :
              IF At(h, "stage") THEN s = op[h].target
              ELSE NextStage(s) = op[h].target}}
      [] OTHER -> {}

Crash(h) ==
    /\ op[h] # Idle
    /\ crashes < MaxCrashes
    /\ crashes' = crashes + 1
    /\ Done(h)
    /\ \/ UNCHANGED queue
       \/ \E j \in Retried(h) : Enqueue(j)
    /\ UNCHANGED <<row, inventory, razorpay, used, history>>

-----------------------------------------------------------------------------
(* One step of a handler that is running.                                   *)
Step(h) ==
    \/ ApproveWrite(h)  \/ AmendWrite(h)       \/ AmendRefused(h)
    \/ AttachLink(h)    \/ RetryAttach(h)      \/ RetryReread(h)
    \/ ClearLink(h)     \/ ScheduleProgress(h) \/ ScheduleExpiry(h)
    \/ Reply(h)         \/ StatusWrite(h)      \/ FulfilWrite(h)
    \/ ResetWrite(h)    \/ WebhookRead(h)      \/ WebhookConfirm(h)
    \/ ScheduleStage(h) \/ PayWrite(h)         \/ StageWrite(h)
    \/ ExpireWrite(h)   \/ RowGone(h)
    \/ LinkRefused(h)   \/ LinkNotConfigured(h)
    \/ \E l \in Links : LinkCreated(h, l)

(* A request arrives.                                                       *)
Arrive(h) ==
    \/ ResetRead(h)
    \/ \E o \in Orders :
         \/ CreateTx(h, o)  \/ ApproveRead(h, o) \/ AmendRead(h, o)
         \/ RetryRead(h, o) \/ StatusRead(h, o)  \/ FulfilRead(h, o)
         \/ \E l \in Links : WebhookLookup(h, o, l)

RunJob(h, j) == JobRead(h, j) \/ JobSkips(h, j)

Next ==
    \/ \E h \in Handlers : Arrive(h) \/ Step(h) \/ Crash(h)
    \/ \E h \in Handlers, j \in Job : RunJob(h, j)
    \/ \E l \in Links : CustomerPays(l)

Spec == Init /\ [][Next]_vars

\* Handlers and the worker keep running: every await of a running handler
\* resolves, and the worker takes every waiting job sooner or later.
\* Requests, payments and crashes are never owed.
FairSpec ==
    /\ Spec
    /\ \A h \in Handlers : WF_vars(Step(h))
    /\ \A j \in Job : WF_vars(\E h \in Handlers : RunJob(h, j))

-----------------------------------------------------------------------------
(* Properties.                                                              *)

\* what each step of a handler relies on in the slot
WellFormed(r) ==
    /\ r.pc = "idle" => r = Idle
    /\ r.pc = "reset" => r.kind = "reset"
    /\ r.pc \notin {"idle", "reset"} => r.o \in Orders
    /\ r.pc \in {"attach", "read_paid", "confirm"} => r.link \in Links
    /\ r.pc \in {"read_paid", "confirm"} => r.kind = "webhook"
    /\ r.pc \in {"pay", "stage", "expire"} => r.kind = r.pc
    /\ r.pc = "schedule" => r.kind \in {"webhook", "pay", "stage"}
    /\ r.pc = "status" => r.target \in OrderStatus
    /\ r.pc = "fulfil" => r.target \in Fulfilment
    /\ r.pc \in {"stage", "schedule"} => r.target \in Stages
    /\ r.kind = "expire" => r.target \in Waiting

HandlersTyped ==
    /\ op \in [Handlers -> Op]
    /\ \A h \in Handlers : WellFormed(op[h])

TypeOK ==
    /\ row \in [Orders -> Row]
    /\ inventory \in [Variants -> Int]
    /\ razorpay \in [Links -> [order : Orders \cup {NoOrder}, amount : Nat,
                               paid : BOOLEAN]]
    /\ queue \in [Job -> Nat]
    /\ HandlersTyped
    /\ used \in Nat
    /\ crashes \in Nat
    /\ offered \in [Orders -> SUBSET [link : Links, due : Nat]]
    /\ opened \in [Orders -> Nat]
    /\ confirmed \in [Orders -> Nat]
    /\ everPaid \subseteq Orders
    /\ reviewed \subseteq Orders
    /\ stale \subseteq Orders

\* Two customers can never be sold the same last unit: whatever handlers
\* interleave, the stock of a variant never goes below zero (reserveStock).
NeverOversold == \A v \in Variants : inventory[v] >= 0

\* The stock books balance: as long as no handler has written an order from a
\* row that changed since it was read, every unit is either on the shelf or
\* held by a live order, through amendments, cancellations, refunds, expiry,
\* the reset, crashes and retried jobs.  (releaseStock is called with the
\* items that were read before the transaction.)
StockBalances ==
    stale = {} =>
      \A v \in Variants :
        inventory[v] + Cardinality(Units(row, v)) = Supply[v]

\* A cancelled or refunded order stays so, unless a handler wrote it from a
\* row that changed since it was read (TERMINAL_STATUSES).
TerminalIsFinal ==
    [][\A o \in Orders :
         row[o].status \in Terminal =>
           \/ row'[o].status \in {row[o].status, "DELETED"}
           \/ o \in stale']_vars

\* However many webhook deliveries, retries and jobs race, an order is
\* confirmed by Razorpay at most once each time it becomes payable.
ConfirmedOncePerOpening == \A o \in Orders : confirmed[o] <= opened[o]

\* A Razorpay payment is recorded on an order only when the amount that was
\* paid is the total the order has at that moment (markPaidViaRazorpay).
ConfirmedAtItsTotal ==
    [][\A o \in Orders :
         (Present(row[o]) /\ row'[o].payment # row[o].payment) =>
           razorpay[row'[o].payment].amount = Due(row'[o])]_vars

\* Nothing is packed, shipped or delivered for an order that was never paid,
\* whoever moves the shipment: the merchant or the worker's pipeline.
ShippedOnlyAfterPaid ==
    \A o \in Orders : row[o].fulfil # "NOT_STARTED" => o \in everPaid

\* The customer of an order that is never amended or approved is sent one
\* payment link, however many times they tap "Try again" (retryPaymentLink).
OneLinkOffered ==
    \A o \in Orders : \A s, t \in offered[o] : s.link = t.link

\* An order above the autonomy limit is paid or shipped only after a merchant
\* has reviewed it (create: "don't start the payment/fulfillment simulation
\* until a human approves them").
ReviewedBeforePaid ==
    \A o \in Orders :
      (row[o].status \in {"PAID", "FULFILLED"} /\ Exceeds(row[o].items)) =>
        o \in reviewed

\* The facts on which the proofs of the properties above rest.
\* A handler about to write an order from what it read has read a live order.
Deciding == {"approve", "amend", "status", "fulfil", "pay", "stage", "expire"}
DecidedOnLiveOrders ==
    \A h \in Handlers : op[h].pc \in Deciding => Holds(Seen(h))

\* Whoever can still move a shipment works on an order that has been paid.
ShipmentsArePaid ==
    /\ \A o \in Orders :
         (row[o].status \in {"PAID", "FULFILLED"} \/ row[o].fulfil # "NOT_STARTED")
           => o \in everPaid
    /\ \A j \in Job : (j.kind = "stage" /\ queue[j] > 0) => j.o \in everPaid
    /\ \A h \in Handlers :
         (op[h].kind = "stage" \/ op[h].pc \in {"fulfil", "schedule"})
           => op[h].o \in everPaid

\* An order that can be paid has not been confirmed since it was opened.
OpenOrdersUnconfirmed ==
    \A o \in Orders :
      row[o].status = "PENDING_PAYMENT" => confirmed[o] < opened[o]

\* A delivery about to confirm has compared the order with its link's amount.
DeliveriesVerified ==
    \A h \in Handlers :
      /\ op[h].pc \in {"read_paid", "confirm"} =>
           razorpay[op[h].link] # NotCreated
      /\ op[h].pc = "confirm" =>
           razorpay[op[h].link].amount = Due(Seen(h))

\* What the properties need to be inductive: whoever is about to write has read
\* a live order, moves a shipment of a paid one, or confirms what it verified.
Strengthening ==
    /\ DecidedOnLiveOrders /\ ShipmentsArePaid /\ OpenOrdersUnconfirmed
    /\ DeliveriesVerified

\* Every link that is sent charges what the order costs when it is sent
\* (replaceItems: the old link "is for the previous total").
OfferedLinkChargesTheTotal ==
    \A o \in Orders : \A s \in offered[o] : razorpay[s.link].amount = s.due

\* A payment outdates the expiry job: an order whose Razorpay payment has been
\* recorded is never cancelled by it (OrderExpiryJobData.expectedStatus).
PaymentOutdatesExpiry ==
    [][\A h \in Handlers :
         (op[h].pc = "expire" /\ row' # row) =>
           row[op[h].o].payment = NoLink]_vars

\* An order waiting for approval or payment does not hold its stock forever.
WaitingOrdersResolve ==
    \A o \in Orders : row[o].status \in Waiting ~> row[o].status \notin Waiting

\* A paid order is delivered: the shipment pipeline, once started, reaches the
\* last stage while the worker is running, whoever else reads or skips its jobs.
\* The order may leave the pipeline by being cancelled, or by a handler that
\* writes it from a row that had changed (an approval or an expiry that
\* overtakes a payment can bring it back to PAID with no stage job left).
PaidOrdersAreDelivered ==
    \A o \in Orders :
      row[o].status = "PAID" ~>
        \/ row[o].status # "PAID"
        \/ row[o].fulfil = "DELIVERED"
        \/ o \in stale
=============================================================================
