-------------------------- MODULE OrderPaymentProofs --------------------------
(***************************************************************************)
(* Payments in OrderLifecycle: what a Razorpay payment is recorded for,    *)
(* which orders are paid without a review, how many links a customer is     *)
(* sent; and the facts all the theorems rest on, as one invariant.          *)
(***************************************************************************)
EXTENDS OrderSafetyProofs

-----------------------------------------------------------------------------
(* Which step writes which field of a row, and where a handler stands after *)
(* the request or the step that brought it there.                           *)

LEMMA StepFields ==
    ASSUME TypeOK, NEW h \in Handlers, Step(h), NEW p \in Orders
    PROVE  /\ row'[p].payment = row[p].payment \/ WebhookConfirm(h)
           /\ row'[p].items = row[p].items \/ AmendWrite(h)
           /\ \/ row'[p].link = row[p].link
              \/ AttachLink(h) \/ RetryAttach(h) \/ ClearLink(h)
           /\ \/ row[p].status = "ABSENT" \/ row'[p].status # "ABSENT"
              \/ AmendWrite(h)
<1> DEFINE o == op[h].o
           Fields(r, s) == /\ r.payment = s.payment
                           /\ r.items = s.items
                           /\ r.link = s.link
                           /\ s.status = "ABSENT" \/ r.status # "ABSENT"
<1>a. ASSUME NEW r, SetRow(o, r), o \in Orders
      PROVE  row'[p] = row[p] \/ (p = o /\ row'[p] = r)
  BY <1>a, SetRowEffect
<1>1. CASE \/ ApproveWrite(h) \/ StatusWrite(h) \/ FulfilWrite(h)
           \/ PayWrite(h) \/ StageWrite(h) \/ ExpireWrite(h)
  <2>1. o \in Orders /\ row[o] \in Row
    BY <1>1, RunningType DEF ApproveWrite, StatusWrite, FulfilWrite, PayWrite,
       StageWrite, ExpireWrite, At
  <2>2. \A s \in OrderStatus : Fields([row[o] EXCEPT !.status = s], row[o])
    BY <2>1 DEF Row, OrderStatus
  <2>3. \A f : Fields(FulfilledRow(row[o], f), row[o])
    BY <2>1 DEF Row, FulfilledRow
  <2>4. \E r : SetRow(o, r) /\ Fields(r, row[o])
    <3>1. CASE \/ ApproveWrite(h) \/ StatusWrite(h) \/ PayWrite(h)
               \/ ExpireWrite(h)
      <4>1. At(h, "status") => op[h].target \in OrderStatus
        BY DEF At, TypeOK, HandlersTyped, WellFormed
      <4>2. \E s \in OrderStatus : SetRow(o, [row[o] EXCEPT !.status = s])
        BY <3>1, <4>1 DEF ApproveWrite, StatusWrite, PayWrite, ExpireWrite,
           OrderStatus
      <4> HIDE DEF Fields, o
      <4> QED
        BY <2>2, <4>2
    <3>2. CASE FulfilWrite(h) \/ StageWrite(h)
      <4>1. \E f : SetRow(o, FulfilledRow(row[o], f))
        BY <3>2 DEF FulfilWrite, StageWrite
      <4> HIDE DEF Fields, o
      <4> QED
        BY <2>3, <4>1
    <3> QED
      BY <1>1, <3>1, <3>2
  <2> HIDE DEF o
  <2> QED
    BY <1>a, <2>1, <2>4
<1>2. CASE AmendWrite(h)
  <2> DEFINE r == [row[o] EXCEPT !.items = op[h].want,
                     !.status = AmendedStatus(Seen(h), op[h].want)]
  <2>1. o \in Orders /\ row[o] \in Row /\ SetRow(o, r)
    BY <1>2, RunningType DEF AmendWrite, At
  <2>2. r.payment = row[o].payment /\ r.link = row[o].link
    BY <2>1 DEF Row
  <2> HIDE DEF o, r
  <2> QED
    BY <1>2, <1>a, <2>1, <2>2
<1>3. CASE AttachLink(h) \/ RetryAttach(h) \/ ClearLink(h)
  <2>1. o \in Orders /\ row[o] \in Row
    BY <1>3, RunningType DEF AttachLink, RetryAttach, ClearLink, At
  <2>2. row' = row \/ \E l : SetRow(o, [row[o] EXCEPT !.link = l])
    BY <1>3 DEF AttachLink, RetryAttach, ClearLink
  <2>3. \A l : /\ [row[o] EXCEPT !.link = l].payment = row[o].payment
               /\ [row[o] EXCEPT !.link = l].items = row[o].items
               /\ [row[o] EXCEPT !.link = l].status = row[o].status
    BY <2>1 DEF Row
  <2> HIDE DEF o
  <2>4. \/ row' = row
        \/ \E r : /\ SetRow(o, r)
                  /\ r.payment = row[o].payment /\ r.items = row[o].items
                  /\ r.status = row[o].status
    BY <2>2, <2>3
  <2> QED
    BY <1>3, <1>a, <2>1, <2>4
<1>4. CASE WebhookConfirm(h)
  <2> DEFINE r == [row[o] EXCEPT !.status = "PAID", !.payment = op[h].link]
  <2>1. o \in Orders /\ row[o] \in Row
    BY <1>4, RunningType DEF WebhookConfirm, At
  <2>2. row' = row \/ SetRow(o, r)
    BY <1>4 DEF WebhookConfirm
  <2>3. r.items = row[o].items /\ r.link = row[o].link /\ r.status = "PAID"
    BY <2>1 DEF Row
  <2> HIDE DEF o, r
  <2> QED
    BY <1>4, <1>a, <2>1, <2>2, <2>3
<1>5. CASE ResetWrite(h)
  BY <1>5 DEF ResetWrite, TypeOK, Row
<1>6. CASE \/ AmendRefused(h) \/ RetryReread(h) \/ ScheduleProgress(h)
           \/ ScheduleExpiry(h) \/ Reply(h) \/ WebhookRead(h)
           \/ ScheduleStage(h) \/ RowGone(h) \/ LinkRefused(h)
           \/ LinkNotConfigured(h) \/ \E l \in Links : LinkCreated(h, l)
  <2>1. row' = row
    BY <1>6 DEF AmendRefused, RetryReread, ScheduleProgress, ScheduleExpiry,
       Reply, WebhookRead, ScheduleStage, RowGone, LinkRefused,
       LinkNotConfigured, LinkCreated
  <2> QED
    BY <2>1
<1> QED
  BY <1>1, <1>2, <1>3, <1>4, <1>5, <1>6 DEF Step

\* handler h has just started on order o, as a handler of some kind
Starts(h, kind, pcs, o) ==
    /\ op'[h].kind = kind
    /\ op'[h].pc \in pcs
    /\ op'[h].o = o

LEMMA ArriveKinds ==
    ASSUME TypeOK, NEW h \in Handlers, Arrive(h)
    PROVE  /\ \A k \in Handlers \ {h} : op'[k] = op[k]
           /\ \/ ResetRead(h) /\ Starts(h, "reset", {"reset"}, NoOrder)
              \/ \E o \in Orders :
                   \/ /\ CreateTx(h, o)
                      /\ Starts(h, "create", {"link", "progress", "expiry"}, o)
                      /\ op'[h].seen[o] = row'[o]
                      /\ op'[h].pc \in {"link", "progress"} =>
                           row'[o].status = "PENDING_PAYMENT"
                   \/ ApproveRead(h, o) /\ Starts(h, "approve", {"approve"}, o)
                   \/ AmendRead(h, o) /\ Starts(h, "amend", {"amend"}, o)
                   \/ /\ RetryRead(h, o) /\ Starts(h, "retry", {"link", "reply"}, o)
                      /\ op'[h].seen[o] = row[o]
                   \/ StatusRead(h, o) /\ Starts(h, "status", {"status"}, o)
                   \/ FulfilRead(h, o) /\ Starts(h, "fulfil", {"fulfil"}, o)
                   \/ \E l \in Links :
                        /\ WebhookLookup(h, o, l)
                        /\ Starts(h, "webhook", {"read_paid"}, o)
                        /\ op'[h].link = l
<1>1. ASSUME NEW pc, NEW kind, NEW o, NEW seen, NEW r, Begin(h, r),
             \/ r = Handler(pc, kind, o, seen)
             \/ \E x : r = [Handler(pc, kind, o, seen) EXCEPT !.target = x]
             \/ \E x : r = [Handler(pc, kind, o, seen) EXCEPT !.want = x]
             \/ \E x : r = [Handler(pc, kind, o, seen) EXCEPT !.link = x]
      PROVE  Starts(h, kind, {pc}, o) /\ op'[h].seen = seen
  <2>1. op'[h] = r
    BY <1>1, SlotEffect DEF Begin
  <2>2. r.pc = pc /\ r.kind = kind /\ r.o = o /\ r.seen = seen
    BY <1>1 DEF Handler, Idle
  <2> QED
    BY <2>1, <2>2 DEF Starts
<1>2. \A k \in Handlers \ {h} : op'[k] = op[k]
  BY ArriveSlots, SlotEffect DEF Begin
<1>3. CASE ResetRead(h)
  BY <1>1, <1>2, <1>3 DEF ResetRead
<1>4. ASSUME NEW o \in Orders, CreateTx(h, o)
      PROVE  /\ Starts(h, "create", {"link", "progress", "expiry"}, o)
             /\ op'[h].seen[o] = row'[o]
             /\ op'[h].pc \in {"link", "progress"} =>
                  row'[o].status = "PENDING_PAYMENT"
  <2>1. PICK items \in Items, method \in Methods :
          /\ SetRow(o, NewRow(method, items))
          /\ Begin(h, Handler(AfterInsert(NewRow(method, items)), "create", o,
                              Holding(o, NewRow(method, items))))
    BY <1>4 DEF CreateTx
  <2> DEFINE r == NewRow(method, items)
  <2>2. r \in Row
    BY NoRowType DEF NewRow, Row, InitialStatus, OrderStatus
  <2> HIDE DEF r
  <2>3. Starts(h, "create", {AfterInsert(r)}, o) /\ op'[h].seen = Holding(o, r)
    BY <1>1, <2>1 DEF r
  <2>4. row'[o] = r /\ Holding(o, r)[o] = r
    BY <2>1, <2>2, SetRowEffect, HoldingType DEF r
  <2> QED
    BY <2>3, <2>4 DEF Starts, AfterInsert
<1>5. ASSUME NEW o \in Orders, ApproveRead(h, o)
      PROVE  Starts(h, "approve", {"approve"}, o)
  BY <1>1, <1>5 DEF ApproveRead
<1>6. ASSUME NEW o \in Orders, AmendRead(h, o)
      PROVE  Starts(h, "amend", {"amend"}, o)
  BY <1>1, <1>6 DEF AmendRead
<1>7. ASSUME NEW o \in Orders, RetryRead(h, o)
      PROVE  Starts(h, "retry", {"link", "reply"}, o) /\ op'[h].seen[o] = row[o]
  <2>1. PICK pc \in {"link", "reply"} :
          Begin(h, Handler(pc, "retry", o, Snapshot(o)))
    BY <1>7 DEF RetryRead
  <2>2. Starts(h, "retry", {pc}, o) /\ op'[h].seen = Snapshot(o)
    BY <1>1, <2>1
  <2>3. Snapshot(o)[o] = row[o]
    BY HoldingType DEF Snapshot, TypeOK
  <2> QED
    BY <2>2, <2>3 DEF Starts
<1>8. ASSUME NEW o \in Orders, StatusRead(h, o)
      PROVE  Starts(h, "status", {"status"}, o)
  BY <1>1, <1>8 DEF StatusRead
<1>9. ASSUME NEW o \in Orders, FulfilRead(h, o)
      PROVE  Starts(h, "fulfil", {"fulfil"}, o)
  BY <1>1, <1>9 DEF FulfilRead
<1>10. ASSUME NEW o \in Orders, NEW l \in Links, WebhookLookup(h, o, l)
       PROVE  Starts(h, "webhook", {"read_paid"}, o) /\ op'[h].link = l
  <2> DEFINE r == [Handler("read_paid", "webhook", o, NoTable) EXCEPT !.link = l]
  <2>1. Begin(h, r)
    BY <1>10 DEF WebhookLookup
  <2>2. r.link = l
    BY DEF Handler, Idle
  <2>3. op'[h] = r
    BY <2>1, SlotEffect DEF Begin
  <2>4. Starts(h, "webhook", {"read_paid"}, o)
    BY <1>1, <2>1
  <2> HIDE DEF r
  <2> QED
    BY <2>2, <2>3, <2>4
<1> QED
  BY <1>2, <1>3, <1>4, <1>5, <1>6, <1>7, <1>8, <1>9, <1>10 DEF Arrive

-----------------------------------------------------------------------------
(* What a delivery of the Razorpay webhook has verified.                    *)

VerifiedSlot(r) ==
    /\ r.pc \in {"read_paid", "confirm"} => razorpay[r.link] # NotCreated
    /\ r.pc = "confirm" => razorpay[r.link].amount = Due(r.seen[r.o])

LEMMA VerifiedSlots ==
    DeliveriesVerified <=> \A h \in Handlers : VerifiedSlot(op[h])
BY DEF DeliveriesVerified, VerifiedSlot, Seen

(* Links are only ever added and paid: a link some delivery is about keeps  *)
(* its amount.                                                              *)
LEMMA LinksKept ==
    ASSUME TypeOK, [Next]_vars, NEW l \in Links, razorpay[l] # NotCreated
    PROVE  razorpay'[l] # NotCreated /\ razorpay'[l].amount = razorpay[l].amount
<1>1. CASE razorpay' = razorpay
  BY <1>1
<1>2. ASSUME NEW h \in Handlers, NEW k \in Links, LinkCreated(h, k)
      PROVE  razorpay'[l] = razorpay[l]
  BY <1>2 DEF LinkCreated, TypeOK
<1>3. ASSUME NEW k \in Links, CustomerPays(k)
      PROVE  razorpay'[l] # NotCreated /\ razorpay'[l].amount = razorpay[l].amount
  <2> DEFINE R == [order : Orders \cup {NoOrder}, amount : Nat, paid : BOOLEAN]
  <2>1. razorpay \in [Links -> R]
    BY DEF TypeOK
  <2>2. razorpay' = [razorpay EXCEPT ![k] = [razorpay[k] EXCEPT !.paid = TRUE]]
    BY <1>3 DEF CustomerPays
  <2>3. CASE l # k
    BY <2>1, <2>2, <2>3
  <2>4. CASE l = k
    <3>1. razorpay'[l] = [razorpay[l] EXCEPT !.paid = TRUE]
      BY <2>1, <2>2, <2>4
    <3>2. razorpay'[l].paid = TRUE /\ razorpay'[l].amount = razorpay[l].amount
      BY <2>1, <3>1
    <3> QED
      BY <3>2 DEF NotCreated
  <2> QED
    BY <2>3, <2>4
<1>4. \/ razorpay' = razorpay
      \/ \E h \in Handlers, k \in Links : LinkCreated(h, k)
      \/ \E k \in Links : CustomerPays(k)
  <2>1. ASSUME NEW h \in Handlers, Step(h)
        PROVE  razorpay' = razorpay \/ \E k \in Links : LinkCreated(h, k)
    BY <2>1 DEF Step, ApproveWrite, AmendWrite, AmendRefused, AttachLink,
         RetryAttach, RetryReread, ClearLink, ScheduleProgress,
         ScheduleExpiry, Reply, StatusWrite, FulfilWrite, ResetWrite,
         WebhookRead, WebhookConfirm, ScheduleStage, PayWrite, StageWrite,
         ExpireWrite, RowGone, LinkRefused, LinkNotConfigured
  <2>2. ASSUME NEW h \in Handlers, Arrive(h)
        PROVE  razorpay' = razorpay
    BY <2>2, ArriveRows
  <2>3. CASE \/ \E h \in Handlers : Crash(h)
             \/ \E h \in Handlers, j \in Job : RunJob(h, j)
             \/ UNCHANGED vars
    BY <2>3 DEF Crash, RunJob, JobRead, JobSkips, vars
  <2> QED
    BY <2>1, <2>2, <2>3 DEF Next
<1> QED
  BY <1>1, <1>2, <1>3, <1>4

(* What a slot has verified stays verified while the slot does not change.  *)
LEMMA VerifiedKept ==
    ASSUME TypeOK, [Next]_vars, NEW h \in Handlers, VerifiedSlot(op[h]),
           op'[h] = op[h]
    PROVE  VerifiedSlot(op[h])'
<1>1. CASE op[h].pc \in {"read_paid", "confirm"}
  <2>1. op[h].link \in Links
    BY <1>1 DEF TypeOK, HandlersTyped, WellFormed
  <2>2. razorpay[op[h].link] # NotCreated
    BY <1>1 DEF VerifiedSlot
  <2>3. /\ razorpay'[op[h].link] # NotCreated
        /\ razorpay'[op[h].link].amount = razorpay[op[h].link].amount
    BY <2>1, <2>2, LinksKept
  <2> QED
    BY <2>3 DEF VerifiedSlot
<1>2. CASE op[h].pc \notin {"read_paid", "confirm"}
  BY <1>2 DEF VerifiedSlot
<1> QED
  BY <1>1, <1>2

(* The slot of a handler that arrives, moves on or ends.                    *)
LEMMA VerifiedArrive ==
    ASSUME TypeOK, NEW h \in Handlers, Arrive(h)
    PROVE  VerifiedSlot(op[h])'
<1>1. ASSUME NEW o \in Orders, NEW l \in Links, WebhookLookup(h, o, l),
             op'[h].pc = "read_paid", op'[h].link = l
      PROVE  VerifiedSlot(op[h])'
  <2>1. razorpay'[l] # NotCreated
    BY <1>1 DEF WebhookLookup, NotCreated
  <2> QED
    BY <1>1, <2>1 DEF VerifiedSlot
<1>2. CASE op'[h].pc \notin {"read_paid", "confirm"}
  BY <1>2 DEF VerifiedSlot
<1> QED
  BY <1>1, <1>2, ArriveKinds DEF Starts

LEMMA VerifiedStep ==
    ASSUME TypeOK, NEW h \in Handlers, VerifiedSlot(op[h]), Step(h)
    PROVE  VerifiedSlot(op[h])'
<1>1. CASE WebhookRead(h) /\ op'[h].pc = "confirm"
  <2> DEFINE o == op[h].o
             r == [op[h] EXCEPT !.pc = "confirm", !.seen = Snapshot(o)]
  <2>1. o \in Orders /\ row[o] \in Row /\ op[h] \in Op /\ At(h, "read_paid")
    BY <1>1, RunningType DEF WebhookRead, At, TypeOK, HandlersTyped
  <2>2. /\ op' = [op EXCEPT ![h] = r] /\ razorpay' = razorpay
        /\ razorpay[op[h].link].amount = Due(row[o])
    BY <1>1, DoneEffect DEF WebhookRead, Idle
  <2>3. /\ r.pc = "confirm" /\ r.link = op[h].link /\ r.o = o
        /\ r.seen = Snapshot(o)
    BY <2>1 DEF Op
  <2>4. Snapshot(o)[o] = row[o]
    BY <2>1, HoldingType DEF Snapshot
  <2>5. razorpay[op[h].link] # NotCreated
    BY <2>1 DEF VerifiedSlot, At
  <2> HIDE DEF r, o
  <2>6. op'[h] = r
    BY <2>2, SlotEffect
  <2> QED
    BY <2>2, <2>3, <2>4, <2>5, <2>6 DEF VerifiedSlot, o
<1>2. CASE op'[h].pc \notin {"read_paid", "confirm"}
  BY <1>2 DEF VerifiedSlot
<1>3. \/ op'[h].pc \notin {"read_paid", "confirm"}
      \/ WebhookRead(h) /\ op'[h].pc = "confirm"
  BY StepSlots DEF Idle, Onward
<1> QED
  BY <1>1, <1>2, <1>3

LEMMA VerifiedInit == Init => DeliveriesVerified
BY DEF Init, Idle, DeliveriesVerified

LEMMA VerifiedNext ==
    ASSUME TypeOK, DeliveriesVerified, [Next]_vars
    PROVE  DeliveriesVerified'
<1>1. \A k \in Handlers : VerifiedSlot(op[k])
  BY VerifiedSlots
<1>2. ASSUME NEW k \in Handlers
      PROVE  VerifiedSlot(op[k])'
  <2>1. CASE op'[k] = op[k]
    BY <1>1, <2>1, VerifiedKept
  <2>2. ASSUME NEW h \in Handlers, Arrive(h) \/ Step(h) \/ Crash(h)
        PROVE  VerifiedSlot(op[k])'
    <3>1. CASE k = h
      <4>1. CASE Crash(h)
        BY <3>1, <4>1, DoneEffect DEF Crash, Idle, VerifiedSlot
      <4> QED
        BY <1>1, <2>2, <3>1, <4>1, VerifiedArrive, VerifiedStep
    <3>2. CASE k # h
      <4>1. op'[k] = op[k]
        BY <2>2, <3>2, ArriveSlots, StepSlots, DoneEffect, SlotEffect
           DEF Begin, Crash
      <4> QED
        BY <2>1, <4>1
    <3> QED
      BY <3>1, <3>2
  <2>3. ASSUME NEW h \in Handlers, NEW j \in Job, RunJob(h, j)
        PROVE  VerifiedSlot(op[k])'
    <3>1. CASE op' = op
      BY <2>1, <3>1
    <3>2. CASE JobRead(h, j)
      <4>1. op' = [op EXCEPT ![h] = JobHandler(j)]
        BY <3>2 DEF JobRead, Begin, JobHandler
      <4>2. JobHandler(j).pc = j.kind
        BY HandlerFields DEF JobHandler
      <4>3. j.kind \in {"pay", "stage", "expire"}
        BY DEF Job
      <4>4. op'[k] = op[k] \/ op'[k] = JobHandler(j)
        BY <4>1, SlotEffect
      <4> QED
        BY <2>1, <4>2, <4>3, <4>4 DEF VerifiedSlot
    <3> QED
      BY <2>3, <3>1, <3>2 DEF RunJob, JobSkips
  <2>4. CASE (\E l \in Links : CustomerPays(l)) \/ UNCHANGED vars
    BY <2>1, <2>4 DEF CustomerPays, vars
  <2> QED
    BY <2>2, <2>3, <2>4 DEF Next
<1>3. (\A k \in Handlers : VerifiedSlot(op[k]))' <=> DeliveriesVerified'
  BY DEF DeliveriesVerified, VerifiedSlot, Seen
<1> QED
  BY <1>2, <1>3

LEMMA ConfirmsItsTotal ==
    ASSUME TypeOK, DeliveriesVerified, NEW h \in Handlers, WebhookConfirm(h),
           NEW p \in Orders, row'[p].payment # row[p].payment
    PROVE  razorpay[row'[p].payment].amount = Due(row'[p])
<1> DEFINE o == op[h].o
           r == [row[o] EXCEPT !.status = "PAID", !.payment = op[h].link]
<1>1. o \in Orders /\ row[o] \in Row /\ op[h].pc = "confirm"
  BY RunningType DEF WebhookConfirm, At
<1>2. SetRow(o, r) /\ Due(row[o]) = Due(Seen(h))
  BY DEF WebhookConfirm, ConfirmWhere
<1>3. r.payment = op[h].link /\ Due(r) = Due(row[o])
  BY <1>1 DEF Row, Due
<1>4. razorpay[op[h].link].amount = Due(Seen(h))
  BY <1>1 DEF DeliveriesVerified
<1> HIDE DEF o, r
<1>5. row'[p] = r
  BY <1>1, <1>2, SetRowEffect
<1> QED
  BY <1>2, <1>3, <1>4, <1>5

(* A payment is recorded only for the total it was made for: the delivery   *)
(* compares the amount with the total it reads, and the conditional update  *)
(* makes sure that the total is still that one (markPaidViaRazorpay).       *)
THEOREM PaymentsMatchTheTotal == Spec => ConfirmedAtItsTotal
<1> DEFINE Matches ==
             \A o \in Orders :
               (Present(row[o]) /\ row'[o].payment # row[o].payment) =>
                 razorpay[row'[o].payment].amount = Due(row'[o])
<1>1. TypeOK /\ DeliveriesVerified /\ [Next]_vars => [Matches]_vars
  <2> SUFFICES ASSUME TypeOK, DeliveriesVerified, Next, NEW o \in Orders,
                      Present(row[o]), row'[o].payment # row[o].payment
               PROVE  razorpay[row'[o].payment].amount = Due(row'[o])
    OBVIOUS
  <2>1. ASSUME NEW h \in Handlers, Step(h)
        PROVE  razorpay[row'[o].payment].amount = Due(row'[o])
    BY <2>1, StepFields, ConfirmsItsTotal
  <2>2. ASSUME NEW h \in Handlers, Arrive(h)
        PROVE  FALSE
    BY <2>2, ArriveRows, SetRowEffect DEF Present, OrderStatus
  <2>3. CASE \/ \E h \in Handlers : Crash(h)
             \/ \E h \in Handlers, j \in Job : RunJob(h, j)
             \/ \E l \in Links : CustomerPays(l)
    BY <2>3 DEF Crash, RunJob, JobRead, JobSkips, CustomerPays
  <2> QED
    BY <2>1, <2>2, <2>3 DEF Next
<1> QED
  BY <1>1, VerifiedInit, VerifiedNext, TypeCorrect, PTL
     DEF Spec, ConfirmedAtItsTotal

-----------------------------------------------------------------------------
(* What the properties rest on, together.                                   *)

(* Whoever is about to write has read a live order, moves the shipment of a *)
(* paid one, or confirms the amount it verified; and an order that can be   *)
(* paid is not confirmed yet.                                               *)
THEOREM WritersAreEntitled == Spec => []Strengthening
<1>1. Spec => []DecidedOnLiveOrders
  BY DecidedInit, DecidedNext, TypeCorrect, PTL DEF Spec
<1>2. Spec => []DeliveriesVerified
  BY VerifiedInit, VerifiedNext, TypeCorrect, PTL DEF Spec
<1>3. ConfirmInv => OpenOrdersUnconfirmed
  BY DEF ConfirmInv
<1>4. (/\ DecidedOnLiveOrders /\ ShipmentsArePaid /\ OpenOrdersUnconfirmed
       /\ DeliveriesVerified) => Strengthening
  BY DEF Strengthening
<1> QED
  BY <1>1, <1>2, <1>3, <1>4, ConfirmationInvariant, ShipmentInvariant, PTL

-----------------------------------------------------------------------------
(* Review.  An order above the limit waits for approval, and without        *)
(* amendments its items never change: whoever can still have it paid has    *)
(* seen it below the limit, or reviewed.                                    *)

Cleared(o) == /\ row[o].status # "ABSENT"
              /\ Exceeds(row[o].items) => o \in reviewed
ClearedNext(o) == /\ row'[o].status # "ABSENT"
                  /\ Exceeds(row'[o].items) => o \in reviewed'

Payable == {"PENDING_PAYMENT", "PAID", "FULFILLED"}

ClearedToPay ==
    /\ \A o \in Orders : (row[o].status \in Payable \/ o \in everPaid)
                           => Cleared(o)
    /\ \A j \in Job : (j.kind = "pay" /\ queue[j] > 0) => Cleared(j.o)
    /\ \A h \in Handlers :
         /\ op[h].pc # "amend"
         /\ (op[h].kind = "pay" \/ op[h].pc \in {"link", "progress"})
              => Cleared(op[h].o)

(* Without an amendment nothing takes the clearance of an order away.       *)
LEMMA ClearanceKept ==
    ASSUME TypeOK, ClearedToPay, [Next]_vars, NEW o \in Orders, Cleared(o)
    PROVE  ClearedNext(o)
<1>1. ASSUME NEW h \in Handlers, Step(h)
      PROVE  ClearedNext(o)
  <2>1. ~AmendWrite(h)
    BY DEF ClearedToPay, AmendWrite, At
  <2>2. reviewed \subseteq reviewed'
    BY <1>1 DEF Step, ApproveWrite, AmendWrite, AmendRefused, AttachLink,
       RetryAttach, RetryReread, ClearLink, ScheduleProgress, ScheduleExpiry,
       Reply, StatusWrite, FulfilWrite, ResetWrite, WebhookRead,
       WebhookConfirm, ScheduleStage, PayWrite, StageWrite, ExpireWrite,
       RowGone, LinkRefused, LinkNotConfigured, LinkCreated, history
  <2> QED
    BY <1>1, <2>1, <2>2, StepFields DEF Cleared, ClearedNext
<1>2. ASSUME NEW h \in Handlers, Arrive(h)
      PROVE  ClearedNext(o)
  <2>1. reviewed' = reviewed
    BY <1>2 DEF Arrive, ResetRead, CreateTx, ApproveRead, AmendRead,
       RetryRead, StatusRead, FulfilRead, WebhookLookup, history
  <2>2. row'[o] = row[o]
    BY <1>2, ArriveRows, SetRowEffect DEF Cleared
  <2> QED
    BY <2>1, <2>2 DEF Cleared, ClearedNext
<1>3. CASE \/ \E h \in Handlers : Crash(h)
           \/ \E h \in Handlers, j \in Job : RunJob(h, j)
           \/ \E l \in Links : CustomerPays(l)
           \/ UNCHANGED vars
  BY <1>3 DEF Crash, RunJob, JobRead, JobSkips, CustomerPays, vars, history,
     Cleared, ClearedNext
<1> QED
  BY <1>1, <1>2, <1>3 DEF Next

(* A step of a handler makes an order payable only when it is cleared.      *)
LEMMA ClearedRows ==
    ASSUME TypeOK, ClearedToPay, ShipmentsArePaid, NEW h \in Handlers,
           Step(h), NEW p \in Orders,
           row'[p].status \in Payable \/ p \in everPaid'
    PROVE  ClearedNext(p)
<1> DEFINE o == op[h].o
<1>0. [Next]_vars
  BY DEF Next
<1>1. CASE row[p].status \in Payable \/ p \in everPaid
  BY <1>0, <1>1, ClearanceKept DEF ClearedToPay
<1>2. CASE row[p].status \notin Payable /\ p \notin everPaid
  <2>1. row'[p].status \in Payable /\ row'[p].status # row[p].status
    <3>1. ASSUME NEW r, SetRow(o, r), o \in Orders, p \in everPaid'
          PROVE  row'[p].status \in {"PAID", "FULFILLED"}
      <4>1. p = o /\ r.status \in {"PAID", "FULFILLED"}
        BY <1>2, <3>1 DEF SetRow
      <4> QED
        BY <3>1, <4>1, SetRowEffect
    <3>2. CASE ResetWrite(h)
      BY <1>2, <3>2 DEF ResetWrite
    <3>3. CASE ~ResetWrite(h)
      BY <1>2, <3>1, <3>3, StepRows DEF Payable
    <3> QED
      BY <1>2, <3>2, <3>3
  <2>2. CASE ApproveWrite(h) \/ StatusWrite(h)
    <3>1. o \in Orders /\ row[o].status # "ABSENT" /\ o \in reviewed'
      BY <2>2, RunningType
         DEF ApproveWrite, StatusWrite, At, Present, OrderStatus
    <3>2. p = o
      BY <2>1, <2>2, <3>1, SetRowEffect DEF ApproveWrite, StatusWrite
    <3> QED
      BY <2>1, <3>1, <3>2 DEF Cleared, ClearedNext, Payable
  <2>3. CASE PayWrite(h) \/ FulfilWrite(h) \/ StageWrite(h) \/ WebhookConfirm(h)
    <3>1. o \in Orders
      BY <2>3, RunningType
         DEF PayWrite, FulfilWrite, StageWrite, WebhookConfirm, At
    <3>2. p = o
      BY <2>1, <2>3, <3>1, SetRowEffect
         DEF PayWrite, FulfilWrite, StageWrite, WebhookConfirm
    <3>3. \/ op[h].kind = "pay"
          \/ o \in everPaid
          \/ row[o].status = "PENDING_PAYMENT"
      <4>1. CASE PayWrite(h)
        BY <4>1 DEF PayWrite, At, TypeOK, HandlersTyped, WellFormed
      <4>2. CASE FulfilWrite(h)
        BY <4>2 DEF FulfilWrite, At, ShipmentsArePaid
      <4>3. CASE StageWrite(h)
        BY <4>3 DEF StageWrite, At, TypeOK, HandlersTyped, WellFormed,
           ShipmentsArePaid
      <4>4. CASE WebhookConfirm(h)
        BY <2>1, <4>4 DEF WebhookConfirm, ConfirmWhere
      <4> QED
        BY <2>3, <4>1, <4>2, <4>3, <4>4
    <3>4. Cleared(o)
      BY <3>1, <3>3 DEF ClearedToPay, Payable
    <3> QED
      BY <1>0, <3>1, <3>2, <3>4, ClearanceKept
  <2>4. CASE ExpireWrite(h)
    <3>1. o \in Orders /\ row[o] \in Row
      BY <2>4, RunningType DEF ExpireWrite, At
    <3>2. row'[p] = row[p] \/ row'[p].status = "CANCELLED"
      BY <2>4, <3>1, SetRowEffect DEF ExpireWrite, Row
    <3> QED
      BY <2>1, <3>2 DEF Payable
  <2>5. CASE AttachLink(h) \/ RetryAttach(h) \/ ClearLink(h)
    <3>1. o \in Orders /\ row[o] \in Row
      BY <2>5, RunningType DEF AttachLink, RetryAttach, ClearLink, At
    <3>2. row' = row \/ \E l : SetRow(o, [row[o] EXCEPT !.link = l])
      BY <2>5 DEF AttachLink, RetryAttach, ClearLink
    <3>3. \A l : [row[o] EXCEPT !.link = l].status = row[o].status
      BY <3>1 DEF Row
    <3> HIDE DEF o
    <3>4. row'[p].status = row[p].status
      <4>1. ASSUME NEW l, SetRow(o, [row[o] EXCEPT !.link = l])
            PROVE  row'[p].status = row[p].status
        <5> DEFINE r == [row[o] EXCEPT !.link = l]
        <5>1. SetRow(o, r) /\ r.status = row[o].status
          BY <3>3, <4>1
        <5> HIDE DEF r
        <5> QED
          BY <3>1, <5>1, SetRowEffect
      <4> QED
        BY <3>2, <4>1
    <3> QED
      BY <2>1, <3>4
  <2>6. CASE ResetWrite(h)
    <3>1. row'[p] = row[p] \/ row'[p].status = "DELETED"
      BY <2>6 DEF ResetWrite, TypeOK, Row
    <3> QED
      BY <2>1, <3>1 DEF Payable
  <2>7. CASE \/ AmendRefused(h) \/ RetryReread(h) \/ ScheduleProgress(h)
             \/ ScheduleExpiry(h) \/ Reply(h) \/ WebhookRead(h)
             \/ ScheduleStage(h) \/ RowGone(h) \/ LinkRefused(h)
             \/ LinkNotConfigured(h) \/ \E l \in Links : LinkCreated(h, l)
    BY <2>1, <2>7 DEF AmendRefused, RetryReread, ScheduleProgress,
       ScheduleExpiry, Reply, WebhookRead, ScheduleStage, RowGone,
       LinkRefused, LinkNotConfigured, LinkCreated
  <2>8. ~AmendWrite(h)
    BY DEF ClearedToPay, AmendWrite, At
  <2> QED
    BY <2>2, <2>3, <2>4, <2>5, <2>6, <2>7, <2>8 DEF Step
<1> QED
  BY <1>1, <1>2

(* Where a handler asks for a link, or for the simulated payment, from.     *)
LEMMA StepOnward ==
    ASSUME TypeOK, NEW h \in Handlers, Step(h), op'[h].pc \in Onward
    PROVE  /\ op[h].pc \in {"approve", "amend"} \cup (Onward \ {"reply"})
           /\ op'[h].pc \in {"link", "progress"} =>
                ApproveWrite(h) \/ op[h].pc \in {"amend", "link"}
           /\ op'[h].pc = "clear" => op[h].kind = "amend"
           /\ op'[h].pc = "attach" => op[h].pc = "link"
<1>0. op[h] \in Op
  BY DEF TypeOK, HandlersTyped
<1>1. ASSUME Done(h) PROVE FALSE
  BY <1>1, DoneEffect DEF Idle, Onward
<1>2. ASSUME NEW s, ThenSchedule(h, s) PROVE FALSE
  BY <1>2, ThenScheduleEffect DEF Onward
<1>3. CASE ApproveWrite(h) \/ AmendWrite(h)
  <2>1. ApproveWrite(h) => op'[h].pc \in {"link", "progress", "expiry"}
    <3>1. ASSUME ApproveWrite(h)
          PROVE  op'[h].pc \in {"link", "progress", "expiry"}
      <4>1. PICK r : Continue(h, AfterApproval(r), r)
        BY <3>1 DEF ApproveWrite
      <4> QED
        BY <4>1, ContinueEffect DEF AfterApproval
    <3> QED
      BY <3>1
  <2>2. AmendWrite(h) => op'[h].pc \in {"link", "reply"}
    <3>1. ASSUME AmendWrite(h)
          PROVE  op'[h].pc \in {"link", "reply"}
      <4>1. PICK r : Continue(h, AfterAmendment(r), r)
        BY <3>1 DEF AmendWrite
      <4> QED
        BY <4>1, ContinueEffect DEF AfterAmendment
    <3> QED
      BY <3>1
  <2> QED
    BY <1>3, <2>1, <2>2 DEF ApproveWrite, AmendWrite, At
<1>4. CASE AttachLink(h) \/ RetryAttach(h) \/ RetryReread(h) \/ ClearLink(h)
  <2>1. \/ \E pc \in {"reply", "expiry"} : \E r : Continue(h, pc, r)
        \/ Goto(h, "reread")
        \/ Done(h)
    BY <1>4 DEF AttachLink, RetryAttach, RetryReread, ClearLink
  <2>2. op'[h].pc \in {"reply", "expiry", "reread"}
    BY <1>1, <2>1, ContinueEffect, GotoEffect
  <2> QED
    BY <1>4, <2>2 DEF AttachLink, RetryAttach, RetryReread, ClearLink, At, Onward
<1>5. CASE ScheduleProgress(h) \/ ScheduleExpiry(h)
  <2>1. op'[h].pc \in {"reply", "expiry"}
    BY <1>5, GotoEffect DEF ScheduleProgress, ScheduleExpiry
  <2> QED
    BY <1>5, <2>1 DEF ScheduleProgress, ScheduleExpiry, At, Onward
<1>6. CASE LinkRefused(h)
  <2> DEFINE pc == IF op[h].kind = "amend" THEN "clear" ELSE "expiry"
             r == [op[h] EXCEPT !.failed = TRUE, !.pc = pc]
  <2>1. r.pc = pc
    BY <1>0 DEF Op
  <2>2. op' = [op EXCEPT ![h] = r]
    BY <1>1, <1>6 DEF LinkRefused
  <2> HIDE DEF r
  <2>3. op'[h].pc = pc
    BY <2>1, <2>2, SlotEffect
  <2> QED
    BY <1>6, <2>3 DEF LinkRefused, At, Onward
<1>7. CASE LinkNotConfigured(h)
  <2>1. \/ \E pc \in {"reply", "progress", "expiry"} : Goto(h, pc)
        \/ Done(h)
    BY <1>7 DEF LinkNotConfigured
  <2>2. op'[h].pc \in {"reply", "progress", "expiry"}
    BY <1>1, <2>1, GotoEffect
  <2> QED
    BY <1>7, <2>2 DEF LinkNotConfigured, At, Onward
<1>8. ASSUME NEW l \in Links, LinkCreated(h, l)
      PROVE  op'[h].pc = "attach" /\ op[h].pc = "link"
  <2> DEFINE r == [op[h] EXCEPT !.pc = "attach", !.link = l]
  <2>1. r.pc = "attach"
    BY <1>0 DEF Op
  <2>2. op' = [op EXCEPT ![h] = r]
    BY <1>8 DEF LinkCreated
  <2> HIDE DEF r
  <2> QED
    BY <1>8, <2>1, <2>2, SlotEffect DEF LinkCreated, At
<1>9. CASE WebhookRead(h)
  <2> DEFINE r == [op[h] EXCEPT !.pc = "confirm", !.seen = Snapshot(op[h].o)]
  <2>1. r.pc = "confirm"
    BY <1>0 DEF Op
  <2>2. op' = [op EXCEPT ![h] = r]
    BY <1>1, <1>9 DEF WebhookRead
  <2> HIDE DEF r
  <2>3. op'[h].pc = "confirm"
    BY <2>1, <2>2, SlotEffect
  <2> QED
    BY <2>3 DEF Onward
<1>10. CASE WebhookConfirm(h) \/ PayWrite(h) \/ StageWrite(h)
  <2>1. Done(h) \/ \E s : ThenSchedule(h, s)
    BY <1>10 DEF WebhookConfirm, PayWrite, StageWrite
  <2> QED
    BY <1>1, <1>2, <2>1
<1>11. CASE \/ AmendRefused(h) \/ Reply(h) \/ StatusWrite(h) \/ FulfilWrite(h)
            \/ ResetWrite(h) \/ ScheduleStage(h) \/ ExpireWrite(h) \/ RowGone(h)
  <2>1. Done(h)
    BY <1>11 DEF AmendRefused, Reply, StatusWrite, FulfilWrite, ResetWrite,
       ScheduleStage, ExpireWrite, RowGone
  <2> QED
    BY <1>1, <2>1
<1> QED
  BY <1>3, <1>4, <1>5, <1>6, <1>7, <1>8, <1>9, <1>10, <1>11
     DEF Step, Onward

LEMMA ClearedStep ==
    ASSUME TypeOK, ClearedToPay, ShipmentsArePaid, NEW h \in Handlers, Step(h)
    PROVE  ClearedToPay'
<1> DEFINE o == op[h].o
<1>0. [Next]_vars
  BY DEF Next
<1>1. \A p \in Orders : (row'[p].status \in Payable \/ p \in everPaid')
                          => ClearedNext(p)
  BY ClearedRows
<1>2. ASSUME NEW j \in Job, j.kind = "pay", queue'[j] > 0
      PROVE  ClearedNext(j.o)
  <2>1. CASE queue[j] > 0
    <3>1. Cleared(j.o) /\ j.o \in Orders
      BY <1>2, <2>1 DEF ClearedToPay, Job
    <3> QED
      BY <1>0, <3>1, ClearanceKept
  <2>2. CASE ~(queue[j] > 0)
    <3>1. queue' # queue
      BY <1>2, <2>2
    <3>2. ScheduleProgress(h) \/ ScheduleExpiry(h) \/ ScheduleStage(h)
      BY <3>1 DEF Step, ApproveWrite, AmendWrite, AmendRefused, AttachLink,
         RetryAttach, RetryReread, ClearLink, Reply, StatusWrite,
         FulfilWrite, ResetWrite, WebhookRead, WebhookConfirm, PayWrite,
         StageWrite, ExpireWrite, RowGone, LinkRefused, LinkNotConfigured,
         LinkCreated
    <3>3. ASSUME NEW i, Enqueue(i) PROVE i = j
      BY <1>2, <2>2, <3>3 DEF Enqueue, TypeOK
    <3>4. ScheduleProgress(h) /\ j = PayJob(o)
      BY <1>2, <3>1, <3>2, <3>3 DEF ScheduleProgress, ScheduleExpiry,
         ScheduleStage, StageJob, ExpireJob, PayJob
    <3>5. Cleared(o) /\ o \in Orders
      BY <3>4, RunningType DEF ScheduleProgress, At, ClearedToPay
    <3> QED
      BY <1>0, <3>4, <3>5, ClearanceKept DEF PayJob
  <2> QED
    BY <2>1, <2>2
<1>3. ASSUME NEW k \in Handlers
      PROVE  /\ op'[k].pc # "amend"
             /\ (op'[k].kind = "pay" \/ op'[k].pc \in {"link", "progress"})
                  => ClearedNext(op'[k].o)
  <2>a. ASSUME NEW r, r \in Op, WellFormed(r), r.kind = "pay" \/ r.pc \in Onward
        PROVE  r.o \in Orders
    BY <2>a DEF WellFormed, Idle, Onward
  <2>1. CASE k # h
    <3>1. op'[k] = op[k] /\ op[k] \in Op /\ WellFormed(op[k])
      BY <2>1, StepSlots DEF TypeOK, HandlersTyped
    <3>2. op[k].pc # "amend"
      BY DEF ClearedToPay
    <3>3. ASSUME op[k].kind = "pay" \/ op[k].pc \in {"link", "progress"}
          PROVE  ClearedNext(op[k].o)
      <4>1. Cleared(op[k].o) /\ op[k].o \in Orders
        BY <2>a, <3>1, <3>3 DEF ClearedToPay, Onward
      <4> QED
        BY <1>0, <4>1, ClearanceKept
    <3> QED
      BY <3>1, <3>2, <3>3
  <2>2. CASE k = h
    <3>1. op'[h].pc # "amend"
      BY StepSlots DEF Idle, Onward
    <3>2. CASE op'[h].kind = "pay"
      <4>1. op[h].kind = "pay" /\ op'[h].o = o
        BY <3>2, StepSlots DEF Idle
      <4>2. Cleared(o) /\ o \in Orders
        BY <2>a, <4>1 DEF ClearedToPay, TypeOK, HandlersTyped
      <4> QED
        BY <1>0, <2>2, <3>1, <4>1, <4>2, ClearanceKept
    <3>3. CASE op'[h].pc \in {"link", "progress"}
      <4>1. ApproveWrite(h) \/ op[h].pc = "link"
        BY <3>3, StepOnward DEF Onward, ClearedToPay
      <4>2. op'[h].o = o
        BY <3>3, StepSlots DEF Idle
      <4>3. CASE op[h].pc = "link"
        <5>1. Cleared(o) /\ o \in Orders
          BY <4>3, RunningType DEF ClearedToPay
        <5> QED
          BY <1>0, <2>2, <3>1, <4>2, <5>1, ClearanceKept
      <4>4. CASE ApproveWrite(h)
        <5>1. o \in Orders /\ row[o] \in Row
          BY <4>4, RunningType DEF ApproveWrite, At
        <5>2. row'[o].status = "PENDING_PAYMENT"
          BY <4>4, <5>1, SetRowEffect DEF ApproveWrite, Row
        <5> QED
          BY <1>1, <2>2, <3>1, <4>2, <5>1, <5>2 DEF Payable
      <4> QED
        BY <4>1, <4>3, <4>4
    <3> QED
      BY <2>2, <3>1, <3>2, <3>3
  <2> QED
    BY <2>1, <2>2
<1> QED
  BY <1>1, <1>2, <1>3 DEF ClearedToPay, Cleared, ClearedNext

LEMMA ClearedArrive ==
    ASSUME "amend" \notin Requests, TypeOK, ClearedToPay,
           NEW h \in Handlers, Arrive(h)
    PROVE  ClearedToPay'
<1>0. [Next]_vars /\ ~ \E o \in Orders : AmendRead(h, o)
  BY DEF Next, AmendRead, Request
<1>1. \A p \in Orders : Cleared(p) => ClearedNext(p)
  BY <1>0, ClearanceKept
<1>2. ASSUME NEW p \in Orders, row'[p].status \in Payable \/ p \in everPaid'
      PROVE  ClearedNext(p)
  <2>1. CASE row'[p] = row[p] /\ (p \in everPaid' => p \in everPaid)
    BY <1>1, <1>2, <2>1 DEF ClearedToPay
  <2>2. ASSUME NEW items \in Items, NEW method \in Methods,
               SetRow(p, NewRow(method, items))
        PROVE  ClearedNext(p)
    <3> DEFINE r == NewRow(method, items)
    <3>1. r.items = items /\ r.status = InitialStatus(method, items)
      BY DEF NewRow, NoRow
    <3>2. r.status \notin {"PAID", "FULFILLED", "ABSENT"}
      BY <3>1 DEF InitialStatus
    <3>3. p \in everPaid' => p \in everPaid
      BY <2>2, <3>2 DEF SetRow
    <3> HIDE DEF r
    <3>4. row'[p] = r
      BY <2>2, SetRowEffect DEF r
    <3>5. CASE p \in everPaid
      BY <1>1, <3>5 DEF ClearedToPay
    <3>6. CASE p \notin everPaid
      <4>1. r.status = "PENDING_PAYMENT"
        BY <1>2, <3>2, <3>3, <3>4, <3>6 DEF Payable
      <4>2. ~Exceeds(r.items)
        BY <3>1, <4>1 DEF InitialStatus
      <4> QED
        BY <3>2, <3>4, <4>2 DEF Cleared, ClearedNext
    <3> QED
      BY <3>5, <3>6
  <2>3. \/ UNCHANGED <<row, opened, everPaid>>
        \/ \E o \in Orders, items \in Items, method \in Methods :
             SetRow(o, NewRow(method, items))
    BY ArriveRows
  <2>4. ASSUME NEW o \in Orders, NEW items \in Items, NEW method \in Methods,
               SetRow(o, NewRow(method, items)), o # p
        PROVE  row'[p] = row[p] /\ (p \in everPaid' => p \in everPaid)
    <3>1. row'[p] = row[p]
      BY <2>4, SetRowEffect
    <3>2. p \in everPaid' => p \in everPaid
      BY <2>4 DEF SetRow
    <3> QED
      BY <3>1, <3>2
  <2> QED
    BY <2>1, <2>2, <2>3, <2>4
<1>3. queue' = queue
  BY ArriveRows
<1>4. \A k \in Handlers \ {h} : op'[k] = op[k]
  BY ArriveKinds
<1>5. /\ op'[h].pc # "amend" /\ op'[h].kind # "pay"
      /\ op'[h].pc \in {"link", "progress"} =>
           op'[h].o \in Orders /\ row'[op'[h].o].status = "PENDING_PAYMENT"
  <2>1. ASSUME NEW o \in Orders, RetryRead(h, o)
        PROVE  row'[o].status = "PENDING_PAYMENT"
    BY <2>1 DEF RetryRead
  <2> QED
    BY <1>0, <2>1, ArriveKinds DEF Starts
<1>6. op'[h].pc \in {"link", "progress"} => ClearedNext(op'[h].o)
  BY <1>2, <1>5 DEF Payable
<1>7. ASSUME NEW k \in Handlers \ {h},
             op[k].kind = "pay" \/ op[k].pc \in {"link", "progress"}
      PROVE  ClearedNext(op[k].o)
  <2>1. op[k].o \in Orders /\ Cleared(op[k].o)
    BY <1>7 DEF ClearedToPay, TypeOK, HandlersTyped, WellFormed, Idle
  <2> QED
    BY <1>1, <2>1
<1>8. ASSUME NEW j \in Job, j.kind = "pay", queue[j] > 0
      PROVE  ClearedNext(j.o)
  BY <1>1, <1>8 DEF ClearedToPay, Job
<1>9. \A k \in Handlers :
        /\ op'[k].pc # "amend"
        /\ (op'[k].kind = "pay" \/ op'[k].pc \in {"link", "progress"})
             => ClearedNext(op'[k].o)
  BY <1>4, <1>5, <1>6, <1>7 DEF ClearedToPay
<1> QED
  BY <1>2, <1>3, <1>8, <1>9 DEF ClearedToPay, Cleared, ClearedNext

LEMMA ClearedJob ==
    ASSUME TypeOK, ClearedToPay, NEW h \in Handlers, NEW j \in Job,
           RunJob(h, j)
    PROVE  ClearedToPay'
<1>1. UNCHANGED <<row, reviewed, everPaid>>
  BY DEF RunJob, JobRead, JobSkips, history
<1>2. /\ queue[j] > 0
      /\ \A i \in Job : queue'[i] > 0 => queue[i] > 0
  BY DEF RunJob, JobRead, JobSkips, TakeJob, TypeOK
<1>3. \A k \in Handlers :
        /\ op'[k].pc # "amend"
        /\ (op'[k].kind = "pay" \/ op'[k].pc \in {"link", "progress"})
             => Cleared(op'[k].o)
  <2>1. CASE JobRead(h, j)
    <3>1. op' = [op EXCEPT ![h] = JobHandler(j)]
      BY <2>1 DEF JobRead, Begin, JobHandler
    <3>2. /\ op'[h] = JobHandler(j)
          /\ \A k \in Handlers \ {h} : op'[k] = op[k]
      BY <3>1, SlotEffect
    <3>3. /\ JobHandler(j).kind = j.kind /\ JobHandler(j).pc = j.kind
          /\ JobHandler(j).o = j.o
      BY DEF JobHandler, Handler, Idle
    <3>4. j.kind \in {"pay", "stage", "expire"}
      BY DEF Job
    <3>5. j.kind = "pay" => Cleared(j.o)
      BY <1>2 DEF ClearedToPay
    <3> QED
      BY <3>2, <3>3, <3>4, <3>5 DEF ClearedToPay
  <2>2. CASE JobSkips(h, j)
    BY <2>2 DEF JobSkips, ClearedToPay
  <2> QED
    BY <2>1, <2>2 DEF RunJob
<1> QED
  BY <1>1, <1>2, <1>3 DEF ClearedToPay, Cleared

LEMMA ClearedCrash ==
    ASSUME TypeOK, ClearedToPay, NEW h \in Handlers, Crash(h)
    PROVE  ClearedToPay'
<1>1. UNCHANGED <<row, reviewed, everPaid>> /\ Done(h)
  BY DEF Crash, history
<1>2. ASSUME NEW j \in Job, j.kind = "pay", queue'[j] > 0
      PROVE  Cleared(j.o)
  <2>1. CASE queue[j] > 0
    BY <1>2, <2>1 DEF ClearedToPay
  <2>2. CASE ~(queue[j] > 0)
    <3>1. PICK i \in Retried(h) : Enqueue(i)
      BY <1>2, <2>2 DEF Crash
    <3>2. i = j
      BY <1>2, <2>2, <3>1 DEF Enqueue, TypeOK
    <3>3. op[h].kind = "pay" /\ j.o = op[h].o
      BY <1>2, <3>1, <3>2 DEF Retried, PayJob, ExpireJob, StageJob
    <3> QED
      BY <3>3 DEF ClearedToPay
  <2> QED
    BY <2>1, <2>2
<1>3. \A k \in Handlers :
        /\ op'[k].pc # "amend"
        /\ (op'[k].kind = "pay" \/ op'[k].pc \in {"link", "progress"})
             => Cleared(op'[k].o)
  BY <1>1, DoneEffect DEF ClearedToPay, Idle
<1> QED
  BY <1>1, <1>2, <1>3 DEF ClearedToPay, Cleared

(* As long as no order is amended, an order above the autonomy limit is     *)
(* never paid or shipped before a merchant has approved it or set its       *)
(* status: no payment link, webhook, simulated payment, stage job or retry  *)
(* reaches it.  (With amendments it fails: the run Orders_unreviewed.)      *)
THEOREM ReviewPrecedesPayment ==
    ASSUME "amend" \notin Requests
    PROVE  Spec => []ReviewedBeforePaid
<1>1. Init => ClearedToPay
  BY DEF Init, NoTable, NoRow, Idle, ClearedToPay, Payable
<1>2. TypeOK /\ ShipmentsArePaid /\ ClearedToPay /\ [Next]_vars => ClearedToPay'
  <2> SUFFICES ASSUME TypeOK, ShipmentsArePaid, ClearedToPay, [Next]_vars
               PROVE  ClearedToPay'
    OBVIOUS
  <2>1. ASSUME NEW h \in Handlers, Arrive(h) \/ Step(h) \/ Crash(h)
        PROVE  ClearedToPay'
    BY <2>1, ClearedArrive, ClearedStep, ClearedCrash
  <2>2. ASSUME NEW h \in Handlers, NEW j \in Job, RunJob(h, j)
        PROVE  ClearedToPay'
    BY <2>2, ClearedJob
  <2>3. CASE (\E l \in Links : CustomerPays(l)) \/ UNCHANGED vars
    BY <2>3 DEF CustomerPays, vars, history, ClearedToPay, Cleared
  <2> QED
    BY <2>1, <2>2, <2>3 DEF Next
<1>3. ClearedToPay => ReviewedBeforePaid
  BY DEF ClearedToPay, ReviewedBeforePaid, Cleared, Payable
<1> QED
  BY <1>1, <1>2, <1>3, TypeCorrect, ShipmentInvariant, PTL DEF Spec

-----------------------------------------------------------------------------
(* One link.  Without amendments and approvals only the handler that creates *)
(* an order and the customer's retries ask for links, and an order that has  *)
(* one keeps it: a retry starts when the creation is over, and attaches its  *)
(* link only to an order that has none.                                      *)

Serving == {"create", "retry"}

\* what a handler that serves the customer holds is the order's own link
HoldsLink(r) ==
    /\ row[r.o].status # "ABSENT"
    /\ r.seen[r.o].link \in {NoLink, row[r.o].link}
HoldsLinkNext(r) ==
    /\ row'[r.o].status # "ABSENT"
    /\ r.seen[r.o].link \in {NoLink, row'[r.o].link}

\* nobody else serves the order that handler r is creating
Alone(r, s) == (r.kind = "create" /\ s.o = r.o) => s.kind \notin Serving

Linking(r) == r.kind = "create" /\ r.pc \in {"link", "attach"}

OneLinkEach ==
    /\ \A o \in Orders :
         /\ \A s \in offered[o] : s.link = row[o].link
         /\ row[o].status = "ABSENT" => row[o].link = NoLink
    /\ \A h \in Handlers :
         /\ op[h].pc \notin {"amend", "approve", "clear"}
         /\ op[h].pc \in Onward => op[h].kind \in Serving
         /\ op[h].kind \in Serving => HoldsLink(op[h])
         /\ \A k \in Handlers \ {h} : Alone(op[h], op[k])
         /\ Linking(op[h]) => row[op[h].o].link = NoLink

LEMMA ContinueSeen ==
    ASSUME TypeOK, NEW h \in Handlers, NEW pc, NEW r \in Row,
           op[h].o \in Orders, Continue(h, pc, r)
    PROVE  op'[h].seen[op[h].o] = r
<1> DEFINE s == [op[h] EXCEPT !.pc = pc, !.seen = Holding(op[h].o, r),
                              !.link = NoLink, !.want = NoItems]
<1>1. s.seen = Holding(op[h].o, r)
  BY DEF TypeOK, HandlersTyped, Op
<1>2. op' = [op EXCEPT ![h] = s]
  BY DEF Continue
<1> HIDE DEF s
<1>3. op'[h] = s
  BY <1>2, SlotEffect
<1>4. Holding(op[h].o, r)[op[h].o] = r
  BY HoldingType
<1> QED
  BY <1>1, <1>3, <1>4

(* A handler that goes on holds the row it held, or the one just written.   *)
LEMMA StepSeen ==
    ASSUME TypeOK, NEW h \in Handlers, Step(h), op'[h].pc \in Onward,
           op[h].pc \notin {"amend", "approve", "clear"}
    PROVE  op'[h].seen[op[h].o] \in {Seen(h), row'[op[h].o]}
<1> DEFINE o == op[h].o
<1>0. /\ op[h] \in Op /\ o \in Orders /\ row[o] \in Row
      /\ op[h].link \in Links \cup {NoLink}
  BY StepOnward, RunningType DEF Onward, TypeOK, HandlersTyped, Op
<1>1. ASSUME NEW r, op' = [op EXCEPT ![h] = r], r.seen = op[h].seen
      PROVE  op'[h].seen[o] = Seen(h)
  BY <1>1, SlotEffect DEF Seen
<1>2. ASSUME NEW pc, Goto(h, pc)
      PROVE  op'[h].seen[o] = Seen(h)
  <2> DEFINE r == [op[h] EXCEPT !.pc = pc]
  <2>1. op' = [op EXCEPT ![h] = r] /\ r.seen = op[h].seen
    BY <1>0, <1>2 DEF Goto, Op
  <2> HIDE DEF r, o
  <2> QED
    BY <1>1, <2>1
<1>3. ASSUME Done(h) PROVE FALSE
  BY <1>3, DoneEffect DEF Idle, Onward
<1>4. CASE AttachLink(h) \/ (RetryAttach(h) /\ AttachWhere(row[o]))
  <2> DEFINE r == [row[o] EXCEPT !.link = op[h].link]
  <2>1. SetRow(o, r) /\ \E pc : Continue(h, pc, r)
    BY <1>4 DEF AttachLink, RetryAttach
  <2>2. r \in Row
    BY <1>0 DEF Row
  <2> HIDE DEF r
  <2>3. row'[o] = r
    BY <1>0, <2>1, SetRowEffect
  <2>4. op'[h].seen[o] = r
    BY <1>0, <2>1, <2>2, ContinueSeen
  <2> QED
    BY <2>3, <2>4
<1>5. CASE RetryAttach(h) /\ ~AttachWhere(row[o])
  BY <1>2, <1>5 DEF RetryAttach
<1>6. CASE RetryReread(h)
  <2>1. Continue(h, "reply", row[o]) /\ row' = row
    BY <1>3, <1>6 DEF RetryReread
  <2>2. op'[h].seen[o] = row[o]
    BY <1>0, <2>1, ContinueSeen
  <2>3. row'[o] = row[o]
    BY <2>1
  <2>4. op'[h].seen[o] = row'[o]
    BY <2>2, <2>3
  <2> QED
    BY <2>4
<1>7. CASE ScheduleProgress(h) \/ ScheduleExpiry(h)
  BY <1>2, <1>7 DEF ScheduleProgress, ScheduleExpiry
<1>8. CASE LinkRefused(h)
  <2> DEFINE pc == IF op[h].kind = "amend" THEN "clear" ELSE "expiry"
             r == [op[h] EXCEPT !.failed = TRUE, !.pc = pc]
  <2>1. op' = [op EXCEPT ![h] = r] /\ r.seen = op[h].seen
    BY <1>0, <1>3, <1>8 DEF LinkRefused, Op
  <2> HIDE DEF r
  <2> QED
    BY <1>1, <2>1
<1>9. CASE LinkNotConfigured(h)
  BY <1>2, <1>3, <1>9 DEF LinkNotConfigured
<1>10. ASSUME NEW l \in Links, LinkCreated(h, l)
       PROVE  op'[h].seen[o] = Seen(h)
  <2> DEFINE r == [op[h] EXCEPT !.pc = "attach", !.link = l]
  <2>1. op' = [op EXCEPT ![h] = r] /\ r.seen = op[h].seen
    BY <1>0, <1>10 DEF LinkCreated, Op
  <2> HIDE DEF r, o
  <2> QED
    BY <1>1, <2>1
<1>11. op[h].pc \in Onward \ {"reply", "clear"}
  BY StepOnward
<1>12. ~ \/ ApproveWrite(h) \/ AmendWrite(h) \/ AmendRefused(h) \/ ClearLink(h)
         \/ StatusWrite(h) \/ FulfilWrite(h) \/ ResetWrite(h)
         \/ WebhookRead(h) \/ WebhookConfirm(h) \/ ScheduleStage(h)
         \/ PayWrite(h) \/ StageWrite(h) \/ ExpireWrite(h) \/ Reply(h)
  BY <1>11 DEF Onward, ApproveWrite, AmendWrite, AmendRefused, ClearLink,
     StatusWrite, FulfilWrite, ResetWrite, WebhookRead, WebhookConfirm,
     ScheduleStage, PayWrite, StageWrite, ExpireWrite, Reply, At
<1>13. ~RowGone(h)
  BY <1>3 DEF RowGone
<1> QED
  BY <1>4, <1>5, <1>6, <1>7, <1>8, <1>9, <1>10, <1>12, <1>13 DEF Step

(* The link of an order changes once, from none, and only under the hands   *)
(* of the handler that attaches it.                                         *)
LEMMA LinkChange ==
    ASSUME TypeOK, OneLinkEach, NEW h \in Handlers, Step(h), NEW p \in Orders
    PROVE  \/ row'[p].link = row[p].link
           \/ /\ p = op[h].o /\ row[p].link = NoLink
              /\ op[h].kind \in Serving /\ op[h].pc = "attach"
<1>1. ~ClearLink(h) /\ ~AmendWrite(h)
  BY DEF OneLinkEach, ClearLink, AmendWrite, At
<1>2. CASE AttachLink(h) \/ RetryAttach(h)
  <2>1. op[h].pc = "attach" /\ op[h].kind \in Serving
    BY <1>2 DEF AttachLink, RetryAttach, At, OneLinkEach, Onward
  <2>2. op[h].o \in Orders /\ row[op[h].o] \in Row
    BY <2>1, RunningType
  <2>3. p # op[h].o => row'[p] = row[p]
    BY <1>2, <2>2, SetRowEffect DEF AttachLink, RetryAttach
  <2>4. \/ row' = row
        \/ row[op[h].o].link = NoLink
    <3>1. CASE AttachLink(h)
      BY <2>1, <3>1 DEF AttachLink, Serving, OneLinkEach, Linking
    <3>2. CASE RetryAttach(h)
      BY <3>2 DEF RetryAttach, AttachWhere
    <3> QED
      BY <1>2, <3>1, <3>2
  <2> QED
    BY <2>1, <2>3, <2>4
<1>3. CASE ~(AttachLink(h) \/ RetryAttach(h))
  BY <1>1, <1>3, StepFields
<1> QED
  BY <1>2, <1>3

LEMMA OneLinkStep ==
    ASSUME TypeOK, OneLinkEach, NEW h \in Handlers, Step(h)
    PROVE  OneLinkEach'
<1> DEFINE o == op[h].o
<1>0. ~AmendWrite(h) /\ ~ClearLink(h)
  BY DEF OneLinkEach, AmendWrite, ClearLink, At
<1>1. \A k \in Handlers \ {h} : op'[k] = op[k]
  BY StepSlots
<1>2. op'[h] = Idle \/ (op'[h].o = o /\ op'[h].kind = op[h].kind)
  BY StepSlots
<1>3. ASSUME NEW p \in Orders
      PROVE  /\ row[p].status # "ABSENT" => row'[p].status # "ABSENT"
             /\ row[p].link # NoLink => row'[p].link = row[p].link
  BY <1>0, StepFields, LinkChange
<1>4. ASSUME NEW k \in Handlers, op[k].kind \in Serving
      PROVE  op[k].o \in Orders
  BY <1>4 DEF Serving, TypeOK, HandlersTyped, WellFormed, Idle
<1>5. ASSUME NEW p \in Orders, NEW s \in offered'[p]
      PROVE  s.link = row'[p].link
  <2>1. CASE s \in offered[p]
    <3>1. s.link = row[p].link /\ s.link \in Links
      BY <2>1 DEF OneLinkEach, TypeOK
    <3> QED
      BY <1>3, <3>1, ConstantsOK
  <2>2. CASE s \notin offered[p]
    <3>1. Reply(h)
      BY <1>5, <2>2 DEF Step, ApproveWrite, AmendWrite, AmendRefused,
         AttachLink, RetryAttach, RetryReread, ClearLink, ScheduleProgress,
         ScheduleExpiry, StatusWrite, FulfilWrite, ResetWrite, WebhookRead,
         WebhookConfirm, ScheduleStage, PayWrite, StageWrite, ExpireWrite,
         RowGone, LinkRefused, LinkNotConfigured, LinkCreated, history
    <3>2. p = o /\ s.link = Seen(h).link /\ s.link # NoLink
      BY <1>5, <2>2, <3>1 DEF Reply, TypeOK
    <3>3. op[h].kind \in Serving
      BY <3>1 DEF Reply, At, OneLinkEach, Onward
    <3>4. s.link = row[p].link
      BY <3>2, <3>3 DEF OneLinkEach, HoldsLink, Seen
    <3> QED
      BY <3>1, <3>4 DEF Reply
  <2> QED
    BY <2>1, <2>2
<1>6. ASSUME NEW p \in Orders, row'[p].status = "ABSENT"
      PROVE  row'[p].link = NoLink
  <2>1. row[p].status = "ABSENT" /\ row[p].link = NoLink
    BY <1>3, <1>6 DEF OneLinkEach
  <2>2. ~(p = o /\ op[h].kind \in Serving)
    BY <2>1 DEF OneLinkEach, HoldsLink
  <2> QED
    BY <2>1, <2>2, LinkChange
<1>7. ASSUME NEW k \in Handlers
      PROVE  /\ op'[k].pc \notin {"amend", "approve", "clear"}
             /\ op'[k].pc \in Onward => op'[k].kind \in Serving
  <2>1. CASE k # h
    BY <1>1, <2>1 DEF OneLinkEach
  <2>2. CASE k = h
    <3>1. CASE op'[h].pc \in Onward
      <4>1. op[h].kind \in Serving
        BY <3>1, StepOnward DEF OneLinkEach
      <4>2. op'[h].kind = op[h].kind
        BY <1>2, <3>1 DEF Idle, Onward
      <4>3. op'[h].pc # "clear"
        BY <3>1, <4>1, StepOnward DEF Serving
      <4> QED
        BY <2>2, <3>1, <4>1, <4>2, <4>3 DEF Onward
    <3>2. CASE op'[h].pc \notin Onward
      BY <2>2, <3>2, StepSlots DEF Idle, Onward
    <3> QED
      BY <3>1, <3>2
  <2> QED
    BY <2>1, <2>2
<1>8. ASSUME NEW k \in Handlers, op'[k].kind \in Serving
      PROVE  HoldsLinkNext(op'[k])
  <2>1. CASE k # h
    <3>1. op'[k] = op[k] /\ op[k].o \in Orders /\ HoldsLink(op[k])
      BY <1>1, <1>4, <1>8, <2>1 DEF OneLinkEach
    <3>2. \/ row'[op[k].o].link = row[op[k].o].link
          \/ row[op[k].o].link = NoLink
      BY <1>3, <3>1
    <3> QED
      BY <1>3, <3>1, <3>2 DEF HoldsLink, HoldsLinkNext
  <2>2. CASE k = h
    <3>1. op'[h].o = o /\ op[h].kind = op'[h].kind /\ op[h].kind \in Serving
      BY <1>2, <1>8, <2>2 DEF Idle, Serving
    <3>2. o \in Orders /\ HoldsLink(op[h])
      BY <1>4, <3>1 DEF OneLinkEach
    <3>3. op'[h].pc \in Onward
      <4>1. WellFormed(op[h]) /\ op[h].kind \notin {"webhook", "pay", "stage"}
        BY <3>1 DEF Serving, TypeOK, HandlersTyped
      <4>2. ~ \/ WebhookRead(h) \/ WebhookConfirm(h)
              \/ PayWrite(h) \/ StageWrite(h)
        BY <4>1 DEF WellFormed, WebhookRead, WebhookConfirm, PayWrite,
           StageWrite, At
      <4>3. op'[h] # Idle
        BY <1>8, <2>2 DEF Idle, Serving
      <4> QED
        BY <4>2, <4>3, StepSlots
    <3>4. op[h].pc \notin {"amend", "approve", "clear"}
      BY DEF OneLinkEach
    <3>5. op'[h].seen[o] \in {Seen(h), row'[o]}
      BY <3>3, <3>4, StepSeen
    <3>6. \/ row'[o].link = row[o].link
          \/ row[o].link = NoLink
      BY <1>3, <3>2
    <3> QED
      BY <1>3, <2>2, <3>1, <3>2, <3>5, <3>6 DEF HoldsLink, HoldsLinkNext, Seen
  <2> QED
    BY <2>1, <2>2
<1>9. ASSUME NEW k \in Handlers, NEW i \in Handlers \ {k}
      PROVE  Alone(op'[k], op'[i])
  <2>1. /\ op'[k] = Idle \/ (op'[k].o = op[k].o /\ op'[k].kind = op[k].kind)
        /\ op'[i] = Idle \/ (op'[i].o = op[i].o /\ op'[i].kind = op[i].kind)
    BY <1>1, <1>2
  <2>2. Alone(op[k], op[i])
    BY DEF OneLinkEach
  <2> QED
    BY <2>1, <2>2 DEF Alone, Idle, Serving
<1>10. ASSUME NEW k \in Handlers, Linking(op'[k])
       PROVE  row'[op'[k].o].link = NoLink
  <2>1. CASE k # h
    <3>1. op'[k] = op[k] /\ op[k].o \in Orders /\ row[op[k].o].link = NoLink
      BY <1>1, <1>4, <1>10, <2>1 DEF OneLinkEach, Linking, Serving
    <3>2. ~(op[k].o = o /\ op[h].kind \in Serving)
      BY <1>10, <2>1, <3>1 DEF OneLinkEach, Alone, Linking
    <3> QED
      BY <3>1, <3>2, LinkChange
  <2>2. CASE k = h
    <3>1. op'[h].o = o /\ op[h].kind = "create"
      BY <1>2, <1>10, <2>2 DEF Idle, Linking
    <3>2. op[h].pc = "link"
      BY <1>10, <2>2, StepOnward
         DEF Onward, Linking, OneLinkEach, ApproveWrite, At
    <3>3. row[o].link = NoLink /\ o \in Orders
      BY <1>4, <3>1, <3>2 DEF OneLinkEach, Linking, Serving
    <3>4. row'[o].link = row[o].link
      BY <3>2, <3>3, LinkChange
    <3> QED
      BY <2>2, <3>1, <3>3, <3>4
  <2> QED
    BY <2>1, <2>2
<1> QED
  BY <1>5, <1>6, <1>7, <1>8, <1>9, <1>10
     DEF OneLinkEach, HoldsLink, HoldsLinkNext

LEMMA OneLinkArrive ==
    ASSUME {"amend", "approve"} \cap Requests = {}, TypeOK, OneLinkEach,
           NEW h \in Handlers, Arrive(h)
    PROVE  OneLinkEach'
<1>0. \A o \in Orders : ~AmendRead(h, o) /\ ~ApproveRead(h, o)
  BY DEF AmendRead, ApproveRead, Request
<1>1. \A k \in Handlers \ {h} : op'[k] = op[k]
  BY ArriveKinds
<1>2. offered' = offered
  BY DEF Arrive, ResetRead, CreateTx, ApproveRead, AmendRead, RetryRead,
     StatusRead, FulfilRead, WebhookLookup, history
<1>3. ASSUME NEW p \in Orders
      PROVE  /\ row'[p].link = row[p].link
             /\ row[p].status # "ABSENT" => row'[p].status # "ABSENT"
             /\ row'[p].status = "ABSENT" => row[p].status = "ABSENT"
  <2>1. ASSUME NEW o \in Orders, NEW items \in Items, NEW method \in Methods,
               row[o].status = "ABSENT", SetRow(o, NewRow(method, items))
        PROVE  /\ row'[p].link = row[p].link
               /\ row[p].status # "ABSENT" => row'[p].status # "ABSENT"
               /\ row'[p].status = "ABSENT" => row[p].status = "ABSENT"
    <3>1. NewRow(method, items).link = NoLink
      BY DEF NewRow, NoRow
    <3>2. row[o].link = NoLink
      BY <2>1 DEF OneLinkEach
    <3> QED
      BY <2>1, <3>1, <3>2, SetRowEffect
  <2> QED
    BY <2>1, ArriveRows
<1>4. ASSUME NEW k \in Handlers, op[k].kind \in Serving
      PROVE  /\ op[k].o \in Orders /\ row[op[k].o].status # "ABSENT"
             /\ HoldsLinkNext(op[k])
  <2>1. op[k].o \in Orders
    BY <1>4 DEF Serving, TypeOK, HandlersTyped, WellFormed, Idle
  <2> QED
    BY <1>3, <1>4, <2>1 DEF OneLinkEach, HoldsLink, HoldsLinkNext
<1>5. /\ op'[h].pc \notin {"amend", "approve", "clear"}
      /\ op'[h].pc \in Onward => op'[h].kind \in Serving
  BY <1>0, ArriveKinds DEF Starts, Onward, Serving
<1>6. ASSUME op'[h].kind \in Serving
      PROVE  /\ op'[h].o \in Orders
             /\ HoldsLinkNext(op'[h])
             /\ \/ op'[h].kind = "create" /\ row[op'[h].o].status = "ABSENT"
                \/ op'[h].kind = "retry" /\ Placed(op'[h].o)
  <2>1. ASSUME NEW o \in Orders, CreateTx(h, o), op'[h].o = o,
               op'[h].seen[o] = row'[o]
        PROVE  HoldsLinkNext(op'[h]) /\ row[o].status = "ABSENT"
    <3>1. PICK items \in Items, method \in Methods :
            SetRow(o, NewRow(method, items))
      BY <2>1 DEF CreateTx
    <3>2. NewRow(method, items).status # "ABSENT"
      BY DEF NewRow, NoRow, InitialStatus
    <3>3. row'[o].status # "ABSENT"
      BY <3>1, <3>2, SetRowEffect
    <3> QED
      BY <2>1, <3>3 DEF HoldsLinkNext, CreateTx
  <2>2. ASSUME NEW o \in Orders, RetryRead(h, o), op'[h].o = o,
               op'[h].seen[o] = row[o]
        PROVE  HoldsLinkNext(op'[h]) /\ Placed(o)
    <3>1. row' = row
      BY <2>2 DEF RetryRead
    <3> QED
      BY <2>2, <3>1 DEF HoldsLinkNext, RetryRead
  <2> QED
    BY <1>6, <2>1, <2>2, ArriveKinds DEF Starts, Serving
<1>7. ASSUME NEW k \in Handlers, NEW i \in Handlers \ {k}
      PROVE  Alone(op'[k], op'[i])
  <2>1. CASE k # h /\ i # h
    BY <1>1, <2>1 DEF OneLinkEach
  <2>2. CASE k = h
    <3>1. ASSUME op'[h].kind = "create", op[i].kind \in Serving
          PROVE  op[i].o # op'[h].o
      BY <1>4, <1>6, <3>1 DEF Serving
    <3> QED
      BY <1>1, <2>2, <3>1 DEF Alone
  <2>3. CASE i = h
    <3>1. ASSUME op[k].kind = "create", op'[h].kind \in Serving
          PROVE  op[k].o # op'[h].o
      BY <1>4, <1>6, <3>1 DEF Serving, Placed
    <3> QED
      BY <1>1, <2>3, <3>1 DEF Alone
  <2> QED
    BY <2>1, <2>2, <2>3
<1>8. ASSUME NEW k \in Handlers, Linking(op'[k])
      PROVE  row'[op'[k].o].link = NoLink
  <2>1. CASE k # h
    <3>1. op'[k] = op[k] /\ op[k].kind \in Serving
      BY <1>1, <1>8, <2>1 DEF Linking, Serving
    <3>2. op[k].o \in Orders /\ row[op[k].o].link = NoLink
      BY <1>4, <1>8, <3>1 DEF OneLinkEach, Linking
    <3> QED
      BY <1>3, <3>1, <3>2
  <2>2. CASE k = h
    <3>1. op'[h].o \in Orders /\ row[op'[h].o].status = "ABSENT"
      BY <1>6, <1>8, <2>2 DEF Linking, Serving
    <3>2. row[op'[h].o].link = NoLink
      BY <3>1 DEF OneLinkEach
    <3> QED
      BY <1>3, <2>2, <3>1, <3>2
  <2> QED
    BY <2>1, <2>2
<1>9. ASSUME NEW k \in Handlers
      PROVE  /\ op'[k].pc \notin {"amend", "approve", "clear"}
             /\ op'[k].pc \in Onward => op'[k].kind \in Serving
             /\ op'[k].kind \in Serving => HoldsLinkNext(op'[k])
  <2>1. CASE k # h
    BY <1>1, <1>4, <2>1 DEF OneLinkEach
  <2> QED
    BY <1>5, <1>6, <2>1
<1>10. \A o \in Orders :
         /\ \A s \in offered'[o] : s.link = row'[o].link
         /\ row'[o].status = "ABSENT" => row'[o].link = NoLink
  BY <1>2, <1>3 DEF OneLinkEach
<1> QED
  BY <1>7, <1>8, <1>9, <1>10 DEF OneLinkEach, HoldsLink, HoldsLinkNext

\* a slot that serves no customer's request for an order
Elsewhere(r) ==
    /\ r.pc \notin Onward \cup {"amend", "approve"}
    /\ r.kind \notin Serving

LEMMA OneLinkSlot ==
    ASSUME OneLinkEach, NEW h \in Handlers, UNCHANGED <<row, offered>>,
           \A k \in Handlers \ {h} : op'[k] = op[k], Elsewhere(op'[h])
    PROVE  OneLinkEach'
BY DEF OneLinkEach, Elsewhere, HoldsLink, Alone, Linking, Onward, Serving

(* A customer whose order is neither amended nor approved is sent one link, *)
(* however many times "Try again" is tapped, whatever dies half way and      *)
(* whoever else changes the order (the updateMany of retryPaymentLink).      *)
THEOREM OneLinkPerOrder ==
    ASSUME {"amend", "approve"} \cap Requests = {}
    PROVE  Spec => []OneLinkOffered
<1>1. Init => OneLinkEach
  BY DEF Init, NoTable, NoRow, Idle, OneLinkEach, HoldsLink, Alone, Linking,
     Onward, Serving
<1>2. TypeOK /\ OneLinkEach /\ [Next]_vars => OneLinkEach'
  <2> SUFFICES ASSUME TypeOK, OneLinkEach, [Next]_vars
               PROVE  OneLinkEach'
    OBVIOUS
  <2>1. ASSUME NEW h \in Handlers, Arrive(h) \/ Step(h)
        PROVE  OneLinkEach'
    BY <2>1, OneLinkArrive, OneLinkStep
  <2>2. ASSUME NEW h \in Handlers, Crash(h)
        PROVE  OneLinkEach'
    <3>1. UNCHANGED <<row, offered>> /\ Done(h)
      BY <2>2 DEF Crash, history
    <3> QED
      BY <3>1, DoneEffect, OneLinkSlot DEF Elsewhere, Idle, Onward, Serving
  <2>3. ASSUME NEW h \in Handlers, NEW j \in Job, JobRead(h, j)
        PROVE  OneLinkEach'
    <3>1. op' = [op EXCEPT ![h] = JobHandler(j)] /\ UNCHANGED <<row, offered>>
      BY <2>3 DEF JobRead, Begin, JobHandler, history
    <3>2. JobHandler(j).kind = j.kind /\ JobHandler(j).pc = j.kind
      BY HandlerFields DEF JobHandler
    <3>3. j.kind \in {"pay", "stage", "expire"}
      BY DEF Job
    <3>4. op'[h] = JobHandler(j) /\ \A k \in Handlers \ {h} : op'[k] = op[k]
      BY <3>1, SlotEffect
    <3>5. Elsewhere(op'[h])
      BY <3>2, <3>3, <3>4 DEF Elsewhere, Onward, Serving
    <3> QED
      BY <3>1, <3>4, <3>5, OneLinkSlot
  <2>4. CASE \/ \E h \in Handlers, j \in Job : JobSkips(h, j)
             \/ \E l \in Links : CustomerPays(l)
             \/ UNCHANGED vars
    <3>1. UNCHANGED <<row, offered, op>>
      BY <2>4 DEF JobSkips, CustomerPays, vars, history
    <3> QED
      BY <3>1 DEF OneLinkEach, HoldsLink, Alone, Linking
  <2> QED
    BY <2>1, <2>2, <2>3, <2>4 DEF Next, RunJob
<1>3. OneLinkEach => OneLinkOffered
  BY DEF OneLinkEach, OneLinkOffered
<1> QED
  BY <1>1, <1>2, <1>3, TypeCorrect, PTL DEF Spec
=============================================================================
