-------------------------- MODULE OrderSafetyProofs --------------------------
(***************************************************************************)
(* The safety of OrderLifecycle: stock is never oversold, nothing ships    *)
(* unpaid, an order is confirmed once each time it becomes payable, a      *)
(* terminal order stays and the stock books balance unless a handler wrote *)
(* what it had read of an order that changed meanwhile.  Each part of the  *)
(* inductive invariant is shown to be kept by every step.                  *)
(***************************************************************************)
EXTENDS OrderLifecycleProofs

-----------------------------------------------------------------------------
(* What a step does to the handler slots and to the rows.                   *)

LEMMA SlotEffect ==
    ASSUME TypeOK, NEW h \in Handlers, NEW r, op' = [op EXCEPT ![h] = r]
    PROVE  op'[h] = r /\ \A k \in Handlers \ {h} : op'[k] = op[k]
BY DEF TypeOK, HandlersTyped

LEMMA DoneEffect ==
    ASSUME TypeOK, NEW h \in Handlers, Done(h)
    PROVE  op'[h] = Idle /\ \A k \in Handlers \ {h} : op'[k] = op[k]
BY SlotEffect DEF Done

LEMMA GotoEffect ==
    ASSUME TypeOK, NEW h \in Handlers, NEW pc, Goto(h, pc)
    PROVE  /\ op'[h].pc = pc /\ op'[h].o = op[h].o /\ op'[h].kind = op[h].kind
           /\ \A k \in Handlers \ {h} : op'[k] = op[k]
<1>1. op[h] \in Op
  BY DEF TypeOK, HandlersTyped
<1> DEFINE r == [op[h] EXCEPT !.pc = pc]
<1>2. r.pc = pc /\ r.o = op[h].o /\ r.kind = op[h].kind
  BY <1>1 DEF Op
<1>3. op' = [op EXCEPT ![h] = r]
  BY DEF Goto
<1> HIDE DEF r
<1> QED
  BY <1>2, <1>3, SlotEffect

LEMMA ContinueEffect ==
    ASSUME TypeOK, NEW h \in Handlers, NEW pc, NEW r, Continue(h, pc, r)
    PROVE  /\ op'[h].pc = pc /\ op'[h].o = op[h].o /\ op'[h].kind = op[h].kind
           /\ \A k \in Handlers \ {h} : op'[k] = op[k]
<1>1. op[h] \in Op
  BY DEF TypeOK, HandlersTyped
<1> DEFINE s == [op[h] EXCEPT !.pc = pc, !.seen = Holding(op[h].o, r),
                              !.link = NoLink, !.want = NoItems]
<1>2. s.pc = pc /\ s.o = op[h].o /\ s.kind = op[h].kind
  BY <1>1 DEF Op
<1>3. op' = [op EXCEPT ![h] = s]
  BY DEF Continue
<1> HIDE DEF s
<1> QED
  BY <1>2, <1>3, SlotEffect

LEMMA ThenScheduleEffect ==
    ASSUME TypeOK, NEW h \in Handlers, NEW s, ThenSchedule(h, s)
    PROVE  /\ op'[h].pc = "schedule" /\ op'[h].o = op[h].o
           /\ op'[h].kind = op[h].kind
           /\ \A k \in Handlers \ {h} : op'[k] = op[k]
<1> DEFINE base == Handler("schedule", op[h].kind, op[h].o, NoTable)
           r == [base EXCEPT !.target = s]
<1>1. r.pc = "schedule" /\ r.o = op[h].o /\ r.kind = op[h].kind
  BY DEF Handler, Idle
<1>2. op' = [op EXCEPT ![h] = r]
  BY DEF ThenSchedule
<1> HIDE DEF r
<1> QED
  BY <1>1, <1>2, SlotEffect

(* A running handler goes on with its order, or ends; no other is touched,  *)
(* and the step it goes on to does not write from what was read before.     *)
Onward == {"link", "clear", "progress", "expiry", "reply", "reread", "attach"}

LEMMA StepSlots ==
    ASSUME TypeOK, NEW h \in Handlers, Step(h)
    PROVE  /\ \A k \in Handlers \ {h} : op'[k] = op[k]
           /\ \/ op'[h] = Idle
              \/ /\ op'[h].o = op[h].o
                 /\ op'[h].kind = op[h].kind
                 /\ \/ op'[h].pc \in Onward
                    \/ op'[h].pc = "confirm" /\ WebhookRead(h)
                    \/ /\ op'[h].pc = "schedule"
                       /\ WebhookConfirm(h) \/ PayWrite(h) \/ StageWrite(h)
<1>0. op[h] \in Op
  BY DEF TypeOK, HandlersTyped
<1>1. CASE ApproveWrite(h)
  <2>1. PICK r : Continue(h, AfterApproval(r), r)
    BY <1>1 DEF ApproveWrite
  <2>2. AfterApproval(r) \in Onward
    BY DEF AfterApproval, Onward
  <2> QED
    BY <2>1, <2>2, ContinueEffect
<1>2. CASE AmendWrite(h)
  <2>1. PICK r : Continue(h, AfterAmendment(r), r)
    BY <1>2 DEF AmendWrite
  <2>2. AfterAmendment(r) \in Onward
    BY DEF AfterAmendment, Onward
  <2> QED
    BY <2>1, <2>2, ContinueEffect
<1>3. CASE \/ AmendRefused(h) \/ Reply(h) \/ StatusWrite(h) \/ FulfilWrite(h)
           \/ ResetWrite(h) \/ ScheduleStage(h) \/ ExpireWrite(h) \/ RowGone(h)
  <2>1. Done(h)
    BY <1>3 DEF AmendRefused, Reply, StatusWrite, FulfilWrite, ResetWrite,
                ScheduleStage, ExpireWrite, RowGone
  <2> QED
    BY <2>1, DoneEffect
<1>4. CASE AttachLink(h) \/ ClearLink(h)
  <2>1. \E pc \in {"reply", "expiry"} : \E r : Continue(h, pc, r)
    BY <1>4 DEF AttachLink, ClearLink
  <2> QED
    BY <2>1, ContinueEffect DEF Onward
<1>5. CASE RetryAttach(h) \/ RetryReread(h)
  <2>1. \/ \E r : Continue(h, "reply", r)
        \/ Goto(h, "reread")
        \/ Done(h)
    BY <1>5 DEF RetryAttach, RetryReread
  <2> QED
    BY <2>1, ContinueEffect, GotoEffect, DoneEffect DEF Onward
<1>6. CASE ScheduleProgress(h) \/ ScheduleExpiry(h) \/ LinkNotConfigured(h)
  <2>1. Done(h) \/ \E pc \in {"expiry", "reply", "progress"} : Goto(h, pc)
    BY <1>6 DEF ScheduleProgress, ScheduleExpiry, LinkNotConfigured
  <2> QED
    BY <2>1, GotoEffect, DoneEffect DEF Onward
<1>7. CASE WebhookRead(h)
  <2> DEFINE r == [op[h] EXCEPT !.pc = "confirm", !.seen = Snapshot(op[h].o)]
  <2>1. op' = [op EXCEPT ![h] = r] \/ Done(h)
    BY <1>7 DEF WebhookRead
  <2>2. r.pc = "confirm" /\ r.o = op[h].o /\ r.kind = op[h].kind
    BY <1>0 DEF Op
  <2> HIDE DEF r
  <2> QED
    BY <1>7, <2>1, <2>2, SlotEffect, DoneEffect
<1>8. CASE WebhookConfirm(h) \/ PayWrite(h) \/ StageWrite(h)
  <2>1. Done(h) \/ \E s : ThenSchedule(h, s)
    BY <1>8 DEF WebhookConfirm, PayWrite, StageWrite
  <2> QED
    BY <1>8, <2>1, ThenScheduleEffect, DoneEffect
<1>9. CASE LinkRefused(h)
  <2> DEFINE pc == IF op[h].kind = "amend" THEN "clear" ELSE "expiry"
             r == [op[h] EXCEPT !.failed = TRUE, !.pc = pc]
  <2>1. op' = [op EXCEPT ![h] = r] \/ Done(h)
    BY <1>9 DEF LinkRefused
  <2>2. pc \in Onward
    BY DEF Onward
  <2> HIDE DEF pc
  <2>3. r.pc = pc /\ r.o = op[h].o /\ r.kind = op[h].kind
    BY <1>0 DEF Op
  <2> HIDE DEF r
  <2> QED
    BY <2>1, <2>2, <2>3, SlotEffect, DoneEffect
<1>10. ASSUME NEW l \in Links, LinkCreated(h, l)
       PROVE  \/ op'[h].pc \in Onward /\ op'[h].o = op[h].o
                 /\ op'[h].kind = op[h].kind
                 /\ \A k \in Handlers \ {h} : op'[k] = op[k]
  <2> DEFINE r == [op[h] EXCEPT !.pc = "attach", !.link = l]
  <2>1. op' = [op EXCEPT ![h] = r]
    BY <1>10 DEF LinkCreated
  <2>2. r.pc = "attach" /\ r.o = op[h].o /\ r.kind = op[h].kind
    BY <1>0 DEF Op
  <2> HIDE DEF r
  <2> QED
    BY <2>1, <2>2, SlotEffect DEF Onward
<1> QED
  BY <1>1, <1>2, <1>3, <1>4, <1>5, <1>6, <1>7, <1>8, <1>9, <1>10 DEF Step

LEMMA ArriveSlots ==
    ASSUME NEW h \in Handlers, Arrive(h)
    PROVE  \E r : Begin(h, r)
BY DEF Arrive, ResetRead, CreateTx, ApproveRead, AmendRead, RetryRead,
       StatusRead, FulfilRead, WebhookLookup

(* The order of a running handler, and the row it holds. *)
LEMMA RunningType ==
    ASSUME TypeOK, NEW h \in Handlers, op[h].pc \notin {"idle", "reset"}
    PROVE  /\ op[h].o \in Orders /\ row[op[h].o] \in Row
           /\ Seen(h) \in Row /\ op[h].want \in Items
BY DEF TypeOK, HandlersTyped, WellFormed, Seen, Op

LEMMA HandlerFields ==
    ASSUME NEW pc, NEW kind, NEW o, NEW seen, NEW r,
           \/ r = Handler(pc, kind, o, seen)
           \/ \E x : r = [Handler(pc, kind, o, seen) EXCEPT !.target = x]
           \/ \E x : r = [Handler(pc, kind, o, seen) EXCEPT !.want = x]
           \/ \E x : r = [Handler(pc, kind, o, seen) EXCEPT !.link = x]
    PROVE  r.pc = pc /\ r.kind = kind /\ r.o = o /\ r.seen = seen
BY DEF Handler, Idle

LEMMA SetRowEffect ==
    ASSUME TypeOK, NEW o \in Orders, NEW r, SetRow(o, r)
    PROVE  /\ row'[o] = r
           /\ \A p \in Orders \ {o} : row'[p] = row[p] /\ opened'[p] = opened[p]
           /\ opened'[o] = IF r.status = "PENDING_PAYMENT" /\ row[o].status # r.status
                           THEN opened[o] + 1 ELSE opened[o]
           /\ everPaid \subseteq everPaid'
           /\ r.status \in {"PAID", "FULFILLED"} => o \in everPaid'
BY DEF SetRow, TypeOK

(* Apart from the reset, a step writes at most the row of its own order,    *)
(* and moves its shipment only in FulfilWrite and StageWrite.               *)
LEMMA StepRows ==
    ASSUME TypeOK, NEW h \in Handlers, Step(h), ~ResetWrite(h)
    PROVE  \/ UNCHANGED <<row, opened, everPaid>>
           \/ /\ op[h].o \in Orders
              /\ \E r : /\ SetRow(op[h].o, r)
                        /\ \/ r.fulfil = row[op[h].o].fulfil
                           \/ FulfilWrite(h)
                           \/ StageWrite(h)
<1> DEFINE o == op[h].o
<1>1. CASE ApproveWrite(h)
  <2> DEFINE r == [row[o] EXCEPT !.status = "PENDING_PAYMENT"]
  <2>1. SetRow(o, r) /\ o \in Orders /\ row[o] \in Row
    BY <1>1, RunningType DEF ApproveWrite, At
  <2>2. r.fulfil = row[o].fulfil
    BY <2>1 DEF Row
  <2> QED
    BY <2>1, <2>2
<1>2. CASE AmendWrite(h)
  <2> DEFINE r == [row[o] EXCEPT !.items = op[h].want,
                     !.status = AmendedStatus(Seen(h), op[h].want)]
  <2>1. SetRow(o, r) /\ o \in Orders /\ row[o] \in Row
    BY <1>2, RunningType DEF AmendWrite, At
  <2>2. r.fulfil = row[o].fulfil
    BY <2>1 DEF Row
  <2> QED
    BY <2>1, <2>2
<1>3. CASE AttachLink(h) \/ RetryAttach(h)
  <2> DEFINE r == [row[o] EXCEPT !.link = op[h].link]
  <2>1. /\ o \in Orders /\ row[o] \in Row
        /\ SetRow(o, r) \/ UNCHANGED <<row, opened, everPaid>>
    BY <1>3, RunningType DEF AttachLink, RetryAttach, At
  <2>2. r.fulfil = row[o].fulfil
    BY <2>1 DEF Row
  <2> QED
    BY <2>1, <2>2
<1>4. CASE ClearLink(h)
  <2> DEFINE r == [row[o] EXCEPT !.link = NoLink]
  <2>1. SetRow(o, r) /\ o \in Orders /\ row[o] \in Row
    BY <1>4, RunningType DEF ClearLink, At
  <2>2. r.fulfil = row[o].fulfil
    BY <2>1 DEF Row
  <2> QED
    BY <2>1, <2>2
<1>5. CASE StatusWrite(h)
  <2> DEFINE r == [row[o] EXCEPT !.status = op[h].target]
  <2>1. SetRow(o, r) /\ o \in Orders /\ row[o] \in Row
    BY <1>5, RunningType DEF StatusWrite, At
  <2>2. r.fulfil = row[o].fulfil
    BY <2>1 DEF Row
  <2> QED
    BY <2>1, <2>2
<1>6. CASE FulfilWrite(h) \/ StageWrite(h)
  BY <1>6, RunningType DEF FulfilWrite, StageWrite, At
<1>7. CASE WebhookConfirm(h)
  <2> DEFINE r == [row[o] EXCEPT !.status = "PAID", !.payment = op[h].link]
  <2>1. /\ o \in Orders /\ row[o] \in Row
        /\ SetRow(o, r) \/ UNCHANGED <<row, opened, everPaid>>
    BY <1>7, RunningType DEF WebhookConfirm, At
  <2>2. r.fulfil = row[o].fulfil
    BY <2>1 DEF Row
  <2> QED
    BY <2>1, <2>2
<1>8. CASE PayWrite(h)
  <2> DEFINE r == [row[o] EXCEPT !.status = "PAID"]
  <2>1. SetRow(o, r) /\ o \in Orders /\ row[o] \in Row
    BY <1>8, RunningType DEF PayWrite, At
  <2>2. r.fulfil = row[o].fulfil
    BY <2>1 DEF Row
  <2> QED
    BY <2>1, <2>2
<1>9. CASE ExpireWrite(h)
  <2> DEFINE r == [row[o] EXCEPT !.status = "CANCELLED"]
  <2>1. SetRow(o, r) /\ o \in Orders /\ row[o] \in Row
    BY <1>9, RunningType DEF ExpireWrite, At
  <2>2. r.fulfil = row[o].fulfil
    BY <2>1 DEF Row
  <2> QED
    BY <2>1, <2>2
<1>10. CASE \/ AmendRefused(h) \/ RetryReread(h) \/ ScheduleProgress(h)
            \/ ScheduleExpiry(h) \/ Reply(h) \/ WebhookRead(h)
            \/ ScheduleStage(h) \/ RowGone(h) \/ LinkRefused(h)
            \/ LinkNotConfigured(h) \/ \E l \in Links : LinkCreated(h, l)
  BY <1>10 DEF AmendRefused, RetryReread, ScheduleProgress, ScheduleExpiry,
               Reply, WebhookRead, ScheduleStage, RowGone, LinkRefused,
               LinkNotConfigured, LinkCreated, history
<1> QED
  BY <1>1, <1>2, <1>3, <1>4, <1>5, <1>6, <1>7, <1>8, <1>9, <1>10 DEF Step

(* The slot of a request that has just arrived.                             *)
LEMMA ArriveFields ==
    ASSUME TypeOK, NEW h \in Handlers
    PROVE  /\ \A o \in Orders : FulfilRead(h, o) => op'[h].o = o
           /\ Arrive(h) /\ (~ \E o \in Orders : FulfilRead(h, o)) =>
                /\ op'[h].kind \in Kinds
                /\ op'[h].pc \in FreeSteps \cup {"reset", "status", "read_paid"}
<1>1. ASSUME NEW pc, NEW kind, NEW o, NEW seen, NEW r, Begin(h, r),
             \/ r = Handler(pc, kind, o, seen)
             \/ \E x : r = [Handler(pc, kind, o, seen) EXCEPT !.target = x]
             \/ \E x : r = [Handler(pc, kind, o, seen) EXCEPT !.want = x]
             \/ \E x : r = [Handler(pc, kind, o, seen) EXCEPT !.link = x]
      PROVE  op'[h].pc = pc /\ op'[h].kind = kind /\ op'[h].o = o
  <2>1. op'[h] = r
    BY <1>1, SlotEffect DEF Begin
  <2>2. r.pc = pc /\ r.kind = kind /\ r.o = o
    BY <1>1 DEF Handler, Idle
  <2> QED
    BY <2>1, <2>2
<1> DEFINE Started(pcs, kind) == op'[h].pc \in pcs /\ op'[h].kind = kind
<1>2. ASSUME NEW o \in Orders, FulfilRead(h, o)
      PROVE  op'[h].o = o
  BY <1>1, <1>2 DEF FulfilRead
<1>3. ASSUME ResetRead(h) PROVE Started({"reset"}, "reset")
  BY <1>1, <1>3 DEF ResetRead
<1>4. ASSUME NEW o \in Orders, CreateTx(h, o)
      PROVE  Started({"link", "progress", "expiry"}, "create")
  <2>1. PICK r : Begin(h, Handler(AfterInsert(r), "create", o, Holding(o, r)))
    BY <1>4 DEF CreateTx
  <2>2. AfterInsert(r) \in {"link", "progress", "expiry"}
    BY DEF AfterInsert
  <2> QED
    BY <1>1, <2>1, <2>2
<1>5. ASSUME NEW o \in Orders, ApproveRead(h, o)
      PROVE  Started({"approve"}, "approve")
  BY <1>1, <1>5 DEF ApproveRead
<1>6. ASSUME NEW o \in Orders, AmendRead(h, o)
      PROVE  Started({"amend"}, "amend")
  BY <1>1, <1>6 DEF AmendRead
<1>7. ASSUME NEW o \in Orders, RetryRead(h, o)
      PROVE  Started({"link", "reply"}, "retry")
  <2>1. PICK pc \in {"link", "reply"} :
          Begin(h, Handler(pc, "retry", o, Snapshot(o)))
    BY <1>7 DEF RetryRead
  <2> QED
    BY <1>1, <2>1
<1>8. ASSUME NEW o \in Orders, StatusRead(h, o)
      PROVE  Started({"status"}, "status")
  BY <1>1, <1>8 DEF StatusRead
<1>9. ASSUME NEW o \in Orders, NEW l \in Links, WebhookLookup(h, o, l)
      PROVE  Started({"read_paid"}, "webhook")
  BY <1>1, <1>9 DEF WebhookLookup
<1> QED
  BY <1>2, <1>3, <1>4, <1>5, <1>6, <1>7, <1>8, <1>9 DEF Arrive, FreeSteps, Kinds

(* A request other than create only reads; create inserts a row.            *)
LEMMA ArriveRows ==
    ASSUME TypeOK, NEW h \in Handlers, Arrive(h)
    PROVE  /\ \/ UNCHANGED <<row, opened, everPaid>>
              \/ \E o \in Orders, items \in Items, method \in Methods :
                   /\ row[o].status = "ABSENT"
                   /\ SetRow(o, NewRow(method, items))
           /\ UNCHANGED <<razorpay, queue, confirmed>>
BY DEF Arrive, ResetRead, CreateTx, ApproveRead, AmendRead, RetryRead,
       StatusRead, FulfilRead, WebhookLookup, history

-----------------------------------------------------------------------------
(* Stock: an amendment gives back before it takes, and everything that      *)
(* takes checks, in the same step, that the counter does not go below zero. *)

LEMMA ReleaseNonNegative ==
    ASSUME NEW inv \in [Variants -> Int], \A v \in Variants : inv[v] >= 0,
           NEW items \in Items
    PROVE  /\ Release(inv, items) \in [Variants -> Int]
           /\ \A v \in Variants : Release(inv, items)[v] >= 0
BY ConstantsOK DEF Release, Items

LEMMA ReserveNonNegative ==
    ASSUME NEW inv \in [Variants -> Int], NEW items \in Items,
           CanReserve(inv, items)
    PROVE  \A v \in Variants : Reserve(inv, items)[v] >= 0
BY ConstantsOK DEF CanReserve, Reserve, Items

LEMMA OversoldStep ==
    ASSUME TypeOK, NeverOversold, NEW h \in Handlers, Step(h)
    PROVE  NeverOversold'
<1>0. inventory \in [Variants -> Int]
  BY DEF TypeOK
<1>1. CASE AmendWrite(h)
  <2> DEFINE released == Release(inventory, Seen(h).items)
  <2>1. Seen(h).items \in Items /\ op[h].want \in Items
    BY <1>1, RunningType DEF AmendWrite, At, Row
  <2>2. released \in [Variants -> Int]
    BY <1>0, <2>1, ReleaseNonNegative DEF NeverOversold
  <2>3. CanReserve(released, op[h].want)
        /\ inventory' = Reserve(released, op[h].want)
    BY <1>1 DEF AmendWrite
  <2> HIDE DEF released
  <2> QED
    BY <2>1, <2>2, <2>3, ReserveNonNegative DEF NeverOversold
<1>2. CASE StatusWrite(h) \/ ExpireWrite(h)
  <2>1. Seen(h).items \in Items
    BY <1>2, RunningType DEF StatusWrite, ExpireWrite, At, Row
  <2>2. inventory' = inventory \/ inventory' = Release(inventory, Seen(h).items)
    BY <1>2 DEF StatusWrite, ExpireWrite
  <2> QED
    BY <1>0, <2>1, <2>2, ReleaseNonNegative DEF NeverOversold
<1>3. CASE ResetWrite(h)
  <2>1. \A v \in Variants : Cardinality(Units(op[h].seen, v)) \in Nat
    BY UnitsFinite
  <2>2. inventory' = [v \in Variants |->
                        inventory[v] + Cardinality(Units(op[h].seen, v))]
    BY <1>3 DEF ResetWrite
  <2> QED
    BY <1>0, <2>1, <2>2 DEF NeverOversold
<1>4. CASE ~(AmendWrite(h) \/ StatusWrite(h) \/ ExpireWrite(h) \/ ResetWrite(h))
  <2>1. inventory' = inventory
    BY <1>4 DEF Step, ApproveWrite, AmendRefused, AttachLink, RetryAttach,
         RetryReread, ClearLink, ScheduleProgress, ScheduleExpiry, Reply,
         FulfilWrite, WebhookRead, WebhookConfirm, ScheduleStage, PayWrite,
         StageWrite, RowGone, LinkRefused, LinkNotConfigured, LinkCreated
  <2> QED
    BY <2>1 DEF NeverOversold
<1> QED
  BY <1>1, <1>2, <1>3, <1>4

(* Two customers can never be sold the same last unit, for any number of    *)
(* orders, variants and handlers: no interleaving of create, replaceItems,  *)
(* updateStatus, expiry, the reset and crashes takes a counter below zero.  *)
THEOREM NoOversale == Spec => []NeverOversold
<1>1. Init => NeverOversold
  BY SupplyOK DEF Init, NeverOversold
<1>2. TypeOK /\ NeverOversold /\ [Next]_vars => NeverOversold'
  <2> SUFFICES ASSUME TypeOK, NeverOversold, [Next]_vars
               PROVE  NeverOversold'
    OBVIOUS
  <2>1. ASSUME NEW h \in Handlers, Arrive(h)
        PROVE  NeverOversold'
    <3>1. CASE inventory' = inventory
      BY <3>1 DEF NeverOversold
    <3>2. ASSUME NEW o \in Orders, CreateTx(h, o)
          PROVE  NeverOversold'
      <4>1. PICK items \in Items : /\ CanReserve(inventory, items)
                                   /\ inventory' = Reserve(inventory, items)
        BY <3>2 DEF CreateTx
      <4> QED
        BY <4>1, ReserveNonNegative DEF TypeOK, NeverOversold
    <3> QED
      BY <2>1, <3>1, <3>2 DEF Arrive, ResetRead, ApproveRead, AmendRead,
           RetryRead, StatusRead, FulfilRead, WebhookLookup
  <2>2. ASSUME NEW h \in Handlers, Step(h)
        PROVE  NeverOversold'
    BY <2>2, OversoldStep
  <2>3. CASE \/ \E h \in Handlers : Crash(h)
             \/ \E h \in Handlers, j \in Job : RunJob(h, j)
             \/ \E l \in Links : CustomerPays(l)
             \/ UNCHANGED vars
    BY <2>3 DEF Crash, RunJob, JobRead, JobSkips, CustomerPays, vars,
                NeverOversold
  <2> QED
    BY <2>1, <2>2, <2>3 DEF Next
<1> QED
  BY <1>1, <1>2, TypeCorrect, PTL DEF Spec

-----------------------------------------------------------------------------
(* Confirmation: an order that is payable has one confirmation in hand.     *)

ConfirmInv == ConfirmedOncePerOpening /\ OpenOrdersUnconfirmed

LEMMA ConfirmSetRow ==
    ASSUME TypeOK, ConfirmInv, NEW o \in Orders, NEW r, SetRow(o, r),
           UNCHANGED confirmed
    PROVE  ConfirmInv'
<1>1. \A p \in Orders : confirmed[p] \in Nat /\ opened[p] \in Nat
  BY DEF TypeOK
<1> QED
  BY <1>1, SetRowEffect
     DEF ConfirmInv, ConfirmedOncePerOpening, OpenOrdersUnconfirmed

LEMMA ConfirmStep ==
    ASSUME TypeOK, ConfirmInv, NEW h \in Handlers, Step(h)
    PROVE  ConfirmInv'
<1>1. CASE WebhookConfirm(h)
  <2>1. CASE ConfirmWhere(row[op[h].o], Seen(h))
    <3> DEFINE o == op[h].o
               r == [row[o] EXCEPT !.status = "PAID", !.payment = op[h].link]
    <3>1. /\ o \in Orders /\ row[o] \in Row
          /\ row[o].status = "PENDING_PAYMENT"
          /\ SetRow(o, r)
          /\ confirmed' = [confirmed EXCEPT ![o] = @ + 1]
      BY <1>1, <2>1, RunningType DEF WebhookConfirm, At, ConfirmWhere
    <3>2. r.status = "PAID"
      BY <3>1 DEF Row
    <3> HIDE DEF o, r
    <3>3. \A p \in Orders : confirmed[p] \in Nat /\ opened[p] \in Nat
      BY DEF TypeOK
    <3>4. \A p \in Orders \ {o} : /\ row'[p] = row[p]
                                  /\ opened'[p] = opened[p]
                                  /\ confirmed'[p] = confirmed[p]
      BY <3>1, SetRowEffect DEF TypeOK
    <3>5. /\ row'[o].status = "PAID" /\ opened'[o] = opened[o]
          /\ confirmed'[o] = confirmed[o] + 1
      BY <3>1, <3>2, SetRowEffect DEF TypeOK
    <3> QED
      BY <3>1, <3>3, <3>4, <3>5
         DEF ConfirmInv, ConfirmedOncePerOpening, OpenOrdersUnconfirmed
  <2>2. CASE ~ConfirmWhere(row[op[h].o], Seen(h))
    BY <1>1, <2>2 DEF WebhookConfirm, ConfirmInv, ConfirmedOncePerOpening,
                      OpenOrdersUnconfirmed
  <2> QED
    BY <2>1, <2>2
<1>2. CASE ResetWrite(h)
  <2>1. /\ UNCHANGED <<opened, confirmed>>
        /\ \A o \in Orders : row'[o].status = "PENDING_PAYMENT" =>
                               row[o].status = "PENDING_PAYMENT"
    BY <1>2 DEF ResetWrite, TypeOK, Row, Present, OrderStatus
  <2> QED
    BY <2>1 DEF ConfirmInv, ConfirmedOncePerOpening, OpenOrdersUnconfirmed
<1>3. CASE ~WebhookConfirm(h) /\ ~ResetWrite(h)
  <2>1. UNCHANGED confirmed
    BY <1>3 DEF Step, ApproveWrite, AmendWrite, AmendRefused, AttachLink,
         RetryAttach, RetryReread, ClearLink, ScheduleProgress, ScheduleExpiry,
         Reply, StatusWrite, FulfilWrite, WebhookRead, ScheduleStage, PayWrite,
         StageWrite, ExpireWrite, RowGone, LinkRefused, LinkNotConfigured,
         LinkCreated, history
  <2>2. CASE UNCHANGED <<row, opened, everPaid>>
    BY <2>1, <2>2 DEF ConfirmInv, ConfirmedOncePerOpening,
                      OpenOrdersUnconfirmed
  <2>3. CASE op[h].o \in Orders /\ \E r : SetRow(op[h].o, r)
    BY <2>1, <2>3, ConfirmSetRow
  <2> QED
    BY <1>3, <2>2, <2>3, StepRows
<1> QED
  BY <1>1, <1>2, <1>3

LEMMA ConfirmationInvariant == Spec => []ConfirmInv
<1>1. Init => ConfirmInv
  BY DEF Init, NoTable, NoRow, ConfirmInv, ConfirmedOncePerOpening,
         OpenOrdersUnconfirmed
<1>2. TypeOK /\ ConfirmInv /\ [Next]_vars => ConfirmInv'
  <2> SUFFICES ASSUME TypeOK, ConfirmInv, [Next]_vars
               PROVE  ConfirmInv'
    OBVIOUS
  <2>1. ASSUME NEW h \in Handlers, Arrive(h)
        PROVE  ConfirmInv'
    <3>1. CASE UNCHANGED <<row, opened, everPaid>>
      BY <2>1, <3>1, ArriveRows
         DEF ConfirmInv, ConfirmedOncePerOpening, OpenOrdersUnconfirmed
    <3> QED
      BY <2>1, <3>1, ArriveRows, ConfirmSetRow
  <2>2. ASSUME NEW h \in Handlers, Step(h)
        PROVE  ConfirmInv'
    BY <2>2, ConfirmStep
  <2>3. CASE \/ \E h \in Handlers : Crash(h)
             \/ \E h \in Handlers, j \in Job : RunJob(h, j)
             \/ \E l \in Links : CustomerPays(l)
             \/ UNCHANGED vars
    BY <2>3 DEF Crash, RunJob, JobRead, JobSkips, CustomerPays, vars, history,
                ConfirmInv, ConfirmedOncePerOpening, OpenOrdersUnconfirmed
  <2> QED
    BY <2>1, <2>2, <2>3 DEF Next
<1> QED
  BY <1>1, <1>2, TypeCorrect, PTL DEF Spec

(* However many webhook deliveries, retries, jobs and crashes race, Razorpay *)
(* confirms an order at most once for each time it became payable: the       *)
(* condition of the update in markPaidViaRazorpay closes the order to every  *)
(* other delivery in the step in which it succeeds.                          *)
THEOREM OneConfirmation == Spec => []ConfirmedOncePerOpening
<1>1. ConfirmInv => ConfirmedOncePerOpening
  BY DEF ConfirmInv
<1> QED
  BY <1>1, ConfirmationInvariant, PTL

-----------------------------------------------------------------------------
(* Shipments: the right to move one is handed from an update to PAID, along *)
(* the jobs of the pipeline and their retries, and never lost on the way.   *)

LEMMA ShipmentRows ==
    ASSUME TypeOK, ShipmentsArePaid, NEW o \in Orders, NEW r, SetRow(o, r),
           r.fulfil = "NOT_STARTED" \/ r.fulfil = row[o].fulfil \/ o \in everPaid
    PROVE  \A p \in Orders :
             (row'[p].status \in {"PAID", "FULFILLED"} \/ row'[p].fulfil # "NOT_STARTED")
               => p \in everPaid'
BY SetRowEffect DEF ShipmentsArePaid

LEMMA ShipmentStep ==
    ASSUME TypeOK, ShipmentsArePaid, NEW h \in Handlers, Step(h)
    PROVE  ShipmentsArePaid'
<1>1. everPaid \subseteq everPaid'
  <2>1. CASE ResetWrite(h)
    BY <2>1 DEF ResetWrite
  <2>2. CASE ~ResetWrite(h)
    BY <2>2, StepRows, SetRowEffect
  <2> QED
    BY <2>1, <2>2
<1>2. \A p \in Orders :
        (row'[p].status \in {"PAID", "FULFILLED"} \/ row'[p].fulfil # "NOT_STARTED")
          => p \in everPaid'
  <2>1. CASE ResetWrite(h)
    <3>1. \A p \in Orders :
            \/ row'[p] = row[p]
            \/ row'[p].status = "DELETED" /\ row'[p].fulfil = row[p].fulfil
      BY <2>1 DEF ResetWrite, TypeOK, Row
    <3> QED
      BY <1>1, <3>1 DEF ShipmentsArePaid
  <2>2. CASE ~ResetWrite(h) /\ UNCHANGED <<row, opened, everPaid>>
    BY <2>2 DEF ShipmentsArePaid
  <2>3. ASSUME NEW r, SetRow(op[h].o, r), op[h].o \in Orders,
               \/ r.fulfil = row[op[h].o].fulfil
               \/ FulfilWrite(h)
               \/ StageWrite(h)
        PROVE  \A p \in Orders :
                 (row'[p].status \in {"PAID", "FULFILLED"}
                    \/ row'[p].fulfil # "NOT_STARTED") => p \in everPaid'
    <3>1. FulfilWrite(h) \/ StageWrite(h) => op[h].o \in everPaid
      BY DEF FulfilWrite, StageWrite, At, ShipmentsArePaid, TypeOK,
             HandlersTyped, WellFormed
    <3> QED
      BY <2>3, <3>1, ShipmentRows
  <2> QED
    BY <2>1, <2>2, <2>3, StepRows
<1>3. \A j \in Job : (j.kind = "stage" /\ queue'[j] > 0) => j.o \in everPaid'
  <2>1. CASE ScheduleProgress(h) \/ ScheduleExpiry(h)
    <3>1. \A j \in Job : j.kind = "stage" => queue'[j] = queue[j]
      BY <2>1 DEF ScheduleProgress, ScheduleExpiry, Enqueue, PayJob, ExpireJob,
                  TypeOK
    <3> QED
      BY <1>1, <3>1 DEF ShipmentsArePaid
  <2>2. CASE ScheduleStage(h)
    <3>1. op[h].o \in everPaid
      BY <2>2 DEF ScheduleStage, At, ShipmentsArePaid
    <3>2. \A j \in Job : j # StageJob(op[h].o, op[h].target) =>
                           queue'[j] = queue[j]
      BY <2>2 DEF ScheduleStage, Enqueue, TypeOK
    <3>3. StageJob(op[h].o, op[h].target).o = op[h].o
      BY DEF StageJob
    <3> QED
      BY <1>1, <3>1, <3>2, <3>3 DEF ShipmentsArePaid
  <2>3. CASE ~(ScheduleProgress(h) \/ ScheduleExpiry(h) \/ ScheduleStage(h))
    <3>1. queue' = queue
      BY <2>3 DEF Step, ApproveWrite, AmendWrite, AmendRefused, AttachLink,
           RetryAttach, RetryReread, ClearLink, Reply, StatusWrite,
           FulfilWrite, ResetWrite, WebhookRead, WebhookConfirm, PayWrite,
           StageWrite, ExpireWrite, RowGone, LinkRefused, LinkNotConfigured,
           LinkCreated
    <3> QED
      BY <1>1, <3>1 DEF ShipmentsArePaid
  <2> QED
    BY <2>1, <2>2, <2>3
<1>4. \A k \in Handlers :
        (op'[k].kind = "stage" \/ op'[k].pc \in {"fulfil", "schedule"})
          => op'[k].o \in everPaid'
  <2>1. op'[h].kind = "stage" => op'[h].o \in everPaid
    BY StepSlots DEF ShipmentsArePaid, Idle
  <2>2. op'[h].pc # "fulfil"
    BY StepSlots DEF Onward, Idle
  <2>3. op'[h].pc = "schedule" => op'[h].o \in everPaid'
    <3>1. CASE WebhookConfirm(h) \/ PayWrite(h)
      <4>1. ASSUME op'[h].pc = "schedule"
            PROVE  /\ op[h].o \in Orders
                   /\ \E r : SetRow(op[h].o, r) /\ r.status = "PAID"
        <5>1. op[h].o \in Orders /\ row[op[h].o] \in Row
          BY <3>1, RunningType DEF WebhookConfirm, PayWrite, At
        <5>2. ~Done(h)
          BY <4>1, DoneEffect DEF Idle
        <5>3. CASE PayWrite(h)
          <6>1. SetRow(op[h].o, [row[op[h].o] EXCEPT !.status = "PAID"])
            BY <5>3 DEF PayWrite
          <6> QED
            BY <5>1, <6>1 DEF Row
        <5>4. CASE WebhookConfirm(h)
          <6> DEFINE r == [row[op[h].o] EXCEPT !.status = "PAID",
                                               !.payment = op[h].link]
          <6>1. SetRow(op[h].o, r)
            BY <5>2, <5>4 DEF WebhookConfirm
          <6>2. r.status = "PAID"
            BY <5>1 DEF Row
          <6> HIDE DEF r
          <6> QED
            BY <5>1, <6>1, <6>2
        <5> QED
          BY <3>1, <5>1, <5>3, <5>4
      <4> QED
        BY <4>1, StepSlots, SetRowEffect DEF Idle
    <3>2. CASE StageWrite(h)
      <4>1. op[h].kind = "stage"
        BY <3>2 DEF StageWrite, At, TypeOK, HandlersTyped, WellFormed
      <4> QED
        BY <1>1, <4>1, StepSlots DEF ShipmentsArePaid, Idle
    <3>3. CASE ~(WebhookConfirm(h) \/ PayWrite(h) \/ StageWrite(h))
      <4>1. op'[h].pc # "schedule"
        BY <3>3, StepSlots DEF Onward, Idle
      <4> QED
        BY <4>1
    <3> QED
      BY <3>1, <3>2, <3>3
  <2> QED
    BY <1>1, <2>1, <2>2, <2>3, StepSlots DEF ShipmentsArePaid
<1> QED
  BY <1>2, <1>3, <1>4 DEF ShipmentsArePaid

LEMMA ShipmentArrive ==
    ASSUME TypeOK, ShipmentsArePaid, NEW h \in Handlers, Arrive(h)
    PROVE  ShipmentsArePaid'
<1>1. \A p \in Orders :
        (row'[p].status \in {"PAID", "FULFILLED"} \/ row'[p].fulfil # "NOT_STARTED")
          => p \in everPaid'
  <2>1. \A method, items : NewRow(method, items).fulfil = "NOT_STARTED"
    BY DEF NewRow, NoRow
  <2> QED
    BY <2>1, ArriveRows, ShipmentRows DEF ShipmentsArePaid
<1>2. everPaid \subseteq everPaid' /\ queue' = queue
  BY ArriveRows, SetRowEffect
<1>3. \A k \in Handlers \ {h} : op'[k] = op[k]
  BY ArriveSlots, SlotEffect DEF Begin
<1>4. (op'[h].kind = "stage" \/ op'[h].pc \in {"fulfil", "schedule"})
        => op'[h].o \in everPaid'
  <2>1. ASSUME NEW o \in Orders, FulfilRead(h, o)
        PROVE  op'[h].o \in everPaid
    <3>1. op'[h].o = o
      BY <2>1, ArriveFields DEF FulfilRead
    <3> QED
      BY <2>1, <3>1 DEF FulfilRead, Trackable, ShipmentsArePaid
  <2>2. CASE ~ \E o \in Orders : FulfilRead(h, o)
    <3>1. /\ op'[h].kind \in Kinds
          /\ op'[h].pc \in FreeSteps \cup {"reset", "status", "read_paid"}
      BY <2>2, ArriveFields
    <3> QED
      BY <3>1 DEF FreeSteps, Kinds
  <2> QED
    BY <1>2, <2>1, <2>2
<1> QED
  BY <1>1, <1>2, <1>3, <1>4 DEF ShipmentsArePaid

LEMMA ShipmentJob ==
    ASSUME TypeOK, ShipmentsArePaid, NEW h \in Handlers, NEW j \in Job,
           RunJob(h, j)
    PROVE  ShipmentsArePaid'
<1>1. UNCHANGED <<row, everPaid>>
  BY DEF RunJob, JobRead, JobSkips, history
<1>2. /\ queue[j] > 0
      /\ \A i \in Job : queue'[i] > 0 => queue[i] > 0
  BY DEF RunJob, JobRead, JobSkips, TakeJob, TypeOK
<1>3. CASE JobRead(h, j)
  <2>1. op' = [op EXCEPT ![h] = JobHandler(j)]
    BY <1>3 DEF JobRead, Begin, JobHandler
  <2>2. /\ JobHandler(j).kind = j.kind /\ JobHandler(j).pc = j.kind
        /\ JobHandler(j).o = j.o
    BY DEF JobHandler, Handler, Idle
  <2>3. j.kind \in {"pay", "stage", "expire"}
    BY DEF Job
  <2> QED
    BY <1>1, <1>2, <2>1, <2>2, <2>3, SlotEffect DEF ShipmentsArePaid
<1>4. CASE JobSkips(h, j)
  BY <1>1, <1>2, <1>4 DEF JobSkips, ShipmentsArePaid
<1> QED
  BY <1>3, <1>4 DEF RunJob

LEMMA ShipmentCrash ==
    ASSUME TypeOK, ShipmentsArePaid, NEW h \in Handlers, Crash(h)
    PROVE  ShipmentsArePaid'
<1>1. UNCHANGED <<row, everPaid>> /\ Done(h)
  BY DEF Crash, history
<1>2. \A k \in Handlers :
        (op'[k].kind = "stage" \/ op'[k].pc \in {"fulfil", "schedule"})
          => op'[k].o \in everPaid'
  BY <1>1, DoneEffect DEF ShipmentsArePaid, Idle
<1>3. ASSUME NEW j \in Job, j.kind = "stage", queue'[j] > 0
      PROVE  j.o \in everPaid
  <2>1. CASE UNCHANGED queue
    BY <1>3, <2>1 DEF ShipmentsArePaid
  <2>2. ASSUME NEW i \in Retried(h), Enqueue(i)
        PROVE  j.o \in everPaid
    <3>1. CASE i = j
      <4>1. op[h].kind = "stage"
        BY <1>3, <3>1 DEF Retried, PayJob, ExpireJob
      <4>2. j.o = op[h].o
        BY <3>1, <4>1 DEF Retried, StageJob
      <4> QED
        BY <4>1, <4>2 DEF ShipmentsArePaid
    <3>2. CASE i # j
      BY <1>3, <2>2, <3>2 DEF Enqueue, TypeOK, ShipmentsArePaid
    <3> QED
      BY <3>1, <3>2
  <2> QED
    BY <2>1, <2>2 DEF Crash
<1> QED
  BY <1>1, <1>2, <1>3 DEF ShipmentsArePaid

LEMMA ShipmentInvariant == Spec => []ShipmentsArePaid
<1>1. Init => ShipmentsArePaid
  BY DEF Init, NoTable, NoRow, Idle, ShipmentsArePaid
<1>2. TypeOK /\ ShipmentsArePaid /\ [Next]_vars => ShipmentsArePaid'
  <2> SUFFICES ASSUME TypeOK, ShipmentsArePaid, [Next]_vars
               PROVE  ShipmentsArePaid'
    OBVIOUS
  <2>1. ASSUME NEW h \in Handlers, Arrive(h) \/ Step(h) \/ Crash(h)
        PROVE  ShipmentsArePaid'
    BY <2>1, ShipmentArrive, ShipmentStep, ShipmentCrash
  <2>2. ASSUME NEW h \in Handlers, NEW j \in Job, RunJob(h, j)
        PROVE  ShipmentsArePaid'
    BY <2>2, ShipmentJob
  <2>3. CASE (\E l \in Links : CustomerPays(l)) \/ UNCHANGED vars
    BY <2>3 DEF CustomerPays, vars, history, ShipmentsArePaid
  <2> QED
    BY <2>1, <2>2, <2>3 DEF Next
<1> QED
  BY <1>1, <1>2, TypeCorrect, PTL DEF Spec

(* Nothing is packed, shipped or delivered for an order that was never paid: *)
(* whatever overtakes whatever, a shipment moves only through a job or a     *)
(* merchant's request that some update to PAID has allowed.                  *)
THEOREM NothingShipsUnpaid == Spec => []ShippedOnlyAfterPaid
<1>1. ShipmentsArePaid => ShippedOnlyAfterPaid
  BY DEF ShipmentsArePaid, ShippedOnlyAfterPaid
<1> QED
  BY <1>1, ShipmentInvariant, PTL

-----------------------------------------------------------------------------
(* What stale reads can and cannot do: a handler only ever decides on a    *)
(* live order, so a terminal order changes, and the stock books go out of  *)
(* balance, only when a row was rewritten between a handler's read and its *)
(* write.                                                                  *)

(* Whoever is about to write an order has read a live one.                  *)

LEMMA DecidedSlot ==
    ASSUME DecidedOnLiveOrders, NEW h \in Handlers,
           \A k \in Handlers \ {h} : op'[k] = op[k],
           op'[h].pc \in Deciding => Holds(op'[h].seen[op'[h].o])
    PROVE  DecidedOnLiveOrders'
BY DEF DecidedOnLiveOrders, Seen

LEMMA DecidedArrive ==
    ASSUME TypeOK, DecidedOnLiveOrders, NEW h \in Handlers, Arrive(h)
    PROVE  DecidedOnLiveOrders'
<1>1. ASSUME NEW pc, NEW kind, NEW o \in Orders, NEW seen, NEW r, Begin(h, r),
             \/ r = Handler(pc, kind, o, seen)
             \/ \E x : r = [Handler(pc, kind, o, seen) EXCEPT !.target = x]
             \/ \E x : r = [Handler(pc, kind, o, seen) EXCEPT !.want = x]
             \/ \E x : r = [Handler(pc, kind, o, seen) EXCEPT !.link = x],
             pc \in Deciding => seen = Snapshot(o) /\ Holds(row[o])
      PROVE  DecidedOnLiveOrders'
  <2>1. op'[h] = r /\ \A k \in Handlers \ {h} : op'[k] = op[k]
    BY <1>1, SlotEffect DEF Begin
  <2>2. r.pc = pc /\ r.kind = kind /\ r.o = o /\ r.seen = seen
    BY <1>1 DEF Handler, Idle
  <2>3. row[o] \in Row
    BY DEF TypeOK
  <2>4. Snapshot(o)[o] = row[o]
    BY <2>3, HoldingType DEF Snapshot
  <2>5. pc \in Deciding => Holds(seen[o])
    BY <1>1, <2>4
  <2> QED
    BY <2>1, <2>2, <2>5, DecidedSlot
<1>2. CASE ResetRead(h)
  <2>1. Begin(h, Handler("reset", "reset", NoOrder, row))
    BY <1>2 DEF ResetRead
  <2>2. /\ op'[h] = Handler("reset", "reset", NoOrder, row)
        /\ \A k \in Handlers \ {h} : op'[k] = op[k]
    BY <2>1, SlotEffect DEF Begin
  <2>3. op'[h].pc = "reset"
    BY <2>2, HandlerFields
  <2> QED
    BY <2>2, <2>3, DecidedSlot DEF Deciding
<1>3. ASSUME NEW o \in Orders, CreateTx(h, o) PROVE DecidedOnLiveOrders'
  <2>1. PICK r : Begin(h, Handler(AfterInsert(r), "create", o, Holding(o, r)))
    BY <1>3 DEF CreateTx
  <2>2. AfterInsert(r) \notin Deciding
    BY DEF AfterInsert, Deciding
  <2> QED
    BY <1>1, <2>1, <2>2
<1>4. ASSUME NEW o \in Orders, ApproveRead(h, o) PROVE DecidedOnLiveOrders'
  <2>1. Holds(row[o])
    BY <1>4 DEF ApproveRead, Holds, OrderStatus, Terminal
  <2> QED
    BY <1>1, <1>4, <2>1 DEF ApproveRead
<1>5. ASSUME NEW o \in Orders, AmendRead(h, o) PROVE DecidedOnLiveOrders'
  <2>1. Holds(row[o])
    BY <1>5 DEF AmendRead, Amendable, Holds, OrderStatus, Terminal
  <2> QED
    BY <1>1, <1>5, <2>1 DEF AmendRead
<1>6. ASSUME NEW o \in Orders, RetryRead(h, o) PROVE DecidedOnLiveOrders'
  <2>1. PICK pc \in {"link", "reply"} :
          Begin(h, Handler(pc, "retry", o, Snapshot(o)))
    BY <1>6 DEF RetryRead
  <2> QED
    BY <1>1, <2>1 DEF Deciding
<1>7. ASSUME NEW o \in Orders, StatusRead(h, o) PROVE DecidedOnLiveOrders'
  <2>1. Holds(row[o])
    BY <1>7 DEF StatusRead, Present, Holds
  <2> QED
    BY <1>1, <1>7, <2>1 DEF StatusRead
<1>8. ASSUME NEW o \in Orders, FulfilRead(h, o) PROVE DecidedOnLiveOrders'
  <2>1. Holds(row[o])
    BY <1>8 DEF FulfilRead, Trackable, Holds, OrderStatus, Terminal
  <2> QED
    BY <1>1, <1>8, <2>1 DEF FulfilRead
<1>9. ASSUME NEW o \in Orders, NEW l \in Links, WebhookLookup(h, o, l)
      PROVE  DecidedOnLiveOrders'
  <2> DEFINE r == [Handler("read_paid", "webhook", o, NoTable) EXCEPT !.link = l]
  <2>1. Begin(h, r)
    BY <1>9 DEF WebhookLookup
  <2>2. r.pc \notin Deciding
    BY HandlerFields DEF Deciding
  <2> HIDE DEF r
  <2>3. op'[h] = r /\ \A k \in Handlers \ {h} : op'[k] = op[k]
    BY <2>1, SlotEffect DEF Begin
  <2> QED
    BY <2>2, <2>3, DecidedSlot
<1> QED
  BY <1>2, <1>3, <1>4, <1>5, <1>6, <1>7, <1>8, <1>9 DEF Arrive

LEMMA DecidedJob ==
    ASSUME TypeOK, DecidedOnLiveOrders, NEW h \in Handlers, NEW j \in Job,
           RunJob(h, j)
    PROVE  DecidedOnLiveOrders'
<1>1. CASE JobRead(h, j)
  <2>1. op' = [op EXCEPT ![h] = JobHandler(j)]
    BY <1>1 DEF JobRead, Begin, JobHandler
  <2>2. JobHandler(j).o = j.o /\ JobHandler(j).seen = Snapshot(j.o)
    BY HandlerFields DEF JobHandler
  <2>3. j.o \in Orders /\ row[j.o] \in Row
        /\ (j.kind = "expire" => j.target \in Waiting)
    BY DEF Job, TypeOK
  <2>4. Holds(row[j.o])
    <3>1. CASE j.kind = "pay"
      BY <1>1, <3>1 DEF JobRead, JobApplies, PayApplies, Present, Holds
    <3>2. CASE j.kind = "stage"
      BY <1>1, <3>2 DEF JobRead, JobApplies, StageApplies, Present, Holds
    <3>3. CASE j.kind = "expire"
      BY <1>1, <2>3, <3>3 DEF JobRead, JobApplies, ExpiryApplies, Holds,
           Waiting, OrderStatus, Terminal
    <3> QED
      BY <3>1, <3>2, <3>3 DEF Job
  <2>5. Snapshot(j.o)[j.o] = row[j.o]
    BY <2>3, HoldingType DEF Snapshot
  <2>6. op'[h] = JobHandler(j) /\ \A k \in Handlers \ {h} : op'[k] = op[k]
    BY <2>1, SlotEffect
  <2>7. Holds(op'[h].seen[op'[h].o])
    BY <2>2, <2>4, <2>5, <2>6
  <2> QED
    BY <2>6, <2>7, DecidedSlot
<1>2. CASE JobSkips(h, j)
  BY <1>2 DEF JobSkips, DecidedOnLiveOrders, Seen
<1> QED
  BY <1>1, <1>2 DEF RunJob

LEMMA DecidedNext ==
    ASSUME TypeOK, DecidedOnLiveOrders, [Next]_vars
    PROVE  DecidedOnLiveOrders'
<1>1. ASSUME NEW h \in Handlers, Step(h) \/ Crash(h)
      PROVE  DecidedOnLiveOrders'
  <2>1. op'[h].pc \notin Deciding /\ \A k \in Handlers \ {h} : op'[k] = op[k]
    BY <1>1, StepSlots, DoneEffect DEF Crash, Onward, Deciding, Idle
  <2> QED
    BY <2>1, DecidedSlot
<1>2. CASE (\E l \in Links : CustomerPays(l)) \/ UNCHANGED vars
  BY <1>2 DEF CustomerPays, vars, DecidedOnLiveOrders, Seen
<1> QED
  BY <1>1, <1>2, DecidedArrive, DecidedJob DEF Next

LEMMA DecidedInit == Init => DecidedOnLiveOrders
BY DEF Init, Idle, DecidedOnLiveOrders, Deciding

-----------------------------------------------------------------------------
(* A terminal order.                                                        *)

(* A handler that writes an order it decided on either finds it live or     *)
(* leaves it marked as written from a stale row.                            *)
LEMMA LiveOrStale ==
    ASSUME TypeOK, DecidedOnLiveOrders, NEW h \in Handlers,
           op[h].pc \in Deciding, MarkStale(h)
    PROVE  /\ stale \subseteq stale'
           /\ op[h].o \in stale' \/ /\ SameRow(row[op[h].o], Seen(h))
                                    /\ Holds(row[op[h].o])
BY DEF DecidedOnLiveOrders, MarkStale, Fresh, SameRow, Holds

LEMMA SetRowKeepsTerminal ==
    ASSUME TypeOK, NEW o \in Orders, NEW r, SetRow(o, r),
           \/ r.status = row[o].status
           \/ row[o].status \notin Terminal
           \/ o \in stale'
    PROVE  \A p \in Orders : row[p].status \in Terminal =>
             \/ row'[p].status \in {row[p].status, "DELETED"}
             \/ p \in stale'
BY SetRowEffect

LEMMA TerminalStep ==
    ASSUME TypeOK, DecidedOnLiveOrders, NEW h \in Handlers, Step(h)
    PROVE  \A p \in Orders : row[p].status \in Terminal =>
             \/ row'[p].status \in {row[p].status, "DELETED"}
             \/ p \in stale'
<1> DEFINE o == op[h].o
<1>1. CASE ResetWrite(h)
  BY <1>1 DEF ResetWrite, TypeOK, Row
<1>2. CASE \/ ApproveWrite(h) \/ AmendWrite(h) \/ StatusWrite(h)
           \/ FulfilWrite(h) \/ PayWrite(h) \/ StageWrite(h) \/ ExpireWrite(h)
  <2>1. op[h].pc \in Deciding /\ MarkStale(h)
    BY <1>2 DEF ApproveWrite, AmendWrite, StatusWrite, FulfilWrite, PayWrite,
         StageWrite, ExpireWrite, At, Deciding
  <2>0. \E r : SetRow(o, r)
    BY <1>2 DEF ApproveWrite, AmendWrite, StatusWrite, FulfilWrite, PayWrite,
         StageWrite, ExpireWrite
  <2>2. o \in Orders
    BY <2>1, RunningType DEF Deciding
  <2>3. o \in stale' \/ row[o].status \notin Terminal
    BY <2>1, LiveOrStale DEF Holds
  <2> HIDE DEF o
  <2> QED
    BY <2>0, <2>2, <2>3, SetRowKeepsTerminal
<1>3. CASE AttachLink(h) \/ RetryAttach(h) \/ ClearLink(h)
  <2>1. o \in Orders /\ row[o] \in Row
    BY <1>3, RunningType DEF AttachLink, RetryAttach, ClearLink, At
  <2>2. \A l : [row[o] EXCEPT !.link = l].status = row[o].status
    BY <2>1 DEF Row
  <2>3. row' = row \/ \E l : SetRow(o, [row[o] EXCEPT !.link = l])
    BY <1>3 DEF AttachLink, RetryAttach, ClearLink
  <2> HIDE DEF o
  <2> QED
    BY <2>1, <2>2, <2>3, SetRowKeepsTerminal
<1>4. CASE WebhookConfirm(h)
  <2>1. o \in Orders
    BY <1>4, RunningType DEF WebhookConfirm, At
  <2>2. \/ row' = row
        \/ (\E r : SetRow(o, r)) /\ row[o].status \notin Terminal
    BY <1>4 DEF WebhookConfirm, ConfirmWhere, Terminal
  <2> HIDE DEF o
  <2> QED
    BY <2>1, <2>2, SetRowKeepsTerminal
<1>5. CASE \/ AmendRefused(h) \/ RetryReread(h) \/ ScheduleProgress(h)
           \/ ScheduleExpiry(h) \/ Reply(h) \/ WebhookRead(h)
           \/ ScheduleStage(h) \/ RowGone(h) \/ LinkRefused(h)
           \/ LinkNotConfigured(h) \/ \E l \in Links : LinkCreated(h, l)
  <2>1. row' = row
    BY <1>5 DEF AmendRefused, RetryReread, ScheduleProgress, ScheduleExpiry,
         Reply, WebhookRead, ScheduleStage, RowGone, LinkRefused,
         LinkNotConfigured, LinkCreated
  <2> QED
    BY <2>1
<1> QED
  BY <1>1, <1>2, <1>3, <1>4, <1>5 DEF Step

(* Cancelled and refunded orders stay so: the only way out is a handler that *)
(* read the order before it was closed and writes it afterwards, or the      *)
(* reset, which deletes it.                                                  *)
THEOREM TerminalOrdersStay == Spec => TerminalIsFinal
<1> DEFINE Kept == \A o \in Orders : row[o].status \in Terminal =>
                     \/ row'[o].status \in {row[o].status, "DELETED"}
                     \/ o \in stale'
<1>1. TypeOK /\ DecidedOnLiveOrders /\ [Next]_vars => [Kept]_vars
  <2> SUFFICES ASSUME TypeOK, DecidedOnLiveOrders, Next
               PROVE  Kept
    OBVIOUS
  <2>1. ASSUME NEW h \in Handlers, Arrive(h)
        PROVE  Kept
    BY <2>1, ArriveRows, SetRowKeepsTerminal DEF Terminal
  <2>2. ASSUME NEW h \in Handlers, Step(h)
        PROVE  Kept
    BY <2>2, TerminalStep
  <2>3. CASE \/ \E h \in Handlers : Crash(h)
             \/ \E h \in Handlers, j \in Job : RunJob(h, j)
             \/ \E l \in Links : CustomerPays(l)
    BY <2>3 DEF Crash, RunJob, JobRead, JobSkips, CustomerPays
  <2> QED
    BY <2>1, <2>2, <2>3 DEF Next
<1> QED
  BY <1>1, DecidedInit, DecidedNext, TypeCorrect, PTL
     DEF Spec, TerminalIsFinal

-----------------------------------------------------------------------------
(* How many units a table of orders holds.                                  *)

\* the units that orders other than o hold
Others(table, o, v) ==
    {u \in Orders \X (1 .. MaxQty) :
       u[1] # o /\ u[2] <= Held(table[u[1]], v)}

(* The units of one order: as many as its quantity. *)
LEMMA OwnUnits ==
    ASSUME NEW o, NEW n \in Nat
    PROVE  IsFiniteSet({o} \X (1 .. n)) /\ Cardinality({o} \X (1 .. n)) = n
<1>1. IsFiniteSet({o}) /\ Cardinality({o}) = 1
  BY FS_Singleton
<1>2. IsFiniteSet(1 .. n) /\ Cardinality(1 .. n) = n
  BY FS_Interval
<1>3. /\ IsFiniteSet({o} \X (1 .. n))
      /\ Cardinality({o} \X (1 .. n)) = Cardinality({o}) * Cardinality(1 .. n)
  BY <1>1, <1>2, FS_Product, ZenonT(30)
<1>4. 1 * n = n
  OBVIOUS
<1> QED
  BY <1>1, <1>2, <1>3, <1>4

LEMMA UnitsSplit ==
    ASSUME NEW table, NEW o \in Orders, NEW v,
           Held(table[o], v) \in 0 .. MaxQty
    PROVE  /\ Cardinality(Others(table, o, v)) \in Nat
           /\ Cardinality(Units(table, v))
                = Cardinality(Others(table, o, v)) + Held(table[o], v)
<1> DEFINE n == Held(table[o], v)
           Own == {o} \X (1 .. n)
           Rest == Others(table, o, v)
<1>1. n \in Nat /\ n <= MaxQty
  BY ConstantsOK
<1>2. IsFiniteSet(Own) /\ Cardinality(Own) = n
  BY <1>1, OwnUnits
<1>3. Units(table, v) = Rest \cup Own
  BY <1>1, ConstantsOK DEF Units, Others
<1>4. Rest \cap Own = {}
  BY DEF Others
<1>5. IsFiniteSet(Rest)
  BY <1>3, UnitsFinite, FS_Subset
<1> HIDE DEF Rest, Own, n
<1>6. Cardinality(Rest) \in Nat /\ Cardinality({}) = 0
  BY <1>5, FS_CardinalityType, FS_EmptySet
<1>7. Cardinality(Rest \cup Own)
        = Cardinality(Rest) + Cardinality(Own) - Cardinality(Rest \cap Own)
  BY <1>2, <1>5, FS_Union
<1>8. /\ Cardinality(Units(table, v)) = Cardinality(Rest \cup Own)
      /\ Cardinality(Rest \cap Own) = 0
  BY <1>3, <1>4, <1>6, Zenon
<1>9. Cardinality(Units(table, v)) = Cardinality(Rest) + n
  BY <1>1, <1>2, <1>6, <1>7, <1>8
<1> QED
  BY <1>6, <1>9 DEF Rest, n

LEMMA HeldType ==
    ASSUME NEW r \in Row, NEW v \in Variants
    PROVE  Held(r, v) \in 0 .. MaxQty
BY ConstantsOK DEF Held, Row, Items

(* Rewriting one order changes what is held by what that order held and     *)
(* what it holds now.                                                       *)
LEMMA UnitsChange ==
    ASSUME NEW t \in [Orders -> Row], NEW o \in Orders, NEW r \in Row,
           NEW v \in Variants
    PROVE  Cardinality(Units([t EXCEPT ![o] = r], v))
             = Cardinality(Units(t, v)) - Held(t[o], v) + Held(r, v)
<1> DEFINE u == [t EXCEPT ![o] = r]
<1>1. u[o] = r /\ \A p \in Orders \ {o} : u[p] = t[p]
  OBVIOUS
<1>2. Held(t[o], v) \in 0 .. MaxQty /\ Held(u[o], v) \in 0 .. MaxQty
  BY <1>1, HeldType
<1> HIDE DEF u
<1>3. Others(u, o, v) = Others(t, o, v)
  BY <1>1 DEF Others
<1>4. /\ Cardinality(Others(t, o, v)) \in Nat
      /\ Cardinality(Units(t, v))
           = Cardinality(Others(t, o, v)) + Held(t[o], v)
  BY <1>2, UnitsSplit
<1>5. Cardinality(Units(u, v))
        = Cardinality(Others(u, o, v)) + Held(u[o], v)
  BY <1>2, UnitsSplit
<1> QED
  BY <1>1, <1>2, <1>3, <1>4, <1>5 DEF u

-----------------------------------------------------------------------------
(* One step of the books.                                                   *)

(* An update that moves between shelf and order what the order held and     *)
(* what it holds now keeps the books.                                       *)
LEMMA BalanceRow ==
    ASSUME TypeOK, StockBalances, stale = {}, NEW o \in Orders, NEW r \in Row,
           SetRow(o, r),
           \A v \in Variants :
             inventory'[v] = inventory[v] + Held(row[o], v) - Held(r, v)
    PROVE  StockBalances'
<1> SUFFICES ASSUME NEW v \in Variants
             PROVE  inventory'[v] + Cardinality(Units(row', v)) = Supply[v]
  BY DEF StockBalances
<1>1. row \in [Orders -> Row] /\ inventory[v] \in Int
  BY DEF TypeOK
<1>2. row' = [row EXCEPT ![o] = r]
  BY DEF SetRow
<1>3. Cardinality(Units(row', v))
        = Cardinality(Units(row, v)) - Held(row[o], v) + Held(r, v)
  BY <1>1, <1>2, UnitsChange
<1>4. inventory[v] + Cardinality(Units(row, v)) = Supply[v]
  BY DEF StockBalances
<1>5. Held(row[o], v) \in Nat /\ Held(r, v) \in Nat
  BY <1>1, HeldType, ConstantsOK
<1>6. Cardinality(Units(row, v)) \in Nat /\ Supply[v] \in Nat
  BY UnitsFinite, SupplyOK
<1> QED
  BY <1>1, <1>3, <1>4, <1>5, <1>6

(* The common case: the shelf is not touched and the order holds the same.  *)
LEMMA BalanceSame ==
    ASSUME TypeOK, StockBalances, stale = {}, NEW o \in Orders, NEW r \in Row,
           SetRow(o, r), inventory' = inventory,
           Holds(r) = Holds(row[o]), r.items = row[o].items
    PROVE  StockBalances'
<1>1. \A v \in Variants : /\ Held(r, v) = Held(row[o], v)
                          /\ Held(r, v) \in Nat /\ inventory[v] \in Int
  BY HeldType, ConstantsOK DEF Held, TypeOK
<1> QED
  BY <1>1, BalanceRow

LEMMA BalanceUntouched ==
    ASSUME StockBalances, UNCHANGED <<row, inventory>>, stale \subseteq stale'
    PROVE  StockBalances'
<1>1. \A v : Units(row', v) = Units(row, v)
  OBVIOUS
<1> QED
  BY <1>1 DEF StockBalances

(* A handler that does not mark the order it writes as stale writes a live  *)
(* order whose items are the ones it has read.                              *)
LEMMA FreshWrite ==
    ASSUME TypeOK, DecidedOnLiveOrders, NEW h \in Handlers,
           op[h].pc \in Deciding, MarkStale(h), stale' = {}
    PROVE  /\ stale = {}
           /\ op[h].o \in Orders /\ row[op[h].o] \in Row /\ Seen(h) \in Row
           /\ Holds(row[op[h].o])
           /\ row[op[h].o].status = Seen(h).status
           /\ row[op[h].o].items = Seen(h).items
           /\ \A v \in Variants : Held(row[op[h].o], v) = Seen(h).items[v]
<1>1. op[h].pc \notin {"idle", "reset"}
  BY DEF Deciding
<1>2. op[h].o \in Orders /\ row[op[h].o] \in Row /\ Seen(h) \in Row
  BY <1>1, RunningType
<1>3. stale = {} /\ SameRow(row[op[h].o], Seen(h)) /\ Holds(row[op[h].o])
  BY LiveOrStale
<1> QED
  BY <1>2, <1>3 DEF SameRow, Held

LEMMA BalanceReset ==
    ASSUME TypeOK, StockBalances, NEW h \in Handlers, ResetWrite(h),
           stale' = {}
    PROVE  StockBalances'
<1> SUFFICES ASSUME NEW v \in Variants
             PROVE  inventory'[v] + Cardinality(Units(row', v)) = Supply[v]
  BY DEF StockBalances
<1> DEFINE seen == op[h].seen
<1>1. stale = {} /\ \A o \in Orders : SameRow(row[o], seen[o])
  BY DEF ResetWrite
<1>2. Units(seen, v) = Units(row, v)
  BY <1>1 DEF Units, SameRow, Held, Holds
<1>3. \A o \in Orders : ~Holds(row'[o])
  BY DEF ResetWrite, Present, Holds, TypeOK, Row, OrderStatus
<1>4. Units(row', v) = {}
  BY <1>3, ConstantsOK DEF Units, Held
<1>5. inventory'[v] = inventory[v] + Cardinality(Units(seen, v))
  BY DEF ResetWrite
<1> HIDE DEF seen
<1>6. Cardinality(Units(row', v)) = 0
  BY <1>4, FS_EmptySet, Zenon
<1>7. Cardinality(Units(seen, v)) = Cardinality(Units(row, v))
  BY <1>2, Zenon
<1>8. inventory[v] + Cardinality(Units(row, v)) = Supply[v]
  BY <1>1 DEF StockBalances
<1>9. inventory[v] \in Int /\ Cardinality(Units(row, v)) \in Nat
  BY UnitsFinite DEF TypeOK
<1> QED
  BY <1>5, <1>6, <1>7, <1>8, <1>9

LEMMA BalanceStep ==
    ASSUME TypeOK, DecidedOnLiveOrders, StockBalances, NEW h \in Handlers,
           Step(h), stale' = {}
    PROVE  StockBalances'
<1> DEFINE o == op[h].o
<1>0. \A v \in Variants : inventory[v] \in Int /\ MaxQty \in Nat
  BY ConstantsOK DEF TypeOK
<1>a. ASSUME op[h].pc \in Deciding, MarkStale(h)
      PROVE  /\ stale = {}
             /\ o \in Orders /\ row[o] \in Row /\ Seen(h) \in Row
             /\ Holds(row[o])
             /\ row[o].status = Seen(h).status
             /\ row[o].items = Seen(h).items
             /\ \A v \in Variants : Held(row[o], v) = Seen(h).items[v]
  BY <1>a, FreshWrite
<1>b. ASSUME NEW r \in Row, NEW v \in Variants
      PROVE  r.items[v] \in Nat
  BY ConstantsOK DEF Row, Items
<1>1. CASE ApproveWrite(h)
  <2> DEFINE r == [row[o] EXCEPT !.status = "PENDING_PAYMENT"]
  <2>1. op[h].pc \in Deciding /\ MarkStale(h) /\ SetRow(o, r)
        /\ inventory' = inventory
    BY <1>1 DEF ApproveWrite, At, Deciding
  <2>2. o \in Orders /\ row[o] \in Row /\ Holds(row[o]) /\ stale = {}
    BY <1>a, <2>1
  <2>3. /\ r \in Row /\ r.items = row[o].items
        /\ r.status = "PENDING_PAYMENT"
    BY <2>2 DEF Row, OrderStatus
  <2> HIDE DEF r, o
  <2>4. Holds(r) = Holds(row[o])
    BY <2>2, <2>3 DEF Holds, OrderStatus, Terminal
  <2> QED
    BY <2>1, <2>2, <2>3, <2>4, BalanceSame
<1>2. CASE AmendWrite(h)
  <2> DEFINE r == [row[o] EXCEPT !.items = op[h].want,
                     !.status = AmendedStatus(Seen(h), op[h].want)]
  <2>1. /\ op[h].pc \in Deciding /\ MarkStale(h) /\ SetRow(o, r)
        /\ inventory' = Reserve(Release(inventory, Seen(h).items), op[h].want)
    BY <1>2 DEF AmendWrite, At, Deciding
  <2>2. /\ o \in Orders /\ row[o] \in Row /\ Seen(h) \in Row /\ stale = {}
        /\ Holds(row[o]) /\ row[o].status = Seen(h).status
        /\ \A v \in Variants : Held(row[o], v) = Seen(h).items[v]
    BY <1>a, <2>1
  <2>3. op[h].want \in Items
    BY <1>2, RunningType DEF AmendWrite, At
  <2>4. /\ AmendedStatus(Seen(h), op[h].want) \in OrderStatus \ Terminal
    BY <2>2 DEF AmendedStatus, Holds, OrderStatus, Terminal
  <2>5. /\ r \in Row /\ r.items = op[h].want
        /\ r.status = AmendedStatus(Seen(h), op[h].want)
    BY <2>2, <2>3, <2>4 DEF Row
  <2> HIDE DEF r, o
  <2>6. \A v \in Variants : Held(r, v) = op[h].want[v]
    BY <2>4, <2>5 DEF Held, Holds
  <2>7. \A v \in Variants :
          inventory'[v] = inventory[v] + Seen(h).items[v] - op[h].want[v]
    <3>1. \A v \in Variants : Release(inventory, Seen(h).items)[v]
                              = inventory[v] + Seen(h).items[v]
      BY DEF Release
    <3>2. \A v \in Variants :
            inventory'[v] = Release(inventory, Seen(h).items)[v] - op[h].want[v]
      BY <2>1 DEF Reserve
    <3>3. \A v \in Variants : Seen(h).items[v] \in Nat /\ op[h].want[v] \in Nat
      BY <1>b, <2>2, <2>3, ConstantsOK DEF Items
    <3> QED
      BY <1>0, <3>1, <3>2, <3>3
  <2>8. \A v \in Variants :
          inventory'[v] = inventory[v] + Held(row[o], v) - Held(r, v)
    BY <2>2, <2>6, <2>7
  <2> QED
    BY <2>1, <2>2, <2>5, <2>8, BalanceRow
<1>3. CASE AttachLink(h) \/ RetryAttach(h) \/ ClearLink(h)
  <2>1. o \in Orders /\ row[o] \in Row /\ op[h].link \in Links \cup {NoLink}
    BY <1>3, RunningType
       DEF AttachLink, RetryAttach, ClearLink, At, TypeOK, HandlersTyped, Op
  <2>2. /\ inventory' = inventory /\ stale' = stale
        /\ \/ row' = row
           \/ \E l \in Links \cup {NoLink} :
                SetRow(o, [row[o] EXCEPT !.link = l])
    BY <1>3, <2>1 DEF AttachLink, RetryAttach, ClearLink
  <2>3. ASSUME NEW l \in Links \cup {NoLink},
               SetRow(o, [row[o] EXCEPT !.link = l])
        PROVE  StockBalances'
    <3> DEFINE r == [row[o] EXCEPT !.link = l]
    <3>1. r \in Row /\ r.items = row[o].items /\ r.status = row[o].status
      BY <2>1 DEF Row
    <3>2. SetRow(o, r)
      BY <2>3
    <3> HIDE DEF r, o
    <3>3. Holds(r) = Holds(row[o])
      BY <3>1 DEF Holds
    <3> QED
      BY <2>1, <2>2, <3>1, <3>2, <3>3, BalanceSame
  <2> QED
    BY <2>2, <2>3, BalanceUntouched
<1>4. CASE StatusWrite(h)
  <2> DEFINE r == [row[o] EXCEPT !.status = op[h].target]
  <2>1. /\ op[h].pc \in Deciding /\ MarkStale(h) /\ SetRow(o, r)
        /\ inventory' = IF Releasing(op[h].target)
                        THEN Release(inventory, Seen(h).items) ELSE inventory
    BY <1>4 DEF StatusWrite, At, Deciding
  <2>2. /\ o \in Orders /\ row[o] \in Row /\ Seen(h) \in Row /\ stale = {}
        /\ Holds(row[o])
        /\ \A v \in Variants : Held(row[o], v) = Seen(h).items[v]
    BY <1>a, <2>1
  <2>3. op[h].target \in OrderStatus
    BY <1>4 DEF StatusWrite, At, TypeOK, HandlersTyped, WellFormed
  <2>4. r \in Row /\ r.items = row[o].items /\ r.status = op[h].target
    BY <2>2, <2>3 DEF Row
  <2> HIDE DEF r, o
  <2>5. CASE Releasing(op[h].target)
    <3>1. \A v \in Variants : Held(r, v) = 0
      BY <2>4, <2>5 DEF Held, Holds, Releasing
    <3>2. \A v \in Variants :
            inventory'[v] = inventory[v] + Seen(h).items[v]
      BY <2>1, <2>5 DEF Release
    <3>3. \A v \in Variants :
            inventory'[v] = inventory[v] + Held(row[o], v) - Held(r, v)
      BY <1>0, <1>b, <2>2, <3>1, <3>2
    <3> QED
      BY <2>1, <2>2, <2>4, <3>3, BalanceRow
  <2>6. CASE ~Releasing(op[h].target)
    <3>1. Holds(r) = Holds(row[o]) /\ inventory' = inventory
      BY <2>1, <2>2, <2>3, <2>4, <2>6 DEF Holds, Releasing
    <3> QED
      BY <2>1, <2>2, <2>4, <3>1, BalanceSame
  <2> QED
    BY <2>5, <2>6
<1>5. CASE FulfilWrite(h) \/ StageWrite(h)
  <2> DEFINE r == FulfilledRow(row[o], op[h].target)
  <2>1. op[h].pc \in Deciding /\ MarkStale(h) /\ SetRow(o, r)
        /\ inventory' = inventory
    BY <1>5 DEF FulfilWrite, StageWrite, At, Deciding
  <2>2. o \in Orders /\ row[o] \in Row /\ Holds(row[o]) /\ stale = {}
    BY <1>a, <2>1
  <2>3. op[h].target \in Fulfilment
    BY <1>5 DEF FulfilWrite, StageWrite, At, TypeOK, HandlersTyped, WellFormed,
         Fulfilment
  <2>4. /\ r \in Row /\ r.items = row[o].items
        /\ r.status \in {"FULFILLED", row[o].status}
    BY <2>2, <2>3 DEF FulfilledRow, Row, OrderStatus
  <2> HIDE DEF r, o
  <2>5. Holds(r) = Holds(row[o])
    BY <2>2, <2>4 DEF Holds, OrderStatus, Terminal
  <2> QED
    BY <2>1, <2>2, <2>4, <2>5, BalanceSame
<1>6. CASE PayWrite(h)
  <2> DEFINE r == [row[o] EXCEPT !.status = "PAID"]
  <2>1. op[h].pc \in Deciding /\ MarkStale(h) /\ SetRow(o, r)
        /\ inventory' = inventory
    BY <1>6 DEF PayWrite, At, Deciding
  <2>2. o \in Orders /\ row[o] \in Row /\ Holds(row[o]) /\ stale = {}
    BY <1>a, <2>1
  <2>3. r \in Row /\ r.items = row[o].items /\ r.status = "PAID"
    BY <2>2 DEF Row, OrderStatus
  <2> HIDE DEF r, o
  <2>4. Holds(r) = Holds(row[o])
    BY <2>2, <2>3 DEF Holds, OrderStatus, Terminal
  <2> QED
    BY <2>1, <2>2, <2>3, <2>4, BalanceSame
<1>7. CASE ExpireWrite(h)
  <2> DEFINE r == [row[o] EXCEPT !.status = "CANCELLED"]
  <2>1. /\ op[h].pc \in Deciding /\ MarkStale(h) /\ SetRow(o, r)
        /\ inventory' = Release(inventory, Seen(h).items)
    BY <1>7 DEF ExpireWrite, At, Deciding
  <2>2. /\ o \in Orders /\ row[o] \in Row /\ Seen(h) \in Row /\ stale = {}
        /\ \A v \in Variants : Held(row[o], v) = Seen(h).items[v]
    BY <1>a, <2>1
  <2>3. r \in Row /\ r.items = row[o].items /\ r.status = "CANCELLED"
    BY <2>2 DEF Row, OrderStatus
  <2> HIDE DEF r, o
  <2>4. \A v \in Variants : Held(r, v) = 0
    BY <2>3 DEF Held, Holds, Terminal
  <2>5. \A v \in Variants : inventory'[v] = inventory[v] + Seen(h).items[v]
    BY <2>1 DEF Release
  <2>6. \A v \in Variants :
          inventory'[v] = inventory[v] + Held(row[o], v) - Held(r, v)
    BY <1>0, <1>b, <2>2, <2>4, <2>5
  <2> QED
    BY <2>1, <2>2, <2>3, <2>6, BalanceRow
<1>8. CASE WebhookConfirm(h)
  <2> DEFINE r == [row[o] EXCEPT !.status = "PAID", !.payment = op[h].link]
  <2>1. o \in Orders /\ row[o] \in Row /\ op[h].link \in Links
    BY <1>8, RunningType
       DEF WebhookConfirm, At, TypeOK, HandlersTyped, WellFormed
  <2>2. /\ inventory' = inventory /\ stale' = stale
        /\ \/ row' = row
           \/ SetRow(o, r) /\ row[o].status = "PENDING_PAYMENT"
    BY <1>8 DEF WebhookConfirm, ConfirmWhere
  <2>3. r \in Row /\ r.items = row[o].items /\ r.status = "PAID"
    BY <2>1 DEF Row, OrderStatus
  <2> HIDE DEF r, o
  <2>4. row[o].status = "PENDING_PAYMENT" => Holds(r) = Holds(row[o])
    BY <2>3 DEF Holds, OrderStatus, Terminal
  <2> QED
    BY <2>1, <2>2, <2>3, <2>4, BalanceSame, BalanceUntouched
<1>9. CASE ResetWrite(h)
  BY <1>9, BalanceReset
<1>10. CASE \/ AmendRefused(h) \/ RetryReread(h) \/ ScheduleProgress(h)
            \/ ScheduleExpiry(h) \/ Reply(h) \/ WebhookRead(h)
            \/ ScheduleStage(h) \/ RowGone(h) \/ LinkRefused(h)
            \/ LinkNotConfigured(h) \/ \E l \in Links : LinkCreated(h, l)
  <2>1. UNCHANGED <<row, inventory, stale>>
    BY <1>10 DEF AmendRefused, RetryReread, ScheduleProgress, ScheduleExpiry,
         Reply, WebhookRead, ScheduleStage, RowGone, LinkRefused,
         LinkNotConfigured, LinkCreated, history
  <2> QED
    BY <2>1, BalanceUntouched
<1> QED
  BY <1>1, <1>2, <1>3, <1>4, <1>5, <1>6, <1>7, <1>8, <1>9, <1>10 DEF Step

LEMMA BalanceCreate ==
    ASSUME TypeOK, StockBalances, NEW h \in Handlers, NEW o \in Orders,
           CreateTx(h, o), stale' = {}
    PROVE  StockBalances'
<1>1. PICK items \in Items, method \in Methods :
        /\ inventory' = Reserve(inventory, items)
        /\ SetRow(o, NewRow(method, items))
  BY DEF CreateTx
<1> DEFINE r == NewRow(method, items)
<1>2. InitialStatus(method, items) \in OrderStatus \ Terminal
  BY DEF InitialStatus, OrderStatus, Terminal
<1>3. /\ r \in Row /\ r.items = items
      /\ r.status = InitialStatus(method, items)
  BY <1>2, NoRowType DEF NewRow, Row, NoRow
<1> HIDE DEF r
<1>4. /\ \A v \in Variants : Held(r, v) = items[v]
      /\ \A v \in Variants : Held(row[o], v) = 0
  BY <1>2, <1>3 DEF Held, Holds, CreateTx, OrderStatus
<1>5. \A v \in Variants :
        inventory'[v] = inventory[v] + Held(row[o], v) - Held(r, v)
  BY <1>1, <1>4, ConstantsOK DEF Reserve, TypeOK, Items
<1>6. stale = {}
  BY DEF CreateTx
<1> QED
  BY <1>1, <1>3, <1>5, <1>6, BalanceRow DEF r

(* The stock books balance: for as long as no order was written from a row  *)
(* that had changed since it was read, what is on the shelf and what live   *)
(* orders hold is the supply, through every interleaving of orders,         *)
(* amendments, cancellations, refunds, expiries, resets, crashes and        *)
(* retried jobs (reserveStock and releaseStock).                            *)
THEOREM StockAddsUp == Spec => []StockBalances
<1>1. Init => StockBalances
  <2> SUFFICES ASSUME Init, NEW v \in Variants
               PROVE  inventory[v] + Cardinality(Units(row, v)) = Supply[v]
    BY DEF StockBalances
  <2>1. Units(row, v) = {}
    BY ConstantsOK DEF Init, NoTable, NoRow, Units, Held, Holds, OrderStatus
  <2>2. Cardinality(Units(row, v)) = 0
    BY <2>1, FS_EmptySet, Zenon
  <2>3. inventory[v] = Supply[v] /\ Supply[v] \in Nat
    BY SupplyOK DEF Init
  <2> QED
    BY <2>2, <2>3
<1>2. TypeOK /\ DecidedOnLiveOrders /\ StockBalances /\ [Next]_vars
        => StockBalances'
  <2> SUFFICES ASSUME TypeOK, DecidedOnLiveOrders, StockBalances,
                      [Next]_vars, stale' = {}
               PROVE  StockBalances'
    BY DEF StockBalances
  <2>1. ASSUME NEW h \in Handlers, NEW o \in Orders, CreateTx(h, o)
        PROVE  StockBalances'
    BY <2>1, BalanceCreate
  <2>2. ASSUME NEW h \in Handlers, Arrive(h), ~ \E o \in Orders : CreateTx(h, o)
        PROVE  StockBalances'
    <3>1. UNCHANGED <<row, inventory, stale>>
      BY <2>2 DEF Arrive, ResetRead, ApproveRead, AmendRead, RetryRead,
           StatusRead, FulfilRead, WebhookLookup, history
    <3> QED
      BY <3>1, BalanceUntouched
  <2>3. ASSUME NEW h \in Handlers, Step(h)
        PROVE  StockBalances'
    BY <2>3, BalanceStep
  <2>4. CASE \/ \E h \in Handlers : Crash(h)
             \/ \E h \in Handlers, j \in Job : RunJob(h, j)
             \/ \E l \in Links : CustomerPays(l)
             \/ UNCHANGED vars
    <3>1. UNCHANGED <<row, inventory, stale>>
      BY <2>4 DEF Crash, RunJob, JobRead, JobSkips, CustomerPays, vars, history
    <3> QED
      BY <3>1, BalanceUntouched
  <2> QED
    BY <2>1, <2>2, <2>3, <2>4 DEF Next
<1> QED
  BY <1>1, <1>2, DecidedInit, DecidedNext, TypeCorrect, PTL DEF Spec
=============================================================================
