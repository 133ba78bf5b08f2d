------------------------ MODULE OrderLifecycleProofs ------------------------
(***************************************************************************)
(* Theorems about OrderLifecycle, for every set of orders, variants, links *)
(* and handlers, every supply and every bound.                              *)
(***************************************************************************)
EXTENDS OrderLifecycle, FiniteSetTheorems, TLAPS

-----------------------------------------------------------------------------
(* The types of rows and handler slots, and of what the helpers do to them. *)

LEMMA NoRowType == NoRow \in Row /\ NoItems \in Items
BY ConstantsOK DEF NoRow, Row, Fulfilment, Methods, Items, NoItems, Stages

LEMMA IdleType == NoTable \in [Orders -> Row] /\ Idle \in Op
BY NoRowType DEF NoTable, Idle, Op, PCs

LEMMA HoldingType ==
    ASSUME NEW o \in Orders, NEW r \in Row
    PROVE  Holding(o, r) \in [Orders -> Row] /\ Holding(o, r)[o] = r
BY IdleType DEF Holding

LEMMA DueType ==
    ASSUME NEW r \in Row
    PROVE  Due(r) \in Nat
BY ConstantsOK DEF Due, Row

(* The units that are held are finitely many. *)
LEMMA UnitsFinite ==
    ASSUME NEW table, NEW v
    PROVE  /\ IsFiniteSet(Units(table, v))
           /\ Cardinality(Units(table, v)) \in Nat
<1>1. IsFiniteSet(Orders) /\ IsFiniteSet(1 .. MaxQty)
  BY ConstantsOK, FS_Interval
<1>2. IsFiniteSet(Orders \X (1 .. MaxQty))
  BY <1>1, FS_Product
<1>3. IsFiniteSet(Units(table, v))
  BY <1>2, FS_Subset DEF Units
<1> QED
  BY <1>3, FS_CardinalityType

(* An update by SetRow keeps the types of what it writes. *)
LEMMA SetRowType ==
    ASSUME TypeOK, NEW o \in Orders, NEW r \in Row, SetRow(o, r)
    PROVE  /\ row' \in [Orders -> Row]
           /\ opened' \in [Orders -> Nat]
           /\ everPaid' \subseteq Orders
BY DEF TypeOK, SetRow

(* A slot that is given a well-formed record keeps the slots well-typed. *)
LEMMA SlotType ==
    ASSUME HandlersTyped, NEW h \in Handlers, NEW r \in Op, WellFormed(r),
           op' = [op EXCEPT ![h] = r]
    PROVE  HandlersTyped'
BY DEF HandlersTyped

LEMMA DoneType ==
    ASSUME HandlersTyped, NEW h \in Handlers, Done(h)
    PROVE  HandlersTyped'
<1>1. WellFormed(Idle)
  BY DEF Idle, WellFormed
<1> QED
  BY <1>1, IdleType, SlotType DEF Done

LEMMA HandlerType ==
    ASSUME NEW pc \in PCs, NEW kind \in Kinds \cup {"pay", "stage", "expire"},
           NEW o \in Orders \cup {NoOrder}, NEW seen \in [Orders -> Row]
    PROVE  /\ Handler(pc, kind, o, seen) \in Op
           /\ Handler(pc, kind, o, seen).pc = pc
           /\ Handler(pc, kind, o, seen).kind = kind
           /\ Handler(pc, kind, o, seen).o = o
BY IdleType DEF Handler, Op

(* The steps that need nothing of their slot but the order. *)
FreeSteps == {"link", "clear", "progress", "expiry", "reply", "reread",
              "approve", "amend"}

LEMMA GotoType ==
    ASSUME HandlersTyped, NEW h \in Handlers, NEW pc \in FreeSteps,
           op[h].o \in Orders, Goto(h, pc)
    PROVE  HandlersTyped'
<1>1. op[h] \in Op /\ WellFormed(op[h])
  BY DEF HandlersTyped
<1> DEFINE r == [op[h] EXCEPT !.pc = pc]
<1>2. r \in Op /\ r.o = op[h].o /\ r.pc = pc /\ r.kind = op[h].kind
      /\ r.target = op[h].target
  BY <1>1 DEF Op, PCs, FreeSteps
<1>3. op' = [op EXCEPT ![h] = r]
  BY DEF Goto
<1> HIDE DEF r
<1>4. WellFormed(r)
  BY <1>1, <1>2 DEF WellFormed, FreeSteps
<1> QED
  BY <1>2, <1>3, <1>4, SlotType

LEMMA ContinueType ==
    ASSUME HandlersTyped, NEW h \in Handlers, NEW pc \in FreeSteps,
           op[h].o \in Orders, NEW r \in Row, Continue(h, pc, r)
    PROVE  HandlersTyped'
<1>1. op[h] \in Op /\ WellFormed(op[h])
  BY DEF HandlersTyped
<1> DEFINE s == [op[h] EXCEPT !.pc = pc, !.seen = Holding(op[h].o, r),
                              !.link = NoLink, !.want = NoItems]
<1>2. s \in Op /\ s.o = op[h].o /\ s.pc = pc /\ s.kind = op[h].kind
      /\ s.target = op[h].target
  BY <1>1, HoldingType, NoRowType DEF Op, PCs, FreeSteps
<1>3. op' = [op EXCEPT ![h] = s]
  BY DEF Continue
<1> HIDE DEF s
<1>4. WellFormed(s)
  BY <1>1, <1>2 DEF WellFormed, FreeSteps
<1> QED
  BY <1>2, <1>3, <1>4, SlotType

LEMMA ThenScheduleType ==
    ASSUME HandlersTyped, NEW h \in Handlers, op[h].o \in Orders,
           op[h].kind \in {"webhook", "pay", "stage"},
           NEW s \in Stages, ThenSchedule(h, s)
    PROVE  HandlersTyped'
<1> DEFINE base == Handler("schedule", op[h].kind, op[h].o, NoTable)
           r == [base EXCEPT !.target = s]
<1>1. "schedule" \in PCs /\ op[h].kind \in Kinds \cup {"pay", "stage", "expire"}
  BY DEF PCs, Kinds
<1>2. /\ base \in Op /\ base.pc = "schedule" /\ base.o = op[h].o
      /\ base.kind = op[h].kind
  BY <1>1, IdleType, HandlerType
<1>3. op' = [op EXCEPT ![h] = r]
  BY DEF ThenSchedule
<1> HIDE DEF base
<1>4. /\ r \in Op /\ r.pc = "schedule" /\ r.o = op[h].o /\ r.target = s
      /\ r.kind = op[h].kind
  BY <1>2 DEF Op, Fulfilment
<1> HIDE DEF r
<1>5. WellFormed(r)
  BY <1>4 DEF WellFormed
<1> QED
  BY <1>3, <1>4, <1>5, SlotType

-----------------------------------------------------------------------------
(* Every variable keeps its type.                                           *)

LEMMA InitType == Init => TypeOK
BY IdleType, SupplyOK
   DEF Init, TypeOK, HandlersTyped, WellFormed, NotCreated, Idle, Job

LEMMA StepType ==
    ASSUME TypeOK, NEW h \in Handlers, Step(h)
    PROVE  TypeOK'
<1> DEFINE o == op[h].o
<1>0. HandlersTyped /\ op[h] \in Op /\ row \in [Orders -> Row]
  BY DEF TypeOK, HandlersTyped
<1>a. ASSUME op[h].pc \notin {"idle", "reset"}
      PROVE  o \in Orders /\ row[o] \in Row /\ Seen(h) \in Row
  BY <1>0, <1>a DEF HandlersTyped, WellFormed, Seen, Op
<1>b. ASSUME MarkStale(h), o \in Orders
      PROVE  stale' \subseteq Orders
  BY <1>b DEF MarkStale, TypeOK
<1>c. ASSUME NEW j \in Job, Enqueue(j)
      PROVE  queue' \in [Job -> Nat]
  BY <1>c DEF Enqueue, TypeOK
<1>d. ASSUME NEW inv \in [Variants -> Int], NEW r \in Row
      PROVE  /\ Reserve(inv, r.items) \in [Variants -> Int]
             /\ Release(inv, r.items) \in [Variants -> Int]
  BY <1>d DEF Reserve, Release, Row, Items
<1>e. ASSUME NEW r \in Row, NEW f \in Fulfilment
      PROVE  FulfilledRow(r, f) \in Row
  BY DEF FulfilledRow, Row, OrderStatus
<1> HIDE DEF o
<1>1. CASE ApproveWrite(h)
  <2> DEFINE r == [row[o] EXCEPT !.status = "PENDING_PAYMENT"]
  <2>1. o \in Orders /\ row[o] \in Row
    BY <1>1, <1>a DEF ApproveWrite, At
  <2>2. r \in Row /\ AfterApproval(r) \in FreeSteps
    BY <2>1 DEF Row, OrderStatus, AfterApproval, FreeSteps
  <2>3. SetRow(o, r) /\ Continue(h, AfterApproval(r), r) /\ MarkStale(h)
    BY <1>1 DEF ApproveWrite, o
  <2> HIDE DEF r
  <2>4. HandlersTyped'
    BY <1>0, <2>1, <2>2, <2>3, ContinueType DEF o
  <2> QED
    BY <1>1, <1>b, <2>1, <2>2, <2>3, <2>4, SetRowType
       DEF ApproveWrite, TypeOK, bounds, o
<1>2. CASE AmendWrite(h)
  <2> DEFINE r == [row[o] EXCEPT !.items = op[h].want,
                     !.status = AmendedStatus(Seen(h), op[h].want)]
             inv == Release(inventory, Seen(h).items)
  <2>1. o \in Orders /\ row[o] \in Row /\ Seen(h) \in Row /\ Present(row[o])
        /\ op[h].want \in Items
    BY <1>0, <1>2, <1>a DEF AmendWrite, At, Op, o
  <2>2. AmendedStatus(Seen(h), op[h].want) \in OrderStatus \cup {"ABSENT", "DELETED"}
    BY <2>1 DEF Row, OrderStatus, AmendedStatus
  <2>3. r \in Row
    BY <2>1, <2>2 DEF Row
  <2>4. AfterAmendment(r) \in FreeSteps
    BY DEF AfterAmendment, FreeSteps
  <2>5. /\ SetRow(o, r) /\ Continue(h, AfterAmendment(r), r) /\ MarkStale(h)
        /\ inventory' = Reserve(inv, op[h].want)
    BY <1>2 DEF AmendWrite, o
  <2> HIDE DEF r
  <2>6. HandlersTyped'
    BY <1>0, <2>1, <2>3, <2>4, <2>5, ContinueType DEF o
  <2>7. inv \in [Variants -> Int]
    BY <1>d, <2>1 DEF TypeOK
  <2> HIDE DEF inv
  <2>8. inventory' \in [Variants -> Int]
    BY <2>1, <2>5, <2>7 DEF Reserve, Items
  <2> QED
    BY <1>2, <1>b, <2>1, <2>3, <2>5, <2>6, <2>8, SetRowType
       DEF AmendWrite, TypeOK, bounds, o
<1>3. CASE AmendRefused(h)
  BY <1>0, <1>3, DoneType DEF AmendRefused, TypeOK, bounds, history
<1>4. CASE AttachLink(h)
  <2> DEFINE r == [row[o] EXCEPT !.link = op[h].link]
             pc == IF op[h].kind = "amend" THEN "reply" ELSE "expiry"
  <2>1. o \in Orders /\ row[o] \in Row /\ op[h].link \in Links \cup {NoLink}
    BY <1>0, <1>4, <1>a DEF AttachLink, At, Op
  <2>2. r \in Row /\ pc \in FreeSteps
    BY <2>1 DEF Row, FreeSteps
  <2>3. SetRow(o, r) /\ Continue(h, pc, r)
    BY <1>4 DEF AttachLink, o
  <2> HIDE DEF r, pc
  <2>4. HandlersTyped'
    BY <1>0, <2>1, <2>2, <2>3, ContinueType DEF o
  <2> QED
    BY <1>4, <2>1, <2>2, <2>3, <2>4, SetRowType
       DEF AttachLink, TypeOK, bounds, o
<1>5. CASE RetryAttach(h)
  <2> DEFINE r == [row[o] EXCEPT !.link = op[h].link]
  <2>1. o \in Orders /\ row[o] \in Row /\ op[h].link \in Links \cup {NoLink}
    BY <1>0, <1>5, <1>a DEF RetryAttach, At, Op
  <2>2. r \in Row /\ {"reply", "reread"} \subseteq FreeSteps
    BY <2>1 DEF Row, FreeSteps
  <2>3. CASE AttachWhere(row[o])
    <3>1. SetRow(o, r) /\ Continue(h, "reply", r)
      BY <1>5, <2>3 DEF RetryAttach, o
    <3> HIDE DEF r
    <3>2. HandlersTyped'
      BY <1>0, <2>1, <2>2, <3>1, ContinueType DEF o
    <3> QED
      BY <1>5, <2>1, <2>2, <3>1, <3>2, SetRowType
         DEF RetryAttach, TypeOK, bounds, o
  <2>4. CASE ~AttachWhere(row[o])
    <3>1. Goto(h, "reread") /\ UNCHANGED <<row, opened, everPaid>>
      BY <1>5, <2>4 DEF RetryAttach, o
    <3>2. HandlersTyped'
      BY <1>0, <2>1, <2>2, <3>1, GotoType DEF o
    <3> QED
      BY <1>5, <3>1, <3>2 DEF RetryAttach, TypeOK, bounds
  <2> QED
    BY <2>3, <2>4
<1>6. CASE RetryReread(h)
  <2>1. o \in Orders /\ row[o] \in Row /\ "reply" \in FreeSteps
    BY <1>6, <1>a DEF RetryReread, At, FreeSteps
  <2>2. Continue(h, "reply", row[o]) \/ Done(h)
    BY <1>6 DEF RetryReread, o
  <2>3. HandlersTyped'
    BY <1>0, <2>1, <2>2, ContinueType, DoneType DEF o
  <2> QED
    BY <1>6, <2>3 DEF RetryReread, TypeOK, bounds, history
<1>7. CASE ClearLink(h)
  <2> DEFINE r == [row[o] EXCEPT !.link = NoLink]
  <2>1. o \in Orders /\ row[o] \in Row
    BY <1>7, <1>a DEF ClearLink, At
  <2>2. r \in Row /\ "reply" \in FreeSteps
    BY <2>1 DEF Row, FreeSteps
  <2>3. SetRow(o, r) /\ Continue(h, "reply", r)
    BY <1>7 DEF ClearLink, o
  <2> HIDE DEF r
  <2>4. HandlersTyped'
    BY <1>0, <2>1, <2>2, <2>3, ContinueType DEF o
  <2> QED
    BY <1>7, <2>1, <2>2, <2>3, <2>4, SetRowType
       DEF ClearLink, TypeOK, bounds, o
<1>8. CASE ScheduleProgress(h)
  <2>1. o \in Orders /\ "expiry" \in FreeSteps
    BY <1>8, <1>a DEF ScheduleProgress, At, FreeSteps
  <2>2. HandlersTyped'
    BY <1>0, <1>8, <2>1, GotoType DEF ScheduleProgress, o
  <2>3. PayJob(o) \in Job
    BY <2>1 DEF PayJob, Job
  <2>4. queue' \in [Job -> Nat]
    BY <1>8, <1>c, <2>3 DEF ScheduleProgress, o
  <2> QED
    BY <1>8, <2>2, <2>4 DEF ScheduleProgress, TypeOK, bounds, history
<1>9. CASE ScheduleExpiry(h)
  <2> DEFINE expected == IF op[h].kind = "approve" THEN "PENDING_PAYMENT"
                         ELSE Seen(h).status
  <2>1. o \in Orders /\ "reply" \in FreeSteps
    BY <1>9, <1>a DEF ScheduleExpiry, At, FreeSteps
  <2>2. HandlersTyped'
    BY <1>0, <1>9, <2>1, GotoType DEF ScheduleExpiry, o
  <2>3. queue' \in [Job -> Nat]
    <3>1. CASE expected \in Waiting
      <4>1. ExpireJob(o, expected) \in Job
        BY <2>1, <3>1 DEF ExpireJob, Job
      <4>2. Enqueue(ExpireJob(o, expected))
        BY <1>9, <3>1 DEF ScheduleExpiry, Expires, o
      <4> HIDE DEF expected
      <4> QED
        BY <1>c, <4>1, <4>2
    <3>2. CASE expected \notin Waiting
      BY <1>9, <3>2 DEF ScheduleExpiry, Expires, TypeOK
    <3> QED
      BY <3>1, <3>2
  <2> QED
    BY <1>9, <2>2, <2>3 DEF ScheduleExpiry, TypeOK, bounds, history
<1>10. CASE Reply(h)
  <2>1. o \in Orders /\ row[o] \in Row /\ Seen(h) \in Row
    BY <1>10, <1>a DEF Reply, At
  <2>2. Due(row[o]) \in Nat /\ Seen(h).link \in Links \cup {NoLink}
    BY <2>1, DueType DEF Row
  <2>3. offered' \in [Orders -> SUBSET [link : Links, due : Nat]]
    BY <1>10, <2>1, <2>2 DEF Reply, TypeOK, o
  <2> QED
    BY <1>0, <1>10, <2>3, DoneType DEF Reply, TypeOK, bounds, history
<1>11. CASE StatusWrite(h)
  <2> DEFINE r == [row[o] EXCEPT !.status = op[h].target]
  <2>1. o \in Orders /\ row[o] \in Row /\ Seen(h) \in Row
    BY <1>11, <1>a DEF StatusWrite, At
  <2>2. op[h].target \in OrderStatus
    BY <1>0, <1>11 DEF StatusWrite, At, HandlersTyped, WellFormed
  <2>3. r \in Row
    BY <2>1, <2>2 DEF Row
  <2>4. SetRow(o, r) /\ MarkStale(h)
    BY <1>11 DEF StatusWrite, o
  <2>5. inventory' \in [Variants -> Int]
    BY <1>11, <1>d, <2>1 DEF StatusWrite, TypeOK
  <2>6. HandlersTyped'
    BY <1>0, <1>11, DoneType DEF StatusWrite
  <2> HIDE DEF r
  <2> QED
    BY <1>11, <1>b, <2>1, <2>3, <2>4, <2>5, <2>6, SetRowType
       DEF StatusWrite, TypeOK, bounds, o
<1>12. CASE FulfilWrite(h)
  <2>1. o \in Orders /\ row[o] \in Row
    BY <1>12, <1>a DEF FulfilWrite, At
  <2>2. op[h].target \in Fulfilment
    BY <1>0, <1>12 DEF FulfilWrite, At, HandlersTyped, WellFormed
  <2>3. FulfilledRow(row[o], op[h].target) \in Row
    BY <1>e, <2>1, <2>2
  <2>4. HandlersTyped'
    BY <1>0, <1>12, DoneType DEF FulfilWrite
  <2> QED
    BY <1>12, <1>b, <2>1, <2>3, <2>4, SetRowType
       DEF FulfilWrite, TypeOK, bounds, o
<1>13. CASE ResetWrite(h)
  <2>1. inventory' \in [Variants -> Int]
    BY <1>13, UnitsFinite DEF ResetWrite, TypeOK
  <2>2. row' \in [Orders -> Row]
    BY <1>0, <1>13 DEF ResetWrite, Row
  <2>3. stale' \subseteq Orders
    BY <1>13 DEF ResetWrite, TypeOK
  <2> QED
    BY <1>0, <1>13, <2>1, <2>2, <2>3, DoneType
       DEF ResetWrite, TypeOK, bounds
<1>14. CASE WebhookRead(h)
  <2> DEFINE r == [op[h] EXCEPT !.pc = "confirm", !.seen = Snapshot(o)]
  <2>1. o \in Orders /\ row[o] \in Row
    BY <1>14, <1>a DEF WebhookRead, At
  <2>2. op[h].link \in Links /\ op[h].kind = "webhook"
    BY <1>0, <1>14 DEF WebhookRead, At, HandlersTyped, WellFormed
  <2>3. Snapshot(o) \in [Orders -> Row]
    BY <2>1, HoldingType DEF Snapshot
  <2>4. r \in Op /\ r.pc = "confirm" /\ r.o = o /\ r.link = op[h].link
        /\ r.kind = op[h].kind
    BY <1>0, <2>3 DEF Op, PCs, o
  <2>5. op' = [op EXCEPT ![h] = r] \/ Done(h)
    BY <1>14 DEF WebhookRead, o
  <2> HIDE DEF r
  <2>6. WellFormed(r)
    BY <2>1, <2>2, <2>4 DEF WellFormed
  <2>7. HandlersTyped'
    BY <1>0, <2>4, <2>5, <2>6, SlotType, DoneType
  <2> QED
    BY <1>14, <2>7 DEF WebhookRead, TypeOK, bounds, history
<1>15. CASE WebhookConfirm(h)
  <2> DEFINE r == [row[o] EXCEPT !.status = "PAID", !.payment = op[h].link]
  <2>1. o \in Orders /\ row[o] \in Row
    BY <1>15, <1>a DEF WebhookConfirm, At
  <2>2. op[h].link \in Links /\ op[h].kind = "webhook"
    BY <1>0, <1>15 DEF WebhookConfirm, At, HandlersTyped, WellFormed
  <2>3. r \in Row
    BY <2>1, <2>2 DEF Row, OrderStatus
  <2>4. CASE ConfirmWhere(row[o], Seen(h))
    <3>1. /\ SetRow(o, r) /\ ThenSchedule(h, "PACKED")
          /\ confirmed' = [confirmed EXCEPT ![o] = @ + 1]
      BY <1>15, <2>4 DEF WebhookConfirm, o
    <3> HIDE DEF r
    <3>2. HandlersTyped'
      BY <1>0, <2>1, <2>2, <3>1, ThenScheduleType DEF Stages, o
    <3> QED
      BY <1>15, <2>1, <2>3, <3>1, <3>2, SetRowType
         DEF WebhookConfirm, TypeOK, bounds
  <2>5. CASE ~ConfirmWhere(row[o], Seen(h))
    <3>1. Done(h) /\ UNCHANGED <<row, opened, everPaid, confirmed>>
      BY <1>15, <2>5 DEF WebhookConfirm, o
    <3> QED
      BY <1>0, <1>15, <3>1, DoneType DEF WebhookConfirm, TypeOK, bounds
  <2> QED
    BY <2>4, <2>5
<1>16. CASE ScheduleStage(h)
  <2>1. o \in Orders
    BY <1>16, <1>a DEF ScheduleStage, At
  <2>2. op[h].target \in Stages
    BY <1>0, <1>16 DEF ScheduleStage, At, HandlersTyped, WellFormed
  <2>3. StageJob(o, op[h].target) \in Job
    BY <2>1, <2>2 DEF StageJob, Job
  <2>4. queue' \in [Job -> Nat]
    BY <1>16, <1>c, <2>3 DEF ScheduleStage, o
  <2> QED
    BY <1>0, <1>16, <2>4, DoneType DEF ScheduleStage, TypeOK, bounds, history
<1>17. CASE PayWrite(h)
  <2> DEFINE r == [row[o] EXCEPT !.status = "PAID"]
  <2>1. o \in Orders /\ row[o] \in Row
    BY <1>17, <1>a DEF PayWrite, At
  <2>2. op[h].kind = "pay"
    BY <1>0, <1>17 DEF PayWrite, At, HandlersTyped, WellFormed
  <2>3. r \in Row
    BY <2>1 DEF Row, OrderStatus
  <2>4. SetRow(o, r) /\ ThenSchedule(h, "PACKED") /\ MarkStale(h)
    BY <1>17 DEF PayWrite, o
  <2> HIDE DEF r
  <2>5. HandlersTyped'
    BY <1>0, <2>1, <2>2, <2>4, ThenScheduleType DEF Stages, o
  <2> QED
    BY <1>17, <1>b, <2>1, <2>3, <2>4, <2>5, SetRowType
       DEF PayWrite, TypeOK, bounds
<1>18. CASE StageWrite(h)
  <2> DEFINE s == op[h].target
  <2>1. o \in Orders /\ row[o] \in Row
    BY <1>18, <1>a DEF StageWrite, At
  <2>2. s \in Stages /\ op[h].kind = "stage"
    BY <1>0, <1>18 DEF StageWrite, At, HandlersTyped, WellFormed
  <2>3. FulfilledRow(row[o], s) \in Row
    BY <1>e, <2>1, <2>2 DEF Fulfilment
  <2>4. /\ SetRow(o, FulfilledRow(row[o], s)) /\ MarkStale(h)
        /\ \/ Done(h)
           \/ NextStage(s) # "none" /\ ThenSchedule(h, NextStage(s))
    BY <1>18 DEF StageWrite, o
  <2>5. NextStage(s) = "none" \/ NextStage(s) \in Stages
    BY <2>2 DEF NextStage, Stages
  <2>6. HandlersTyped'
    BY <1>0, <2>1, <2>2, <2>4, <2>5, ThenScheduleType, DoneType DEF o
  <2> QED
    BY <1>18, <1>b, <2>1, <2>3, <2>4, <2>6, SetRowType
       DEF StageWrite, TypeOK, bounds
<1>19. CASE ExpireWrite(h)
  <2> DEFINE r == [row[o] EXCEPT !.status = "CANCELLED"]
  <2>1. o \in Orders /\ row[o] \in Row /\ Seen(h) \in Row
    BY <1>19, <1>a DEF ExpireWrite, At
  <2>2. r \in Row
    BY <2>1 DEF Row, OrderStatus
  <2>3. SetRow(o, r) /\ MarkStale(h)
    BY <1>19 DEF ExpireWrite, o
  <2>4. inventory' \in [Variants -> Int]
    BY <1>19, <1>d, <2>1 DEF ExpireWrite, TypeOK
  <2>5. HandlersTyped'
    BY <1>0, <1>19, DoneType DEF ExpireWrite
  <2> HIDE DEF r
  <2> QED
    BY <1>19, <1>b, <2>1, <2>2, <2>3, <2>4, <2>5, SetRowType
       DEF ExpireWrite, TypeOK, bounds
<1>20. CASE RowGone(h)
  BY <1>0, <1>20, DoneType DEF RowGone, TypeOK, bounds, history
<1>21. CASE LinkRefused(h)
  <2> DEFINE pc == IF op[h].kind = "amend" THEN "clear" ELSE "expiry"
             r == [op[h] EXCEPT !.failed = TRUE, !.pc = pc]
  <2>1. o \in Orders /\ WellFormed(op[h])
    BY <1>0, <1>21, <1>a DEF LinkRefused, At, HandlersTyped
  <2>2. op' = [op EXCEPT ![h] = r] \/ Done(h)
    BY <1>21 DEF LinkRefused
  <2>3. pc \in {"clear", "expiry"}
    OBVIOUS
  <2> HIDE DEF pc
  <2>4. r \in Op /\ r.o = o /\ r.pc \in {"clear", "expiry"}
        /\ r.kind = op[h].kind /\ r.target = op[h].target
    BY <1>0, <2>3 DEF Op, PCs, o
  <2> HIDE DEF r
  <2>5. WellFormed(r)
    BY <2>1, <2>4 DEF WellFormed
  <2>6. HandlersTyped'
    BY <1>0, <2>2, <2>4, <2>5, SlotType, DoneType
  <2> QED
    BY <1>21, <2>6 DEF LinkRefused, TypeOK, bounds, history
<1>22. CASE LinkNotConfigured(h)
  <2>1. o \in Orders /\ {"reply", "progress", "expiry"} \subseteq FreeSteps
    BY <1>22, <1>a DEF LinkNotConfigured, At, FreeSteps
  <2>2. Done(h) \/ \E pc \in {"reply", "progress", "expiry"} : Goto(h, pc)
    BY <1>22 DEF LinkNotConfigured
  <2>3. HandlersTyped'
    BY <1>0, <2>1, <2>2, GotoType, DoneType DEF o
  <2> QED
    BY <1>22, <2>3 DEF LinkNotConfigured, TypeOK, bounds, history
<1>23. ASSUME NEW l \in Links, LinkCreated(h, l)
       PROVE  TypeOK'
  <2> DEFINE r == [op[h] EXCEPT !.pc = "attach", !.link = l]
  <2>1. o \in Orders /\ Seen(h) \in Row /\ WellFormed(op[h])
    BY <1>0, <1>23, <1>a DEF LinkCreated, At, HandlersTyped
  <2>2. r \in Op /\ r.o = o /\ r.pc = "attach" /\ r.link = l
        /\ r.kind = op[h].kind /\ r.target = op[h].target
    BY <1>0 DEF Op, PCs, o
  <2>3. op' = [op EXCEPT ![h] = r]
    BY <1>23 DEF LinkCreated
  <2> HIDE DEF r
  <2>4. WellFormed(r)
    BY <2>1, <2>2 DEF WellFormed
  <2>5. HandlersTyped'
    BY <1>0, <2>2, <2>3, <2>4, SlotType
  <2>6. Due(Seen(h)) \in Nat
    BY <2>1, DueType
  <2> QED
    BY <1>23, <2>1, <2>5, <2>6 DEF LinkCreated, TypeOK, bounds, history, o
<1> QED
  BY <1>1, <1>2, <1>3, <1>4, <1>5, <1>6, <1>7, <1>8, <1>9, <1>10, <1>11,
     <1>12, <1>13, <1>14, <1>15, <1>16, <1>17, <1>18, <1>19, <1>20, <1>21,
     <1>22, <1>23 DEF Step

(* A handler that starts on order o with the row it has just read. *)
LEMMA StartType ==
    ASSUME TypeOK, NEW h \in Handlers, NEW o \in Orders, NEW r \in Row,
           NEW pc \in FreeSteps, NEW kind \in Kinds \ {"webhook"},
           Begin(h, Handler(pc, kind, o, Holding(o, r)))
    PROVE  HandlersTyped'
<1> DEFINE s == Handler(pc, kind, o, Holding(o, r))
<1>1. pc \in PCs /\ kind \notin {"pay", "stage", "expire"}
  BY DEF FreeSteps, PCs, Kinds
<1>2. s \in Op /\ s.pc = pc /\ s.kind = kind /\ s.o = o
  BY <1>1, HoldingType, HandlerType
<1>3. op' = [op EXCEPT ![h] = s]
  BY DEF Begin
<1> HIDE DEF s
<1>4. WellFormed(s)
  BY <1>1, <1>2 DEF WellFormed, FreeSteps
<1> QED
  BY <1>2, <1>3, <1>4, SlotType DEF TypeOK

LEMMA ArriveType ==
    ASSUME TypeOK, NEW h \in Handlers, Arrive(h)
    PROVE  TypeOK'
<1>0. HandlersTyped /\ row \in [Orders -> Row]
  BY DEF TypeOK
<1>a. ASSUME NEW k, Request(k)
      PROVE  used' \in Nat /\ crashes' = crashes
  BY <1>a DEF Request, TypeOK
<1>1. CASE ResetRead(h)
  <2> DEFINE s == Handler("reset", "reset", NoOrder, row)
  <2>1. /\ "reset" \in PCs /\ "reset" \in Kinds \cup {"pay", "stage", "expire"}
        /\ NoOrder \in Orders \cup {NoOrder}
    BY DEF PCs, Kinds
  <2>2. s \in Op /\ s.pc = "reset" /\ s.kind = "reset"
    <3>1. row \in [Orders -> Row]
      BY <1>0
    <3> QED
      BY <2>1, <3>1, HandlerType, SMTT(30)
  <2>3. op' = [op EXCEPT ![h] = s]
    BY <1>1 DEF ResetRead, Begin
  <2> HIDE DEF s
  <2>4. WellFormed(s)
    BY <2>2 DEF WellFormed
  <2>5. HandlersTyped'
    BY <1>0, <2>2, <2>3, <2>4, SlotType
  <2> QED
    BY <1>1, <1>a, <2>5 DEF ResetRead, TypeOK, history
<1>2. ASSUME NEW o \in Orders, CreateTx(h, o)
      PROVE  TypeOK'
  <2>1. PICK items \in Items, method \in Methods :
          /\ inventory' = Reserve(inventory, items)
          /\ SetRow(o, NewRow(method, items))
          /\ Begin(h, Handler(AfterInsert(NewRow(method, items)), "create", o,
                              Holding(o, NewRow(method, items))))
    BY <1>2 DEF CreateTx
  <2>2. NewRow(method, items) \in Row
    <3>1. InitialStatus(method, items) \in OrderStatus
      BY DEF InitialStatus, OrderStatus
    <3> QED
      BY <3>1, NoRowType DEF NewRow, Row
  <2>3. inventory' \in [Variants -> Int]
    BY <2>1 DEF Reserve, TypeOK, Items
  <2>4. /\ AfterInsert(NewRow(method, items)) \in FreeSteps
        /\ "create" \in Kinds \ {"webhook"}
    BY DEF AfterInsert, FreeSteps, Kinds
  <2>5. HandlersTyped'
    BY <2>1, <2>2, <2>4, StartType
  <2> QED
    BY <1>2, <1>a, <2>1, <2>2, <2>3, <2>5, SetRowType DEF CreateTx, TypeOK
<1>3. ASSUME NEW o \in Orders, ApproveRead(h, o)
      PROVE  TypeOK'
  <2>1. "approve" \in FreeSteps /\ "approve" \in Kinds \ {"webhook"}
    BY DEF FreeSteps, Kinds
  <2>2. HandlersTyped'
    BY <1>0, <1>3, <2>1, StartType DEF ApproveRead, Snapshot
  <2> QED
    BY <1>3, <1>a, <2>2 DEF ApproveRead, TypeOK, history
<1>4. ASSUME NEW o \in Orders, AmendRead(h, o)
      PROVE  TypeOK'
  <2>1. PICK items \in Items :
          op' = [op EXCEPT ![h] = [Handler("amend", "amend", o, Snapshot(o))
                                     EXCEPT !.want = items]]
    BY <1>4 DEF AmendRead, Begin
  <2> DEFINE base == Handler("amend", "amend", o, Snapshot(o))
             s == [base EXCEPT !.want = items]
  <2>2. "amend" \in PCs /\ "amend" \in Kinds
    BY DEF PCs, Kinds
  <2>3. base \in Op /\ base.pc = "amend" /\ base.kind = "amend" /\ base.o = o
    BY <1>0, <2>2, HoldingType, HandlerType DEF Snapshot
  <2>4. op' = [op EXCEPT ![h] = s]
    BY <2>1
  <2> HIDE DEF base
  <2>5. /\ s \in Op /\ s.pc = "amend" /\ s.kind = "amend" /\ s.o = o
    BY <2>3 DEF Op
  <2> HIDE DEF s
  <2>6. WellFormed(s)
    BY <2>5 DEF WellFormed
  <2>7. HandlersTyped'
    BY <1>0, <2>4, <2>5, <2>6, SlotType
  <2> QED
    BY <1>4, <1>a, <2>7 DEF AmendRead, TypeOK, history
<1>5. ASSUME NEW o \in Orders, RetryRead(h, o)
      PROVE  TypeOK'
  <2>1. {"link", "reply"} \subseteq FreeSteps /\ "retry" \in Kinds \ {"webhook"}
    BY DEF FreeSteps, Kinds
  <2>2. HandlersTyped'
    BY <1>0, <1>5, <2>1, StartType DEF RetryRead, Snapshot
  <2> QED
    BY <1>5, <1>a, <2>2 DEF RetryRead, TypeOK, history
<1>6. ASSUME NEW o \in Orders, StatusRead(h, o)
      PROVE  TypeOK'
  <2>1. PICK target \in OrderStatus :
          op' = [op EXCEPT ![h] = [Handler("status", "status", o, Snapshot(o))
                                     EXCEPT !.target = target]]
    BY <1>6 DEF StatusRead, Begin
  <2> DEFINE base == Handler("status", "status", o, Snapshot(o))
             s == [base EXCEPT !.target = target]
  <2>2. "status" \in PCs /\ "status" \in Kinds
    BY DEF PCs, Kinds
  <2>3. base \in Op /\ base.pc = "status" /\ base.kind = "status" /\ base.o = o
    BY <1>0, <2>2, HoldingType, HandlerType DEF Snapshot
  <2>4. op' = [op EXCEPT ![h] = s]
    BY <2>1
  <2> HIDE DEF base
  <2>5. /\ s \in Op /\ s.pc = "status" /\ s.kind = "status" /\ s.o = o
        /\ s.target = target
    BY <2>3 DEF Op
  <2> HIDE DEF s
  <2>6. WellFormed(s)
    BY <2>5 DEF WellFormed
  <2>7. HandlersTyped'
    BY <1>0, <2>4, <2>5, <2>6, SlotType
  <2> QED
    BY <1>6, <1>a, <2>7 DEF StatusRead, TypeOK, history
<1>7. ASSUME NEW o \in Orders, FulfilRead(h, o)
      PROVE  TypeOK'
  <2>1. PICK target \in Fulfilment :
          op' = [op EXCEPT ![h] = [Handler("fulfil", "fulfil", o, Snapshot(o))
                                     EXCEPT !.target = target]]
    BY <1>7 DEF FulfilRead, Begin
  <2> DEFINE base == Handler("fulfil", "fulfil", o, Snapshot(o))
             s == [base EXCEPT !.target = target]
  <2>2. "fulfil" \in PCs /\ "fulfil" \in Kinds
    BY DEF PCs, Kinds
  <2>3. base \in Op /\ base.pc = "fulfil" /\ base.kind = "fulfil" /\ base.o = o
    BY <1>0, <2>2, HoldingType, HandlerType DEF Snapshot
  <2>4. op' = [op EXCEPT ![h] = s]
    BY <2>1
  <2> HIDE DEF base
  <2>5. /\ s \in Op /\ s.pc = "fulfil" /\ s.kind = "fulfil" /\ s.o = o
        /\ s.target = target
    BY <2>3 DEF Op
  <2> HIDE DEF s
  <2>6. WellFormed(s)
    BY <2>5 DEF WellFormed
  <2>7. HandlersTyped'
    BY <1>0, <2>4, <2>5, <2>6, SlotType
  <2> QED
    BY <1>7, <1>a, <2>7 DEF FulfilRead, TypeOK, history
<1>8. ASSUME NEW o \in Orders, NEW l \in Links, WebhookLookup(h, o, l)
      PROVE  TypeOK'
  <2> DEFINE base == Handler("read_paid", "webhook", o, NoTable)
             s == [base EXCEPT !.link = l]
  <2>1. op' = [op EXCEPT ![h] = s]
    BY <1>8 DEF WebhookLookup, Begin
  <2>2. "read_paid" \in PCs /\ "webhook" \in Kinds
    BY DEF PCs, Kinds
  <2>3. /\ base \in Op /\ base.pc = "read_paid" /\ base.kind = "webhook"
        /\ base.o = o
    BY <2>2, IdleType, HandlerType
  <2> HIDE DEF base
  <2>4. /\ s \in Op /\ s.pc = "read_paid" /\ s.kind = "webhook" /\ s.o = o
        /\ s.link = l
    BY <2>3 DEF Op
  <2> HIDE DEF s
  <2>5. WellFormed(s)
    BY <2>4 DEF WellFormed
  <2>6. HandlersTyped'
    BY <1>0, <2>1, <2>4, <2>5, SlotType
  <2> QED
    BY <1>8, <1>a, <2>6 DEF WebhookLookup, TypeOK, history
<1> QED
  BY <1>1, <1>2, <1>3, <1>4, <1>5, <1>6, <1>7, <1>8 DEF Arrive

(* The slot of a job that has just read its order. *)
JobHandler(j) == [Handler(j.kind, j.kind, j.o, Snapshot(j.o))
                    EXCEPT !.target = j.target]

LEMMA JobHandlerType ==
    ASSUME row \in [Orders -> Row], NEW j \in Job
    PROVE  JobHandler(j) \in Op /\ WellFormed(JobHandler(j))
<1> DEFINE k == j.kind
           o == j.o
           base == Handler(k, k, o, Snapshot(o))
           s == [base EXCEPT !.target = j.target]
<1>1. /\ k \in {"pay", "stage", "expire"} /\ o \in Orders
      /\ k = "stage" => j.target \in Stages
      /\ k = "expire" => j.target \in Waiting
      /\ j.target \in OrderStatus \cup Fulfilment \cup {"none"}
  <2>1. CASE j \in [kind : {"pay"}, o : Orders, target : {"PAID"}]
    BY <2>1 DEF OrderStatus
  <2>2. CASE j \in [kind : {"stage"}, o : Orders, target : Stages]
    BY <2>2 DEF Fulfilment
  <2>3. CASE j \in [kind : {"expire"}, o : Orders, target : Waiting]
    BY <2>3 DEF Waiting, OrderStatus
  <2> QED
    BY <2>1, <2>2, <2>3 DEF Job
<1>2. s = JobHandler(j)
  BY DEF JobHandler
<1> HIDE DEF k, o
<1>3. Snapshot(o) \in [Orders -> Row]
  BY <1>1, HoldingType DEF Snapshot
<1>4. k \in PCs /\ k \in Kinds \cup {"pay", "stage", "expire"}
  BY <1>1 DEF PCs
<1>5. base \in Op /\ base.pc = k /\ base.kind = k /\ base.o = o
  BY <1>1, <1>3, <1>4, HandlerType
<1> HIDE DEF base
<1>6. s \in Op /\ s.pc = k /\ s.kind = k /\ s.o = o /\ s.target = j.target
  BY <1>1, <1>5 DEF Op
<1> HIDE DEF s
<1>7. WellFormed(s)
  BY <1>1, <1>6 DEF WellFormed
<1> QED
  BY <1>2, <1>6, <1>7

LEMMA RunJobType ==
    ASSUME TypeOK, NEW h \in Handlers, NEW j \in Job, RunJob(h, j)
    PROVE  TypeOK'
<1>1. queue' \in [Job -> Nat]
  <2>1. queue[j] > 0 /\ queue' = [queue EXCEPT ![j] = @ - 1]
    BY DEF RunJob, JobRead, JobSkips, TakeJob
  <2>2. queue[j] \in Nat /\ queue[j] - 1 \in Nat
    BY <2>1 DEF TypeOK
  <2> QED
    BY <2>1, <2>2 DEF TypeOK
<1>2. CASE JobRead(h, j)
  <2>1. op' = [op EXCEPT ![h] = JobHandler(j)]
    BY <1>2 DEF JobRead, Begin, JobHandler
  <2>2. HandlersTyped'
    BY <2>1, JobHandlerType, SlotType DEF TypeOK
  <2> QED
    BY <1>1, <1>2, <2>2 DEF JobRead, TypeOK, bounds, history
<1>3. CASE JobSkips(h, j)
  BY <1>1, <1>3 DEF JobSkips, TypeOK, HandlersTyped, bounds, history
<1> QED
  BY <1>2, <1>3 DEF RunJob

LEMMA CrashType ==
    ASSUME TypeOK, NEW h \in Handlers, Crash(h)
    PROVE  TypeOK'
<1>1. HandlersTyped'
  BY DoneType DEF Crash, TypeOK
<1>2. queue' \in [Job -> Nat]
  <2>1. CASE UNCHANGED queue
    BY <2>1 DEF TypeOK
  <2>2. CASE \E j \in Retried(h) : Enqueue(j)
    <3>1. PICK j \in Retried(h) : Enqueue(j)
      BY <2>2
    <3>2. op[h] \in Op /\ WellFormed(op[h])
      BY DEF TypeOK, HandlersTyped
    <3>3. op[h].kind \in {"pay", "stage", "expire"}
      BY <3>1 DEF Retried
    <3>4. op[h].o \in Orders
      BY <3>2, <3>3 DEF WellFormed, Idle
    <3>5. j \in Job
      <4>1. CASE op[h].kind = "pay"
        BY <3>1, <3>4, <4>1 DEF Retried, PayJob, Job
      <4>2. CASE op[h].kind = "expire"
        <5>1. op[h].target \in Waiting
          BY <3>2, <4>2 DEF WellFormed
        <5> QED
          BY <3>1, <3>4, <4>2, <5>1 DEF Retried, ExpireJob, Job
      <4>3. CASE op[h].kind = "stage"
        <5>1. PICK s \in Stages : j = StageJob(op[h].o, s)
          BY <3>1, <4>3 DEF Retried
        <5> QED
          BY <3>4, <5>1 DEF StageJob, Job
      <4> QED
        BY <3>3, <4>1, <4>2, <4>3
    <3> QED
      BY <3>1, <3>5 DEF Enqueue, TypeOK
  <2> QED
    BY <2>1, <2>2 DEF Crash
<1> QED
  BY <1>1, <1>2 DEF Crash, TypeOK, history

(* Every variable keeps its type whatever requests, jobs, payments and      *)
(* crashes interleave: in particular a handler always knows its order, and  *)
(* the queue only ever holds jobs the worker understands.                   *)
THEOREM TypeCorrect == Spec => []TypeOK
<1>1. TypeOK /\ [Next]_vars => TypeOK'
  <2> SUFFICES ASSUME TypeOK, [Next]_vars
               PROVE  TypeOK'
    OBVIOUS
  <2>1. ASSUME NEW h \in Handlers, Arrive(h) \/ Step(h) \/ Crash(h)
        PROVE  TypeOK'
    BY <2>1, ArriveType, StepType, CrashType
  <2>2. ASSUME NEW h \in Handlers, NEW j \in Job, RunJob(h, j)
        PROVE  TypeOK'
    BY <2>2, RunJobType
  <2>3. ASSUME NEW l \in Links, CustomerPays(l)
        PROVE  TypeOK'
    BY <2>3 DEF CustomerPays, TypeOK, HandlersTyped, bounds, history
  <2>4. CASE UNCHANGED vars
    BY <2>4 DEF vars, TypeOK, HandlersTyped, bounds, history
  <2> QED
    BY <2>1, <2>2, <2>3, <2>4 DEF Next
<1> QED
  BY <1>1, InitType, PTL DEF Spec
=============================================================================
