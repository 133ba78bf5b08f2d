--------------------------- MODULE AccountsProofs ---------------------------
(***************************************************************************)
(* What keeps a business's account, proved for any number of dashboard     *)
(* tabs, webhook deliveries, redirects, businesses, users, admins and      *)
(* executors, and for every bound: the subscription, the Razorpay          *)
(* connection, the erasure of a customer's data and the connections that   *)
(* Meta may ask to break.                                                  *)
(***************************************************************************)
EXTENDS MCAccounts, FiniteSetTheorems, TLAPS

(***************************************************************************)
(* The subscription.                                                       *)
(***************************************************************************)
BillingRow == [pid : 0..MaxSubs, status : Statuses, trialEnd : Dates,
               periodEnd : Dates, atEnd : BOOLEAN]
BillingEvent == [pid : 0..MaxSubs, type : EventTypes]
TabSlot == [pc : {"idle", "plan", "create", "save", "cancel", "resume"}, pid : 0..MaxSubs]
HookSlot == [pc : {"idle", "insert", "apply", "mark"}, event : 0..MaxEvents, hit : BOOLEAN]
SweepSlot == [pc : {"idle", "cancel", "save", "trials"}, pid : 0..MaxSubs]

LEMMA BillingIdle ==
  /\ IdleTab \in TabSlot /\ IdleHook \in HookSlot /\ IdleSweep \in SweepSlot
  /\ NoRow \in BillingRow
BY BillingAssumption
   DEF IdleTab, IdleHook, IdleSweep, NoRow, TabSlot, HookSlot, SweepSlot, BillingRow,
       Statuses, Dates

LEMMA BillingTypeInit == BillingInit => BillingTypeOK
<1> SUFFICES ASSUME BillingInit PROVE BillingTypeOK
  OBVIOUS
<1>1. plan \in [trial : BOOLEAN, onRazorpay : BOOLEAN]
  BY DEF BillingInit
<1>2. events \in [EventIds -> BillingEvent]
  BY BillingAssumption DEF BillingInit, BillingEvent, EventTypes
<1> QED
  BY <1>1, <1>2, BillingIdle
     DEF BillingInit, BillingTypeOK, BillingRow, BillingEvent, TabSlot, HookSlot, SweepSlot

\* a webhook request that is under way has an event
DeliversAnEvent == \A d \in Deliveries : hook[d].pc # "idle" => hook[d].event \in EventIds

LEMMA DeliversStep ==
  ASSUME BillingTypeOK, DeliversAnEvent, [BillingNext]_billingVars PROVE DeliversAnEvent'
<1>1. hook \in [Deliveries -> HookSlot]
  BY DEF BillingTypeOK, HookSlot
<1>2. CASE hook' = hook
  BY <1>2 DEF DeliversAnEvent
<1>3. ASSUME NEW d \in Deliveries, Ingest(d) \/ HookCrash(d) PROVE DeliversAnEvent'
  BY <1>1, <1>3
     DEF DeliversAnEvent, HookSlot, IdleHook, Ingest, IngestLookup, IngestInsert, IngestApply,
         MarkProcessed, HookCrash
<1> QED
  BY <1>2, <1>3
     DEF BillingNext, billingVars, Dashboard, CheckoutRead, EnsureRazorpayPlanId,
         CreateSubscription, SaveSubscription, CancelRead, ResumeRead, WriteFlag, TabFails,
         RazorpayEmits, Sweep, SweepRead, SweepCancel, SweepSave, SweepTrials, TimePasses

LEMMA BillingTypeStep ==
  ASSUME BillingTypeOK, DeliversAnEvent, [BillingNext]_billingVars PROVE BillingTypeOK'
<1> USE BillingAssumption
<1>0. /\ plan \in [trial : BOOLEAN, onRazorpay : BOOLEAN]
      /\ row \in BillingRow /\ rz \in [Subs -> {"none", "live", "cancelled"}]
      /\ events \in [EventIds -> BillingEvent]
      /\ ledger \in [EventIds -> {"absent", "recorded", "processed"}]
      /\ applied \in [EventIds -> Nat] /\ tab \in [Tabs -> TabSlot]
      /\ hook \in [Deliveries -> HookSlot] /\ sweep \in SweepSlot
  BY DEF BillingTypeOK, BillingRow, BillingEvent, TabSlot, HookSlot, SweepSlot
<1> DEFINE Typed ==
      /\ plan' \in [trial : BOOLEAN, onRazorpay : BOOLEAN]
      /\ row' \in BillingRow /\ rz' \in [Subs -> {"none", "live", "cancelled"}]
      /\ events' \in [EventIds -> BillingEvent]
      /\ ledger' \in [EventIds -> {"absent", "recorded", "processed"}]
      /\ applied' \in [EventIds -> Nat] /\ tab' \in [Tabs -> TabSlot]
      /\ hook' \in [Deliveries -> HookSlot] /\ sweep' \in SweepSlot
<1>1. ASSUME NEW t \in Tabs, CheckoutRead(t) PROVE Typed
  BY <1>0, <1>1 DEF CheckoutRead, TabSlot
<1>2. ASSUME NEW t \in Tabs, EnsureRazorpayPlanId(t) PROVE Typed
  BY <1>0, <1>2 DEF EnsureRazorpayPlanId, TabSlot
<1>3. ASSUME NEW t \in Tabs, CreateSubscription(t) PROVE Typed
  BY <1>0, <1>3 DEF CreateSubscription, TabSlot, Subs
<1>4. ASSUME NEW t \in Tabs, SaveSubscription(t) PROVE Typed
  BY <1>0, <1>4, BillingIdle DEF SaveSubscription, TabSlot, BillingRow, Statuses, Dates
<1>5. ASSUME NEW t \in Tabs, CancelRead(t) \/ ResumeRead(t) PROVE Typed
  BY <1>0, <1>5 DEF CancelRead, ResumeRead, TabSlot
<1>6. ASSUME NEW t \in Tabs, WriteFlag(t) PROVE Typed
  BY <1>0, <1>6, BillingIdle DEF WriteFlag, BillingRow
<1>7. ASSUME NEW t \in Tabs, TabFails(t) PROVE Typed
  BY <1>0, <1>7, BillingIdle DEF TabFails
<1>8. ASSUME RazorpayEmits PROVE Typed
  BY <1>0, <1>8 DEF RazorpayEmits, BillingEvent, Subs
<1>9. ASSUME NEW d \in Deliveries, IngestLookup(d) PROVE Typed
  BY <1>0, <1>9 DEF IngestLookup, HookSlot, EventIds
<1>10. ASSUME NEW d \in Deliveries, IngestInsert(d) PROVE Typed
  BY <1>0, <1>10, BillingIdle DEF IngestInsert, HookSlot
<1>11. ASSUME NEW d \in Deliveries, IngestApply(d) PROVE Typed
  <2>1. hook' \in [Deliveries -> HookSlot]
    BY <1>0, <1>11 DEF IngestApply, HookSlot
  <2>2. applied' \in [EventIds -> Nat]
    BY <1>0, <1>11 DEF IngestApply
  <2>3. row' \in BillingRow
    <3> DEFINE status == STATUS_BY_EVENT(events[hook[d].event].type)
    <3>1. hook[d].event \in EventIds
      BY <1>11 DEF IngestApply, DeliversAnEvent
    <3>2. status # "none" => status \in Statuses
      BY <1>0, <3>1 DEF BillingEvent, EventTypes, STATUS_BY_EVENT, Statuses
    <3> QED
      BY <1>0, <1>11, <3>2 DEF IngestApply, BillingRow, Dates
  <2> QED
    BY <1>0, <1>11, <2>1, <2>2, <2>3 DEF IngestApply
<1>12. ASSUME NEW d \in Deliveries, MarkProcessed(d) \/ HookCrash(d) PROVE Typed
  BY <1>0, <1>12, BillingIdle DEF MarkProcessed, HookCrash
<1>13. ASSUME SweepRead PROVE Typed
  BY <1>0, <1>13 DEF SweepRead, SweepSlot, BillingRow
<1>14. ASSUME SweepCancel PROVE Typed
  BY <1>0, <1>14 DEF SweepCancel, SweepSlot
<1>15. ASSUME SweepSave PROVE Typed
  BY <1>0, <1>15 DEF SweepSave, SweepSlot, BillingRow, Statuses
<1>16. ASSUME SweepTrials PROVE Typed
  BY <1>0, <1>16, BillingIdle DEF SweepTrials, BillingRow, Statuses
<1>17. ASSUME TimePasses PROVE Typed
  BY <1>0, <1>17 DEF TimePasses, BillingRow, Dates, Later
<1>18. ASSUME UNCHANGED billingVars PROVE Typed
  BY <1>0, <1>18 DEF billingVars
<1>19. Typed
  BY <1>1, <1>2, <1>3, <1>4, <1>5, <1>6, <1>7, <1>8, <1>9, <1>10, <1>11, <1>12, <1>13, <1>14,
     <1>15, <1>16, <1>17, <1>18
     DEF BillingNext, Dashboard, Ingest, Sweep
<1> QED
  BY <1>19 DEF BillingTypeOK, BillingRow, BillingEvent, TabSlot, HookSlot, SweepSlot

-----------------------------------------------------------------------------
\* a request that is about to write the status has inserted the ledger row of
\* its event, is alone with it, and nobody has written the status before
AppliesItsInsert ==
  \A d \in Deliveries : hook[d].pc = "apply" =>
    /\ hook[d].event \in EventIds
    /\ ledger[hook[d].event] # "absent" /\ applied[hook[d].event] = 0
    /\ \A c \in Deliveries \ {d} : ~(hook[c].pc = "apply" /\ hook[c].event = hook[d].event)

LedgerInv == BillingTypeOK /\ DeliversAnEvent /\ AppliedOnce /\ AppliesItsInsert

LEMMA LedgerStep ==
  ASSUME LedgerInv, [BillingNext]_billingVars PROVE AppliedOnce' /\ AppliesItsInsert'
<1>1. /\ hook \in [Deliveries -> HookSlot] /\ applied \in [EventIds -> Nat]
      /\ ledger \in [EventIds -> {"absent", "recorded", "processed"}]
  BY DEF LedgerInv, BillingTypeOK, HookSlot
<1>2. CASE UNCHANGED <<hook, ledger, applied>>
  BY <1>2 DEF LedgerInv, AppliedOnce, AppliesItsInsert
<1>3. ASSUME NEW d \in Deliveries, IngestLookup(d) \/ HookCrash(d)
      PROVE  AppliedOnce' /\ AppliesItsInsert'
  BY <1>1, <1>3 DEF LedgerInv, AppliedOnce, AppliesItsInsert, IngestLookup, HookCrash, HookSlot, IdleHook
<1>4. ASSUME NEW d \in Deliveries, IngestInsert(d)
      PROVE  AppliedOnce' /\ AppliesItsInsert'
  <2>1. hook[d].event \in EventIds
    BY <1>4 DEF LedgerInv, DeliversAnEvent, IngestInsert
  <2>2. CASE ledger[hook[d].event] = "absent"
    <3>1. applied[hook[d].event] = 0
      BY <2>1, <2>2 DEF LedgerInv, AppliedOnce
    <3>2. \A c \in Deliveries : ~(hook[c].pc = "apply" /\ hook[c].event = hook[d].event)
      BY <2>2 DEF LedgerInv, AppliesItsInsert
    <3> QED
      BY <1>1, <1>4, <2>1, <2>2, <3>1, <3>2
         DEF LedgerInv, AppliedOnce, AppliesItsInsert, IngestInsert, HookSlot
  <2>3. CASE ledger[hook[d].event] # "absent"
    BY <1>1, <1>4, <2>3 DEF LedgerInv, AppliedOnce, AppliesItsInsert, IngestInsert, HookSlot, IdleHook
  <2> QED
    BY <2>2, <2>3
<1>5. ASSUME NEW d \in Deliveries, IngestApply(d)
      PROVE  AppliedOnce' /\ AppliesItsInsert'
  BY <1>1, <1>5 DEF LedgerInv, AppliedOnce, AppliesItsInsert, IngestApply, HookSlot
<1>6. ASSUME NEW d \in Deliveries, MarkProcessed(d)
      PROVE  AppliedOnce' /\ AppliesItsInsert'
  BY <1>1, <1>6 DEF LedgerInv, AppliedOnce, AppliesItsInsert, MarkProcessed, HookSlot, IdleHook
<1> QED
  BY <1>2, <1>3, <1>4, <1>5, <1>6
     DEF BillingNext, billingVars, Dashboard, CheckoutRead, EnsureRazorpayPlanId,
         CreateSubscription, SaveSubscription, CancelRead, ResumeRead, WriteFlag, TabFails,
         RazorpayEmits, Sweep, SweepRead, SweepCancel, SweepSave, SweepTrials, TimePasses, Ingest

\* Razorpay said of a subscription of the business that it completed
Completed == \E e \in EventIds : events[e].type = "completed" /\ applied[e] > 0

\* a paid period belongs to a subscription, a running trial ends with it, the
\* sweep expires no row that has one, and whoever writes the row has seen a
\* subscription
PeriodsAreOwned ==
  /\ row.periodEnd = "future" =>
       /\ row.pid # 0
       /\ row.status = "TRIAL" => row.trialEnd = "future"
       /\ row.status = "EXPIRED" => Completed
  /\ \A d \in Deliveries : hook[d].pc # "idle" /\ hook[d].hit => row.pid # 0
  /\ \A t \in Tabs : tab[t].pc = "save" => tab[t].pid # 0

\* what was delivered or applied was emitted
EventsAreEmitted ==
  /\ \A e \in EventIds : applied[e] > 0 => events[e].pid # 0
  /\ \A d \in Deliveries : hook[d].pc # "idle" => events[hook[d].event].pid # 0

PeriodInv == BillingTypeOK /\ DeliversAnEvent /\ EventsAreEmitted /\ PeriodsAreOwned

LEMMA EmittedStep ==
  ASSUME PeriodInv, [BillingNext]_billingVars
  PROVE  EventsAreEmitted' /\ (Completed => Completed')
<1>1. /\ hook \in [Deliveries -> HookSlot] /\ applied \in [EventIds -> Nat]
      /\ events \in [EventIds -> BillingEvent]
  BY DEF PeriodInv, BillingTypeOK, HookSlot, BillingEvent
<1>2. DeliversAnEvent
  BY DEF PeriodInv
<1>3. CASE UNCHANGED <<hook, applied, events>>
  BY <1>3 DEF PeriodInv, EventsAreEmitted, Completed
<1>4. ASSUME RazorpayEmits PROVE EventsAreEmitted' /\ (Completed => Completed')
  <2>1. /\ \A e \in EventIds : events[e].pid # 0 => events'[e] = events[e]
        /\ UNCHANGED <<hook, applied>>
    BY <1>1, <1>4 DEF RazorpayEmits
  <2> QED
    BY <1>2, <2>1 DEF PeriodInv, EventsAreEmitted, Completed, DeliversAnEvent
<1>5. ASSUME NEW d \in Deliveries,
             IngestLookup(d) \/ IngestInsert(d) \/ MarkProcessed(d) \/ HookCrash(d)
      PROVE  EventsAreEmitted' /\ (Completed => Completed')
  BY <1>1, <1>5
     DEF PeriodInv, EventsAreEmitted, Completed, IngestLookup, IngestInsert, MarkProcessed,
         HookCrash, HookSlot, IdleHook
<1>6. ASSUME NEW d \in Deliveries, IngestApply(d)
      PROVE  EventsAreEmitted' /\ (Completed => Completed')
  <2>1. \A c \in Deliveries : hook'[c].event = hook[c].event /\ (hook'[c].pc # "idle" => hook[c].pc # "idle")
    BY <1>1, <1>6 DEF IngestApply, HookSlot
  <2>2. \A e \in EventIds : /\ applied[e] > 0 => applied'[e] > 0
                            /\ applied'[e] > 0 => applied[e] > 0 \/ e = hook[d].event
    BY <1>1, <1>6 DEF IngestApply
  <2>3. events' = events /\ hook[d].pc # "idle"
    BY <1>6 DEF IngestApply
  <2> QED
    BY <2>1, <2>2, <2>3 DEF PeriodInv, EventsAreEmitted, Completed
<1> QED
  BY <1>3, <1>4, <1>5, <1>6
     DEF BillingNext, billingVars, Dashboard, CheckoutRead, EnsureRazorpayPlanId,
         CreateSubscription, SaveSubscription, CancelRead, ResumeRead, WriteFlag, TabFails,
         Sweep, SweepRead, SweepCancel, SweepSave, SweepTrials, TimePasses, Ingest

LEMMA PeriodStep ==
  ASSUME PeriodInv, [BillingNext]_billingVars PROVE PeriodsAreOwned'
<1>1. /\ hook \in [Deliveries -> HookSlot] /\ tab \in [Tabs -> TabSlot]
      /\ row \in BillingRow /\ events \in [EventIds -> BillingEvent]
      /\ applied \in [EventIds -> Nat]
  BY DEF PeriodInv, BillingTypeOK, HookSlot, TabSlot, BillingRow, BillingEvent
<1>0. Completed => Completed'
  BY EmittedStep
<1>2. ASSUME NEW t \in Tabs,
             CheckoutRead(t) \/ EnsureRazorpayPlanId(t) \/ CancelRead(t) \/ ResumeRead(t) \/ TabFails(t)
      PROVE  PeriodsAreOwned'
  BY <1>0, <1>1, <1>2 DEF PeriodInv, PeriodsAreOwned, CheckoutRead, EnsureRazorpayPlanId,
                    CancelRead, ResumeRead, TabFails, TabSlot, IdleTab
<1>3. ASSUME NEW t \in Tabs, CreateSubscription(t) PROVE PeriodsAreOwned'
  BY <1>0, <1>1, <1>3 DEF PeriodInv, PeriodsAreOwned, CreateSubscription, TabSlot, Subs
<1>4. ASSUME NEW t \in Tabs, SaveSubscription(t) PROVE PeriodsAreOwned'
  BY <1>1, <1>4 DEF PeriodInv, PeriodsAreOwned, SaveSubscription, TabSlot, IdleTab
<1>5. ASSUME NEW t \in Tabs, WriteFlag(t) PROVE PeriodsAreOwned'
  BY <1>0, <1>1, <1>5 DEF PeriodInv, PeriodsAreOwned, WriteFlag, TabSlot, IdleTab, BillingRow
<1>6. ASSUME NEW d \in Deliveries, IngestLookup(d) PROVE PeriodsAreOwned'
  <2>1. PICK e \in EventIds :
          /\ events[e].pid # 0
          /\ hook' = [hook EXCEPT ![d] = [pc |-> "insert", event |-> e, hit |-> row.pid = events[e].pid]]
    BY <1>6 DEF IngestLookup
  <2>2. hook'[d].hit = (row.pid = events[e].pid)
    BY <1>1, <2>1
  <2>3. hook'[d].hit => row.pid # 0
    BY <2>1, <2>2, Zenon
  <2>4. \A c \in Deliveries \ {d} : hook'[c] = hook[c]
    BY <1>1, <2>1
  <2>5. UNCHANGED <<row, tab>>
    BY <1>6 DEF IngestLookup
  <2> QED
    BY <1>0, <2>3, <2>4, <2>5 DEF PeriodInv, PeriodsAreOwned
<1>7. ASSUME NEW d \in Deliveries, IngestInsert(d) \/ MarkProcessed(d) \/ HookCrash(d)
      PROVE  PeriodsAreOwned'
  BY <1>0, <1>1, <1>7 DEF PeriodInv, PeriodsAreOwned, IngestInsert, MarkProcessed, HookCrash,
                    HookSlot, IdleHook
<1>8. ASSUME NEW d \in Deliveries, IngestApply(d) PROVE PeriodsAreOwned'
  <2>1. \A e \in Deliveries : hook'[e].pc # "idle" /\ hook'[e].hit => hook[e].pc # "idle" /\ hook[e].hit
    BY <1>1, <1>8 DEF IngestApply, HookSlot
  <2>2. row' = row \/ /\ hook[d].hit /\ row'.pid = row.pid /\ row'.status # "TRIAL"
                      /\ row'.status = "EXPIRED" => Completed'
    <3> DEFINE status == STATUS_BY_EVENT(events[hook[d].event].type)
    <3>1. CASE row' = row
      BY <3>1
    <3>2. CASE row' # row
      <4>1. /\ hook[d].hit /\ row'.pid = row.pid /\ row'.status = status /\ status # "none"
            /\ applied' = [applied EXCEPT ![hook[d].event] = @ + 1] /\ events' = events
        BY <1>1, <1>8, <3>2 DEF IngestApply, BillingRow
      <4>2. status # "TRIAL" /\ (status = "EXPIRED" => events[hook[d].event].type = "completed")
        BY DEF STATUS_BY_EVENT
      <4>3. hook[d].event \in EventIds
        BY <1>8 DEF IngestApply, PeriodInv, DeliversAnEvent
      <4>4. applied'[hook[d].event] > 0
        BY <1>1, <4>1, <4>3
      <4> QED
        BY <4>1, <4>2, <4>3, <4>4 DEF Completed
    <3> QED
      BY <3>1, <3>2
  <2>3. tab' = tab /\ hook[d].pc # "idle"
    BY <1>8 DEF IngestApply
  <2> QED
    BY <1>0, <2>1, <2>2, <2>3 DEF PeriodInv, PeriodsAreOwned
<1>9. ASSUME SweepSave \/ SweepTrials PROVE PeriodsAreOwned'
  BY <1>0, <1>1, <1>9 DEF PeriodInv, PeriodsAreOwned, SweepSave, SweepTrials, BillingRow
<1>10. ASSUME TimePasses PROVE PeriodsAreOwned'
  BY <1>0, <1>1, <1>10 DEF PeriodInv, PeriodsAreOwned, TimePasses, BillingRow, Later
<1>11. ASSUME UNCHANGED <<row, tab, hook>> PROVE PeriodsAreOwned'
  BY <1>0, <1>11 DEF PeriodInv, PeriodsAreOwned
<1> QED
  BY <1>2, <1>3, <1>4, <1>5, <1>6, <1>7, <1>8, <1>9, <1>10, <1>11
     DEF BillingNext, billingVars, Dashboard, RazorpayEmits, Sweep, SweepRead, SweepCancel, Ingest

LEMMA BillingStarts ==
  BillingInit => LedgerInv /\ PeriodInv
<1> SUFFICES ASSUME BillingInit PROVE LedgerInv /\ PeriodInv
  OBVIOUS
<1>1. /\ \A d \in Deliveries : hook[d].pc = "idle"
      /\ \A t \in Tabs : tab[t].pc = "idle"
  BY DEF BillingInit, IdleHook, IdleTab
<1> QED
  BY <1>1, BillingTypeInit
     DEF BillingInit, LedgerInv, PeriodInv, DeliversAnEvent, AppliedOnce, AppliesItsInsert,
         EventsAreEmitted, PeriodsAreOwned, NoRow

LEMMA LedgerInvariant == BillingSpec => []LedgerInv
<1>1. LedgerInv /\ [BillingNext]_billingVars => LedgerInv'
  BY LedgerStep, BillingTypeStep, DeliversStep DEF LedgerInv
<1> QED
  BY <1>1, BillingStarts, PTL DEF BillingSpec

(* The subscription, the ledger and every request on them stay well typed,  *)
(* whatever interleaves (subscription.service.ts, billing-webhook.service). *)
THEOREM BillingTypes == BillingSpec => []BillingTypeOK
<1>1. LedgerInv => BillingTypeOK
  BY DEF LedgerInv
<1> QED
  BY <1>1, LedgerInvariant, PTL

(* However many deliveries of one event race, crash and are repeated, its   *)
(* status is written at most once (the unique key of BillingEvent, ingest). *)
THEOREM EventsAppliedOnce == BillingSpec => []AppliedOnce
<1>1. LedgerInv => AppliedOnce
  BY DEF LedgerInv
<1> QED
  BY <1>1, LedgerInvariant, PTL

LEMMA OwnedPeriodsKeepAccess == PeriodInv => PaidPeriodKeepsAccess
BY DEF PeriodInv, PeriodsAreOwned, Completed, BillingTypeOK, Statuses, PaidPeriodKeepsAccess,
       CanUseRelay

(* No order of webhooks, buttons, sweeps and the passing of time takes the  *)
(* access away while the paid period runs, until Razorpay itself says that  *)
(* a subscription of the business completed (evaluate of the entitlements). *)
THEOREM PaidMerchantsKeepAccess == BillingSpec => []PaidPeriodKeepsAccess
<1>1. PeriodInv /\ [BillingNext]_billingVars => PeriodInv'
  BY PeriodStep, EmittedStep, BillingTypeStep, DeliversStep DEF PeriodInv
<1> QED
  BY <1>1, OwnedPeriodsKeepAccess, BillingStarts, PTL DEF BillingSpec

(***************************************************************************)
(* The Razorpay connection.                                                *)
(***************************************************************************)
\* the token sets that the row, a disconnect or a refresh has in its hands, and the dead ones
Spent == revoked \cup {conn.token, leaving.token, refresh.from, refresh.token}

\* a set is new until it is written: the one a redirect is to write is its own,
\* the one a refresh is to write replaces a set that is still due where it stands
TokensApart ==
  /\ \A g \in Spent : g <= issued
  /\ \A r \in Redirects : redirect[r] # 0 =>
       /\ redirect[r] <= issued
       /\ redirect[r] \notin Spent
       /\ \A s \in Redirects \ {r} : redirect[s] # redirect[r]
  /\ refresh.pc = "save" =>
       refresh.token # 0 /\ refresh.token \notin revoked \cup {conn.token, leaving.token, refresh.from}
  /\ refresh.pc # "idle" => refresh.from # 0 /\ (conn.token = refresh.from => conn.due)

RazorpayInv == RazorpayTypeOK /\ TokensApart /\ DeadTokensAreFound

LEMMA RazorpayStarts == RazorpayInit => RazorpayInv
BY RazorpayAssumption
   DEF RazorpayInit, RazorpayInv, RazorpayTypeOK, TokensApart, Spent, DeadTokensAreFound,
       NotConnected, NotLeaving, NotRefreshing, Grants

LEMMA RazorpayTypeStep ==
  ASSUME RazorpayInv, [RazorpayNext]_razorpayVars PROVE RazorpayTypeOK'
<1> USE RazorpayAssumption DEF RazorpayInv, RazorpayTypeOK, NotLeaving, NotRefreshing, NotConnected, Grants
<1>1. ASSUME NEW r \in Redirects, ExchangeCode(r) PROVE RazorpayTypeOK'
  <2>1. CASE conn' = conn
    BY <1>1, <2>1 DEF ExchangeCode
  <2>2. CASE conn' = [conn EXCEPT !.status = "RETRY_REQUIRED"]
    BY <1>1, <2>2 DEF ExchangeCode
  <2> QED
    BY <1>1, <2>1, <2>2 DEF ExchangeCode
<1>2. ASSUME NEW r \in Redirects, SaveTokens(r) PROVE RazorpayTypeOK'
  BY <1>2 DEF SaveTokens
<1>3. ASSUME LeaveRead \/ RevokeToken \/ ClearConnection \/ DisconnectDies PROVE RazorpayTypeOK'
  <2>1. CASE LeaveRead
    BY <2>1 DEF LeaveRead
  <2>2. CASE RevokeToken
    BY <2>2 DEF RevokeToken
  <2>3. CASE ClearConnection
    BY <2>3 DEF ClearConnection
  <2>4. CASE DisconnectDies
    <3>1. abandoned' \subseteq 1..MaxGrants
      BY <2>4 DEF DisconnectDies
    <3>2. losses' \in 0..MaxLosses
      BY <2>4 DEF DisconnectDies, Lose
    <3> QED
      BY <2>4, <3>1, <3>2 DEF DisconnectDies
  <2> QED
    BY <1>3, <2>1, <2>2, <2>3, <2>4
<1>4. ASSUME NearsExpiry PROVE RazorpayTypeOK'
  BY <1>4 DEF NearsExpiry
<1>5. ASSUME RefreshRead PROVE RazorpayTypeOK'
  BY <1>5 DEF RefreshRead
<1>6. ASSUME RefreshAsk PROVE RazorpayTypeOK'
  <2>1. CASE refresh'.pc = "fail"
    BY <1>6, <2>1 DEF RefreshAsk
  <2>2. CASE issued < MaxGrants /\ issued' = issued + 1 /\ refresh' = [refresh EXCEPT !.pc = "save", !.token = issued']
    <3>1. issued' \in 0..MaxGrants
      BY <2>2
    <3>2. refresh' \in [pc : {"idle", "ask", "save", "fail"}, from : 0..MaxGrants, token : 0..MaxGrants]
      BY <2>2, <3>1
    <3>3. revoked' \subseteq 1..MaxGrants
      BY <1>6 DEF RefreshAsk, TokensApart
    <3> QED
      BY <1>6, <3>1, <3>2, <3>3 DEF RefreshAsk
  <2> QED
    BY <1>6, <2>1, <2>2 DEF RefreshAsk
<1>7. ASSUME RefreshSave PROVE RazorpayTypeOK'
  <2>1. CASE refresh.pc = "save"
    <3>1. conn' = [conn EXCEPT !.token = refresh.token, !.due = FALSE]
      BY <1>7, <2>1 DEF RefreshSave
    <3>2. conn' \in [status : {"CONNECTED", "RETRY_REQUIRED", "DISCONNECTED"},
                     token : 0..MaxGrants, due : BOOLEAN]
      BY <3>1
    <3> QED
      BY <1>7, <3>2 DEF RefreshSave
  <2>2. CASE refresh.pc = "fail"
    BY <1>7, <2>2 DEF RefreshSave
  <2> QED
    BY <1>7, <2>1, <2>2 DEF RefreshSave
<1>8. ASSUME RefreshSaveFails \/ RefreshDies PROVE RazorpayTypeOK'
  BY <1>8 DEF RefreshSaveFails, RefreshDies, Lose
<1>9. ASSUME NEW r \in Redirects, RedirectDies(r) PROVE RazorpayTypeOK'
  BY <1>9 DEF RedirectDies, Lose
<1>10. ASSUME UNCHANGED razorpayVars PROVE RazorpayTypeOK'
  BY <1>10 DEF razorpayVars
<1> QED
  BY <1>1, <1>2, <1>3, <1>4, <1>5, <1>6, <1>7, <1>8, <1>9, <1>10 DEF RazorpayNext, Refresh

LEMMA TokensApartStep ==
  ASSUME RazorpayInv, [RazorpayNext]_razorpayVars PROVE TokensApart' /\ DeadTokensAreFound'
<1> USE RazorpayAssumption
        DEF RazorpayInv, RazorpayTypeOK, TokensApart, Spent, DeadTokensAreFound,
            NotLeaving, NotRefreshing, NotConnected, Grants
<1>1. ASSUME NEW r \in Redirects, ExchangeCode(r) PROVE TokensApart' /\ DeadTokensAreFound'
  <2>1. CASE conn' = conn
    BY <1>1, <2>1 DEF ExchangeCode
  <2>2. CASE conn' = [conn EXCEPT !.status = "RETRY_REQUIRED"]
    BY <1>1, <2>2 DEF ExchangeCode
  <2> QED
    BY <1>1, <2>1, <2>2 DEF ExchangeCode
<1>2. ASSUME NEW r \in Redirects, SaveTokens(r) PROVE TokensApart' /\ DeadTokensAreFound'
  BY <1>2 DEF SaveTokens
<1>3. ASSUME LeaveRead PROVE TokensApart' /\ DeadTokensAreFound'
  BY <1>3 DEF LeaveRead
<1>4. ASSUME RevokeToken PROVE TokensApart' /\ DeadTokensAreFound'
  BY <1>4 DEF RevokeToken
<1>5. ASSUME ClearConnection PROVE TokensApart' /\ DeadTokensAreFound'
  BY <1>5 DEF ClearConnection
<1>6. ASSUME DisconnectDies PROVE TokensApart' /\ DeadTokensAreFound'
  BY <1>6 DEF DisconnectDies
<1>7. ASSUME NearsExpiry PROVE TokensApart' /\ DeadTokensAreFound'
  BY <1>7 DEF NearsExpiry
<1>8. ASSUME RefreshRead PROVE TokensApart' /\ DeadTokensAreFound'
  BY <1>8 DEF RefreshRead
<1>9. ASSUME RefreshAsk PROVE TokensApart' /\ DeadTokensAreFound'
  <2>1. CASE refresh'.pc = "fail"
    <3>1. refresh' = [refresh EXCEPT !.pc = "fail"] /\ UNCHANGED <<issued, revoked>>
      BY <1>9, <2>1 DEF RefreshAsk
    <3>2. refresh'.pc = "fail" /\ refresh'.from = refresh.from /\ refresh'.token = refresh.token
      BY <3>1
    <3> QED
      BY <1>9, <3>1, <3>2 DEF RefreshAsk
  <2>2. CASE issued < MaxGrants /\ issued' = issued + 1 /\ refresh' = [refresh EXCEPT !.pc = "save", !.token = issued']
    <3>1. refresh'.pc = "save" /\ refresh'.from = refresh.from /\ refresh'.token = issued + 1
      BY <2>2
    <3>2. /\ revoked \subseteq revoked' /\ revoked' \subseteq revoked \cup {refresh.from}
          /\ UNCHANGED <<client, conn, redirect, leaving, losses, abandoned>> /\ refresh.pc = "ask"
      BY <1>9, <2>1, <2>2 DEF RefreshAsk
    <3>3. \A g \in Spent' : g \in Spent \/ g = issued + 1
      BY <3>1, <3>2
    <3>4. issued + 1 # 0 /\ issued + 1 \notin Spent
      OBVIOUS
    <3>5. \A r \in Redirects : redirect[r] # issued + 1
      OBVIOUS
    <3>6. TokensApart'
      BY <2>2, <3>1, <3>2, <3>3, <3>4, <3>5
    <3>7. DeadTokensAreFound'
      BY <3>1, <3>2
    <3> QED
      BY <3>6, <3>7
  <2> QED
    BY <1>9, <2>1, <2>2 DEF RefreshAsk
<1>10. ASSUME RefreshSave PROVE TokensApart' /\ DeadTokensAreFound'
  BY <1>10 DEF RefreshSave
<1>11. ASSUME RefreshSaveFails \/ RefreshDies PROVE TokensApart' /\ DeadTokensAreFound'
  BY <1>11 DEF RefreshSaveFails, RefreshDies
<1>12. ASSUME NEW r \in Redirects, RedirectDies(r) PROVE TokensApart' /\ DeadTokensAreFound'
  BY <1>12 DEF RedirectDies
<1>13. ASSUME UNCHANGED razorpayVars PROVE TokensApart' /\ DeadTokensAreFound'
  BY <1>13 DEF razorpayVars
<1> QED
  BY <1>1, <1>2, <1>3, <1>4, <1>5, <1>6, <1>7, <1>8, <1>9, <1>10, <1>11, <1>12, <1>13
     DEF RazorpayNext, Refresh

LEMMA RazorpayStep ==
  ASSUME RazorpayInv, [RazorpayNext]_razorpayVars PROVE RazorpayInv'
BY RazorpayTypeStep, TokensApartStep DEF RazorpayInv

LEMMA RazorpayInvariant == RazorpaySpec => []RazorpayInv
BY RazorpayStarts, RazorpayStep, PTL DEF RazorpaySpec

(* The connection columns and every request on them stay well typed         *)
(* (razorpay-oauth.service.ts, razorpay-token-refresh.ts).                  *)
THEOREM RazorpayTypes == RazorpaySpec => []RazorpayTypeOK
<1>1. RazorpayInv => RazorpayTypeOK
  BY DEF RazorpayInv
<1> QED
  BY <1>1, RazorpayInvariant, PTL

(* However redirects, disconnects and refreshes overwrite each other, and   *)
(* wherever they die, the token set of a connected row that Razorpay ended  *)
(* is one that the next refresh will find, or a disconnect's own.           *)
THEOREM DeadTokensStayInReach == RazorpaySpec => []DeadTokensAreFound
<1>1. RazorpayInv => DeadTokensAreFound
  BY DEF RazorpayInv
<1> QED
  BY <1>1, RazorpayInvariant, PTL

(***************************************************************************)
(* The erasure of a customer's data.                                       *)
(***************************************************************************)
ErasureRow == [status : {"none", "IN_PROGRESS", "FAILED", "COMPLETED"},
               stamp : 0..MaxStamp, stale : BOOLEAN, counts : 0..2]
Executor == [pc : {"idle", "find", "claim", "erase", "mark"}, ack : BOOLEAN, saw : ErasureRow]

ErasureTyped ==
  /\ request \in ErasureRow /\ personal \in 0..2 /\ open \in BOOLEAN
  /\ exec \in [Executors -> Executor]

\* an executor that claimed the row and still runs has it to itself: the row is
\* in progress, and only the row of an executor that died is ever stale
ClaimHolds ==
  /\ acted = {x \in Executors : exec[x].pc \in {"erase", "mark"}}
  /\ \A x, y \in acted : x = y
  /\ acted # {} => request.status = "IN_PROGRESS" /\ ~request.stale

\* a row that was read and has not been written since is one that may be taken
ClaimsWhatMayBeTaken ==
  \A x \in Executors : exec[x].pc = "claim" =>
    /\ exec[x].saw.status # "COMPLETED" /\ exec[x].saw.stamp <= request.stamp
    /\ /\ exec[x].saw.stamp = request.stamp /\ exec[x].saw.status = request.status
       /\ request.status = "IN_PROGRESS"
       => request.stale

ErasureInv == ErasureTyped /\ ClaimHolds /\ ClaimsWhatMayBeTaken

LEMMA ErasureIdle == NoErasure \in ErasureRow /\ IdleExecutor \in Executor
BY ErasureAssumption DEF NoErasure, IdleExecutor, ErasureRow, Executor

LEMMA ErasureStarts == ErasureInit => ErasureInv
<1> SUFFICES ASSUME ErasureInit PROVE ErasureInv
  OBVIOUS
<1>1. \A x \in Executors : exec[x].pc = "idle"
  BY DEF ErasureInit, IdleExecutor
<1> QED
  BY <1>1, ErasureIdle
     DEF ErasureInit, ErasureInv, ErasureTyped, ClaimHolds, ClaimsWhatMayBeTaken

\* What one executor does to itself and to the row decides all of it.
LEMMA ErasureStep ==
  ASSUME ErasureInv, [ErasureNext]_erasureVars PROVE ErasureInv'
<1> USE ErasureAssumption DEF ErasureInv
<1>0. /\ request \in ErasureRow /\ personal \in 0..2 /\ open \in BOOLEAN
      /\ exec \in [Executors -> Executor]
  BY DEF ErasureTyped
<1>1. ASSUME NEW x \in Executors, CountOpenOrders(x) PROVE ErasureInv'
  <2>1. ErasureTyped'
    BY <1>0, <1>1, ErasureIdle DEF CountOpenOrders, ErasureTyped, Executor
  <2>2. ClaimHolds' /\ ClaimsWhatMayBeTaken'
    BY <1>0, <1>1 DEF CountOpenOrders, ClaimHolds, ClaimsWhatMayBeTaken, Executor
  <2> QED
    BY <2>1, <2>2
<1>2. ASSUME NEW x \in Executors, FindRequest(x) PROVE ErasureInv'
  <2>1. ErasureTyped'
    BY <1>0, <1>2, ErasureIdle DEF FindRequest, ErasureTyped, Executor
  <2>2. ClaimHolds'
    BY <1>0, <1>2 DEF FindRequest, ClaimHolds, Executor, IdleExecutor
  <2>3. ClaimsWhatMayBeTaken'
    BY <1>0, <1>2 DEF FindRequest, ClaimsWhatMayBeTaken, Executor, IdleExecutor, ErasureRow
  <2> QED
    BY <2>1, <2>2, <2>3
<1>3. ASSUME NEW x \in Executors, ClaimRequest(x) PROVE ErasureInv'
  <2>1. exec[x].pc = "claim" /\ request.stamp < MaxStamp /\ UNCHANGED <<personal, open>>
    BY <1>3 DEF ClaimRequest, Claim
  <2>2. CASE request.status = exec[x].saw.status /\ request.stamp = exec[x].saw.stamp
    <3>1. /\ request' = [request EXCEPT !.status = "IN_PROGRESS", !.stamp = @ + 1, !.stale = FALSE]
          /\ exec' = [exec EXCEPT ![x].pc = "erase"]
          /\ acted' = acted \cup {x}
      BY <1>3, <2>2 DEF ClaimRequest, Claim
    <3>2. acted = {}
      BY <2>1, <2>2 DEF ClaimHolds, ClaimsWhatMayBeTaken
    <3>3. /\ request' \in ErasureRow /\ request'.stamp = request.stamp + 1
          /\ request'.status = "IN_PROGRESS" /\ ~request'.stale
      <4>1. /\ request.stamp \in 0..MaxStamp /\ request.stamp + 1 \in 0..MaxStamp
            /\ request.counts \in 0..2
        BY <1>0, <2>1 DEF ErasureRow
      <4>2. request' = [status |-> "IN_PROGRESS", stamp |-> request.stamp + 1, stale |-> FALSE,
                        counts |-> request.counts]
        BY <1>0, <3>1 DEF ErasureRow
      <4> QED
        BY <4>1, <4>2 DEF ErasureRow
    <3>4. exec' \in [Executors -> Executor]
      BY <1>0, <3>1 DEF Executor
    <3>5. ClaimHolds'
      BY <1>0, <3>1, <3>2, <3>3 DEF ClaimHolds, Executor
    <3>6. ClaimsWhatMayBeTaken'
      BY <1>0, <3>1, <3>3 DEF ClaimsWhatMayBeTaken, Executor, ErasureRow
    <3> QED
      BY <1>0, <2>1, <3>3, <3>4, <3>5, <3>6 DEF ErasureTyped
  <2>3. CASE ~(request.status = exec[x].saw.status /\ request.stamp = exec[x].saw.stamp)
    <3>1. exec' = [exec EXCEPT ![x] = IdleExecutor] /\ UNCHANGED <<request, acted>>
      BY <1>3, <2>3 DEF ClaimRequest, Claim
    <3>2. ErasureTyped'
      BY <1>0, <2>1, <3>1, ErasureIdle DEF ErasureTyped
    <3>3. ClaimHolds' /\ ClaimsWhatMayBeTaken'
      BY <1>0, <2>1, <3>1 DEF ClaimHolds, ClaimsWhatMayBeTaken, IdleExecutor
    <3> QED
      BY <3>2, <3>3
  <2> QED
    BY <2>2, <2>3
<1>4. ASSUME NEW x \in Executors, Erase(x) PROVE ErasureInv'
  <2>1. x \in acted /\ acted = {x}
    BY <1>4 DEF Erase, ClaimHolds
  <2>2. ErasureTyped'
    <3>1. request' = [status |-> "COMPLETED", stamp |-> request.stamp, stale |-> request.stale,
                      counts |-> personal]
      BY <1>0, <1>4 DEF Erase, ErasureRow
    <3>2. request' \in ErasureRow
      BY <1>0, <3>1 DEF ErasureRow
    <3>3. exec' \in [Executors -> Executor] /\ personal' = 0 /\ open' = open
      BY <1>0, <1>4, ErasureIdle DEF Erase
    <3> QED
      BY <1>0, <3>2, <3>3 DEF ErasureTyped
  <2>3. acted' = {} /\ \A y \in Executors : exec'[y].pc \notin {"erase", "mark"}
    BY <1>0, <1>4, <2>1 DEF Erase, ClaimHolds, IdleExecutor
  <2>4. ClaimHolds'
    BY <2>3 DEF ClaimHolds
  <2>5. ClaimsWhatMayBeTaken'
    BY <1>0, <1>4 DEF Erase, ClaimsWhatMayBeTaken, IdleExecutor, ErasureRow
  <2> QED
    BY <2>2, <2>4, <2>5
<1>5. ASSUME NEW x \in Executors, RollBack(x) PROVE ErasureInv'
  <2>1. ErasureTyped'
    BY <1>0, <1>5 DEF RollBack, ErasureTyped, Executor
  <2>2. ClaimHolds' /\ ClaimsWhatMayBeTaken'
    BY <1>0, <1>5 DEF RollBack, ClaimHolds, ClaimsWhatMayBeTaken, Executor
  <2> QED
    BY <2>1, <2>2
<1>6. ASSUME NEW x \in Executors, MarkFailed(x) PROVE ErasureInv'
  <2>1. x \in acted /\ acted = {x}
    BY <1>6 DEF MarkFailed, ClaimHolds
  <2>2. ErasureTyped'
    BY <1>0, <1>6, ErasureIdle DEF MarkFailed, ErasureTyped, ErasureRow
  <2>3. acted' = {} /\ \A y \in Executors : exec'[y].pc \notin {"erase", "mark"}
    BY <1>0, <1>6, <2>1 DEF MarkFailed, ClaimHolds, IdleExecutor
  <2>4. ClaimHolds'
    BY <2>3 DEF ClaimHolds
  <2>5. request'.stamp = request.stamp /\ (request' = request \/ request'.status = "FAILED")
    BY <1>0, <1>6 DEF MarkFailed, ErasureRow
  <2>6. ClaimsWhatMayBeTaken'
    BY <1>0, <1>6, <2>5 DEF MarkFailed, ClaimsWhatMayBeTaken, IdleExecutor
  <2> QED
    BY <2>2, <2>4, <2>6
<1>7. ASSUME NEW x \in Executors, ExecutorDies(x) PROVE ErasureInv'
  <2>1. ErasureTyped'
    BY <1>0, <1>7, ErasureIdle DEF ExecutorDies, ErasureTyped
  <2>2. ClaimHolds' /\ ClaimsWhatMayBeTaken'
    BY <1>0, <1>7 DEF ExecutorDies, ClaimHolds, ClaimsWhatMayBeTaken, IdleExecutor
  <2> QED
    BY <2>1, <2>2
<1>8. ASSUME RowGoesStale PROVE ErasureInv'
  <2>1. ErasureTyped'
    BY <1>0, <1>8 DEF RowGoesStale, ErasureTyped, ErasureRow
  <2>2. ClaimHolds' /\ ClaimsWhatMayBeTaken'
    BY <1>0, <1>8 DEF RowGoesStale, ClaimHolds, ClaimsWhatMayBeTaken, ErasureRow
  <2> QED
    BY <2>1, <2>2
<1>9. ASSUME CustomerWrites \/ OrderChanges \/ UNCHANGED erasureVars PROVE ErasureInv'
  <2>1. UNCHANGED <<request, exec, acted>>
    BY <1>9 DEF CustomerWrites, OrderChanges, erasureVars
  <2>2. personal' \in 0..2
    BY <1>0, <1>9 DEF CustomerWrites, OrderChanges, erasureVars
  <2>3. open' = open \/ open' = ~open
    BY <1>9 DEF CustomerWrites, OrderChanges, erasureVars
  <2>4. open' \in BOOLEAN
    BY <1>0, <2>3, Zenon
  <2> QED
    BY <2>1, <2>2, <2>4 DEF ErasureTyped, ClaimHolds, ClaimsWhatMayBeTaken
<1> QED
  BY <1>1, <1>2, <1>3, <1>4, <1>5, <1>6, <1>7, <1>8, <1>9 DEF ErasureNext

LEMMA ErasureInvariant == ErasureSpec => []ErasureInv
BY ErasureStarts, ErasureStep, PTL DEF ErasureSpec

(* The request row, the customer's data and the executors stay well typed   *)
(* (data-erasure.service.ts).                                               *)
THEOREM ErasureTypes == ErasureSpec => []ErasureTypeOK
<1>1. ErasureInv => ErasureTypeOK
  BY DEF ErasureInv, ErasureTyped, ClaimHolds, ErasureTypeOK, ErasureRow, Executor
<1> QED
  BY <1>1, ErasureInvariant, PTL

(* Two executors never erase at the same time, however many look, claim,    *)
(* die and are repeated (the compare-and-swap of claim).                    *)
THEOREM OneErasesAtATime == ErasureSpec => []OneEraser
<1>1. ErasureInv => OneEraser
  <2> SUFFICES ASSUME ErasureInv PROVE Cardinality(acted) <= 1
    BY DEF OneEraser
  <2>1. CASE acted = {}
    BY <2>1, FS_EmptySet
  <2>2. CASE acted # {}
    <3>1. PICK x \in acted : acted = {x}
      BY <2>2 DEF ErasureInv, ClaimHolds
    <3> QED
      BY <3>1, FS_Singleton
  <2> QED
    BY <2>1, <2>2
<1> QED
  BY <1>1, ErasureInvariant, PTL

(* A request that was completed is never claimed, marked or erased under    *)
(* again, however old the view of those who still run it (claim, execute).  *)
THEOREM CompletedStaysFinal == ErasureSpec => CompletedIsFinal
<1>1. ASSUME ErasureInv, [ErasureNext]_erasureVars
      PROVE  [request.status = "COMPLETED" => request' = request /\ personal' >= personal]_erasureVars
  <2> SUFFICES ASSUME ErasureNext, request.status = "COMPLETED"
               PROVE  request' = request /\ personal' >= personal
    BY <1>1
  <2>0. personal \in 0..2 /\ acted = {}
    BY <1>1 DEF ErasureInv, ErasureTyped, ClaimHolds
  <2>1. \A x \in Executors : exec[x].pc \notin {"erase", "mark"}
    BY <1>1, <2>0 DEF ErasureInv, ClaimHolds
  <2>2. ASSUME NEW x \in Executors, ClaimRequest(x)
        PROVE  request' = request /\ personal' >= personal
    <3>1. exec[x].saw.status # "COMPLETED"
      BY <1>1, <2>2 DEF ErasureInv, ClaimsWhatMayBeTaken, ClaimRequest, Claim
    <3> QED
      BY <2>0, <2>2, <3>1 DEF ClaimRequest, Claim
  <2> QED
    BY <2>0, <2>1, <2>2
       DEF ErasureNext, CountOpenOrders, FindRequest, Erase, RollBack, MarkFailed, ExecutorDies,
           RowGoesStale, CustomerWrites, OrderChanges
<1> QED
  BY <1>1, ErasureInvariant, PTL DEF ErasureSpec, CompletedIsFinal

(***************************************************************************)
(* The connections and Meta's callbacks.                                   *)
(***************************************************************************)
BizRow == [status : BizStatuses, number : Numbers \cup {NoOne},
           connectedAt : 0..MaxClock, born : 0..MaxClock]
LinkRow == [state : {"none", "live", "revoked"}, of : 0..MaxClock]
Links == [Businesses -> [Users -> LinkRow]]
ReqStatuses == DeauthFinal \cup DeletionFinal \cup {"none", "NO_ACTION_UNVERIFIED", "PENDING_REVIEW"}
ReqRow == [status : ReqStatuses, user : Users \cup {NoOne}, at : 0..MaxClock,
           candidates : SUBSET Businesses, matched : SUBSET Businesses]
SignupSlot == [pc : {"idle", "calls", "save", "identity"}, b : Businesses \cup {NoOne},
               n : Numbers \cup {NoOne}, u : Users \cup {NoOne}, born : 0..MaxClock]
FormSlot == [pc : {"idle", "write", "supersede"}, b : Businesses \cup {NoOne},
             was : Numbers \cup {NoOne}]
AdminSlot == [pc : {"idle", "deauth", "deletion"}, k : Callbacks \cup {NoOne},
              user : Users \cup {NoOne}]

\* a request under way is about a business, and an admin at work about a callback
\* of the kind that he decides
AboutSomething ==
  /\ \A s \in Signups : signup[s].pc # "idle" =>
       signup[s].b \in Businesses /\ signup[s].n \in Numbers /\ signup[s].u \in Users
  /\ \A f \in Settings : form[f].pc # "idle" => form[f].b \in Businesses
  /\ \A a \in Admins : admin[a].pc = "deauth" => admin[a].k \in Deauths
  /\ \A a \in Admins : admin[a].pc = "deletion" => admin[a].k \in Deletions

MetaTyped ==
  /\ verified \in BOOLEAN /\ biz \in [Businesses -> BizRow] /\ link \in Links
  /\ req \in [Callbacks -> ReqRow]
  /\ \A k \in Deauths : req[k].status \in DeauthFinal \cup {"none", "NO_ACTION_UNVERIFIED"}
  /\ \A k \in Deletions : req[k].status \in DeletionFinal \cup {"none", "PENDING_REVIEW"}
  /\ signup \in [Signups -> SignupSlot] /\ form \in [Settings -> FormSlot]
  /\ admin \in [Admins -> AdminSlot]
  /\ clock \in 0..MaxClock /\ forgotten \subseteq Users /\ crossed \subseteq Businesses
  /\ AboutSomething

LEMMA MetaIdle ==
  /\ IdleSignup \in SignupSlot /\ IdleForm \in FormSlot /\ IdleAdmin \in AdminSlot /\ NoRequest \in ReqRow
  /\ Cleared("DISCONNECTED") \in BizRow /\ Cleared("DEAUTHORIZED") \in BizRow
BY MetaAssumption
   DEF IdleSignup, IdleForm, IdleAdmin, NoRequest, Cleared, SignupSlot, FormSlot, AdminSlot, ReqRow, BizRow,
       ReqStatuses, BizStatuses, NOT_LIVE

LEMMA MetaStarts == MetaInit => MetaTyped
<1> SUFFICES ASSUME MetaInit PROVE MetaTyped
  OBVIOUS
<1>1. link \in Links
  BY MetaAssumption DEF MetaInit, Links, LinkRow
<1>2. AboutSomething
  BY DEF MetaInit, AboutSomething, IdleSignup, IdleForm, IdleAdmin
<1>3. \A k \in Callbacks : req[k] = NoRequest /\ req[k].status = "none"
  BY DEF MetaInit, NoRequest
<1>4. req \in [Callbacks -> ReqRow]
  BY MetaIdle DEF MetaInit
<1>5. /\ biz \in [Businesses -> BizRow] /\ signup \in [Signups -> SignupSlot]
      /\ admin \in [Admins -> AdminSlot] /\ form \in [Settings -> FormSlot]
  BY MetaIdle DEF MetaInit
<1>6. clock \in 0..MaxClock /\ forgotten \subseteq Users /\ verified \in BOOLEAN /\ crossed \subseteq Businesses
  BY MetaAssumption DEF MetaInit
<1> QED
  BY <1>1, <1>2, <1>3, <1>4, <1>5, <1>6 DEF MetaTyped, Callbacks

\* What the operators on the links and the rows return.
LEMMA SupersededLinks ==
  ASSUME link \in Links, NEW b \in Businesses
  PROVE  /\ Superseded(b) \in Links
         /\ \A c \in Businesses, u \in Users :
              Superseded(b)[c][u].state = "none" <=> link[c][u].state = "none"
         /\ \A u \in Users : Superseded(b)[b][u].state # "live"
         /\ \A c \in Businesses \ {b} : Superseded(b)[c] = link[c]
BY MetaAssumption DEF Superseded, Revoked, Links, LinkRow

LEMMA RetiredLinks ==
  ASSUME link \in Links, NEW B, NEW u \in Users, RetireLinks(B, u)
  PROVE  /\ link' \in Links
         /\ \A c \in Businesses, v \in Users :
              /\ link'[c][v].state = "none" <=> link[c][v].state = "none"
              /\ link'[c][v].state = "live" => link'[c][v] = link[c][v]
<1>1. \A c \in Businesses : link[c] \in [Users -> LinkRow]
  BY DEF Links
<1>2. Revoked \in LinkRow /\ Revoked.state = "revoked"
  BY MetaAssumption DEF Revoked, LinkRow
<1>3. ASSUME NEW c \in Businesses
      PROVE  /\ link'[c] \in [Users -> LinkRow]
             /\ \A v \in Users :
                  /\ link'[c][v].state = "none" <=> link[c][v].state = "none"
                  /\ link'[c][v].state = "live" => link'[c][v] = link[c][v]
  <2>1. CASE c \in B
    <3>1. link'[c] = [link[c] EXCEPT ![u] = IF link[c][u].state = "live" THEN Revoked ELSE link[c][u]]
      BY <2>1 DEF RetireLinks
    <3>2. link'[c] \in [Users -> LinkRow]
      BY <1>1, <1>2, <3>1
    <3>3. \A v \in Users \ {u} : link'[c][v] = link[c][v]
      BY <1>1, <3>1
    <3>4. link'[c][u] = IF link[c][u].state = "live" THEN Revoked ELSE link[c][u]
      BY <1>1, <3>1
    <3> QED
      BY <1>2, <3>2, <3>3, <3>4
  <2>2. CASE c \notin B
    BY <1>1, <2>2 DEF RetireLinks
  <2> QED
    BY <2>1, <2>2
<1>4. link' = [c \in Businesses |-> link'[c]]
  BY DEF RetireLinks
<1>5. link' \in Links
  BY <1>3, <1>4 DEF Links
<1> QED
  BY <1>3, <1>5

LEMMA ForgottenLinks ==
  ASSUME link \in Links, NEW u \in Users, ForgetLinks(u)
  PROVE  /\ link' \in Links
         /\ \A c \in Businesses : link'[c][u].state = "none"
         /\ \A c \in Businesses, v \in Users \ {u} : link'[c][v] = link[c][v]
BY MetaAssumption DEF ForgetLinks, Links, LinkRow

LEMMA ForgottenUser ==
  ASSUME req \in [Callbacks -> ReqRow], NEW u \in Users, NEW k \in Callbacks, NEW r \in ReqRow,
         ForgetUser(u, k, r)
  PROVE  /\ req' \in [Callbacks -> ReqRow] /\ req'[k] = r
         /\ \A i \in Callbacks \ {k} :
              /\ req'[i].status = req[i].status /\ req'[i].matched = req[i].matched
              /\ req'[i].user # u /\ req'[i].user \in {req[i].user, NoOne}
BY MetaAssumption DEF ForgetUser, ReqRow

LEMMA RevokedConnections ==
  ASSUME biz \in [Businesses -> BizRow], NEW B, RevokeConnections(B)
  PROVE  /\ biz' \in [Businesses -> BizRow]
         /\ \A b \in Businesses : biz'[b].born \in {0, biz[b].born}
BY MetaIdle DEF RevokeConnections, Cleared

LEMMA StatusSet ==
  ASSUME biz \in [Businesses -> BizRow], NEW b, NEW status \in BizStatuses, SetStatus(b, status)
  PROVE  /\ biz' \in [Businesses -> BizRow]
         /\ \A c \in Businesses : biz'[c].born = biz[c].born
BY DEF SetStatus, BizRow

\* What the handlers of the callbacks and the admins write into the requests.
LEMMA DeauthRecorded ==
  ASSUME MetaTyped, NEW k \in Deauths, HandleDeauthorization(k)
  PROVE  /\ \E r \in ReqRow : /\ req' = [req EXCEPT ![k] = r] /\ r.user = Author[k]
                              /\ r.status \in DeauthFinal \cup {"NO_ACTION_UNVERIFIED"}
         /\ biz' \in [Businesses -> BizRow] /\ link' \in Links
         /\ \A c \in Businesses, v \in Users :
              /\ link'[c][v].state = "none" <=> link[c][v].state = "none"
              /\ link'[c][v].state = "live" => link'[c][v] = link[c][v]
         /\ \A c \in Businesses : biz'[c].born \in {0, biz[c].born}
<1> DEFINE u == Author[k]
           linked == LiveLinked(u)
           Row(status, matched) ==
             [NoRequest EXCEPT !.status = status, !.user = u, !.matched = matched]
           unverified == [Row("NO_ACTION_UNVERIFIED", {}) EXCEPT !.at = clock, !.candidates = linked]
<1>1. /\ u \in Users /\ linked \subseteq Businesses /\ link \in Links
      /\ biz \in [Businesses -> BizRow] /\ clock \in 0..MaxClock
  BY MetaAssumption DEF LiveLinked, MetaTyped
<1>2. \A status \in DeauthFinal \cup {"NO_ACTION_UNVERIFIED"}, matched \in SUBSET Businesses :
        /\ Row(status, matched) \in ReqRow /\ Row(status, matched).user = u
        /\ Row(status, matched).status = status
  <2>1. 0 \in 0..MaxClock
    BY MetaAssumption
  <2>2. NoRequest \in ReqRow
    BY <2>1 DEF ReqRow, ReqStatuses, NoRequest
  <2>3. DeauthFinal \cup {"NO_ACTION_UNVERIFIED"} \subseteq ReqStatuses
    BY DEF ReqStatuses
  <2> QED
    BY <1>1, <2>2, <2>3 DEF ReqRow
<1>3. CASE linked # {} /\ ~verified
  <2>1. req' = [req EXCEPT ![k] = unverified] /\ UNCHANGED <<biz, link>>
    BY <1>3 DEF HandleDeauthorization
  <2>2. /\ unverified \in ReqRow /\ unverified.user = u
        /\ unverified.status = "NO_ACTION_UNVERIFIED"
    <3>1. Row("NO_ACTION_UNVERIFIED", {}) \in ReqRow /\ Row("NO_ACTION_UNVERIFIED", {}).user = u
          /\ Row("NO_ACTION_UNVERIFIED", {}).status = "NO_ACTION_UNVERIFIED"
      BY <1>1, <1>2
    <3> HIDE DEF Row
    <3> QED
      BY <1>1, <3>1 DEF ReqRow
  <2>3. \E r \in ReqRow : /\ req' = [req EXCEPT ![k] = r] /\ r.user = Author[k]
                          /\ r.status \in DeauthFinal \cup {"NO_ACTION_UNVERIFIED"}
    <3>1. unverified \in ReqRow
      BY <2>2
    <3>2. unverified.user = Author[k] /\ unverified.status \in DeauthFinal \cup {"NO_ACTION_UNVERIFIED"}
      <4> HIDE DEF unverified
      <4> QED
        BY <2>2
    <3> WITNESS unverified \in ReqRow
    <3> QED
      BY <2>1, <3>2
  <2>4. link' = link /\ biz' = biz
    BY <2>1
  <2> HIDE DEF unverified, u, linked, Row
  <2>5. biz' \in [Businesses -> BizRow] /\ link' \in Links
    BY <1>1, <2>4
  <2>6. /\ \A c \in Businesses, v \in Users :
             /\ link'[c][v].state = "none" <=> link[c][v].state = "none"
             /\ link'[c][v].state = "live" => link'[c][v] = link[c][v]
        /\ \A c \in Businesses : biz'[c].born \in {0, biz[c].born}
    BY <2>4
  <2> QED
    BY <2>3, <2>5, <2>6
<1>4. CASE ~(linked # {} /\ ~verified)
  <2>1. /\ req' = [req EXCEPT ![k] = Row(IF linked = {} THEN "NO_MATCH" ELSE "COMPLETED", linked)]
        /\ RevokeConnections(linked) /\ RetireLinks(linked, u)
    BY <1>4 DEF HandleDeauthorization
  <2>2. (IF linked = {} THEN "NO_MATCH" ELSE "COMPLETED") \in DeauthFinal
    BY DEF DeauthFinal
  <2>3. \E r \in ReqRow : /\ req' = [req EXCEPT ![k] = r] /\ r.user = Author[k]
                          /\ r.status \in DeauthFinal \cup {"NO_ACTION_UNVERIFIED"}
    <3> DEFINE status == IF linked = {} THEN "NO_MATCH" ELSE "COMPLETED"
    <3>0. status \in DeauthFinal
      BY <2>2
    <3> HIDE DEF status
    <3>1. /\ Row(status, linked) \in ReqRow /\ Row(status, linked).status = status
          /\ Row(status, linked).user = u
      BY <1>1, <1>2, <3>0
    <3>2. Row(status, linked) \in ReqRow
      BY <3>1
    <3>3. req' = [req EXCEPT ![k] = Row(status, linked)]
      BY <2>1 DEF status
    <3> WITNESS Row(status, linked) \in ReqRow
    <3> QED
      BY <3>0, <3>1, <3>3
  <2> QED
    BY <1>1, <2>1, <2>3, RevokedConnections, RetiredLinks
<1> QED
  BY <1>3, <1>4

LEMMA DeletionRecorded ==
  ASSUME MetaTyped, NEW k \in Deletions, HandleDataDeletion(k)
  PROVE  \/ \E r \in ReqRow :
              /\ r.status = "PENDING_REVIEW" /\ r.user = Author[k]
              /\ req' = [req EXCEPT ![k] = r] /\ forgotten' = forgotten \ {Author[k]}
              /\ UNCHANGED <<biz, link>>
         \/ \E r \in ReqRow :
              /\ r.status = "COMPLETED" /\ r.user = NoOne
              /\ ForgetUser(Author[k], k, r) /\ ForgetLinks(Author[k])
              /\ RevokeConnections(LiveLinked(Author[k]))
              /\ forgotten' = forgotten \cup {Author[k]}
<1> DEFINE u == Author[k]
<1>1. u \in Users /\ Linked(u) \subseteq Businesses
  BY MetaAssumption DEF Linked
<1>2. CASE Linked(u) = {} \/ ~verified
  <2> DEFINE r == [NoRequest EXCEPT !.status = "PENDING_REVIEW", !.user = u]
  <2>1. r \in ReqRow /\ r.status = "PENDING_REVIEW" /\ r.user = u
    BY <1>1, MetaIdle DEF ReqRow, ReqStatuses
  <2>2. req' = [req EXCEPT ![k] = r] /\ forgotten' = forgotten \ {u} /\ UNCHANGED <<biz, link>>
    BY <1>2 DEF HandleDataDeletion
  <2> QED
    BY <2>1, <2>2
<1>3. CASE ~(Linked(u) = {} \/ ~verified)
  <2> DEFINE r == [NoRequest EXCEPT !.status = "COMPLETED", !.matched = Linked(u)]
  <2>1. NoRequest.user = NoOne
    BY DEF NoRequest
  <2>2. r \in ReqRow /\ r.status = "COMPLETED" /\ r.user = NoOne
    BY <1>1, <2>1, MetaIdle DEF ReqRow, ReqStatuses, DeauthFinal
  <2>3. /\ ForgetUser(u, k, r) /\ ForgetLinks(u) /\ RevokeConnections(LiveLinked(u))
        /\ forgotten' = forgotten \cup {u}
    BY <1>3 DEF HandleDataDeletion
  <2> QED
    BY <2>2, <2>3
<1> QED
  BY <1>2, <1>3

LEMMA DeauthResolved ==
  ASSUME MetaTyped, NEW a \in Admins, NEW named \in SUBSET Businesses, ResolveDeauthorization(a, named)
  PROVE  /\ biz' \in [Businesses -> BizRow] /\ link' \in Links
         /\ \A c \in Businesses, v \in Users :
              /\ link'[c][v].state = "none" <=> link[c][v].state = "none"
              /\ link'[c][v].state = "live" => link'[c][v] = link[c][v]
         /\ \A c \in Businesses : biz'[c].born \in {0, biz[c].born}
         /\ \/ req' = req
            \/ /\ admin[a].k \in Deauths /\ req[admin[a].k].status = "NO_ACTION_UNVERIFIED"
               /\ \E r \in ReqRow : /\ r.status \in DeauthFinal /\ r.user = req[admin[a].k].user
                                    /\ req' = [req EXCEPT ![admin[a].k] = r]
<1> DEFINE k == admin[a].k
           claimed == req[k].status = "NO_ACTION_UNVERIFIED"
           ok == claimed /\ (named # {} => req[k].user # NoOne /\ \A b \in named : Eligible(k, b))
<1>1. k \in Deauths
  <2>1. admin[a].pc = "deauth"
    BY DEF ResolveDeauthorization
  <2>2. AboutSomething
    BY DEF MetaTyped
  <2> QED
    BY <2>1, <2>2 DEF AboutSomething
<1>2. req[k] \in ReqRow /\ link \in Links /\ biz \in [Businesses -> BizRow]
  BY <1>1 DEF MetaTyped, Callbacks
<1>3. CASE ~ok
  BY <1>2, <1>3 DEF ResolveDeauthorization
<1>4. CASE ok
  <2> DEFINE r == [req[k] EXCEPT !.status = IF named = {} THEN "NO_CHANGE_RECORDED" ELSE "COMPLETED",
                                 !.matched = named]
  <2>1. req' = [req EXCEPT ![k] = r]
    BY <1>4 DEF ResolveDeauthorization
  <2>2. r \in ReqRow /\ r.status \in DeauthFinal /\ r.user = req[k].user
    BY <1>1, <1>2 DEF ReqRow, ReqStatuses, DeauthFinal
  <2>3. /\ biz' \in [Businesses -> BizRow] /\ link' \in Links
        /\ \A c \in Businesses, v \in Users :
              /\ link'[c][v].state = "none" <=> link[c][v].state = "none"
              /\ link'[c][v].state = "live" => link'[c][v] = link[c][v]
        /\ \A c \in Businesses : biz'[c].born \in {0, biz[c].born}
    <3>1. CASE named = {}
      BY <1>2, <3>1 DEF ResolveDeauthorization
    <3>2. CASE named # {}
      <4>1. req[k].user \in Users
        BY <1>2, <1>4, <3>2 DEF ReqRow
      <4>2. RevokeConnections(named) /\ RetireLinks(named, req[k].user)
        BY <1>4, <3>2 DEF ResolveDeauthorization
      <4> QED
        BY <1>2, <4>1, <4>2, RevokedConnections, RetiredLinks
    <3> QED
      BY <3>1, <3>2
  <2> QED
    BY <1>1, <1>4, <2>1, <2>2, <2>3
<1> QED
  BY <1>3, <1>4

LEMMA DeletionResolved ==
  ASSUME MetaTyped, NEW a \in Admins, NEW named \in SUBSET Businesses, ResolveDeletion(a, named)
  PROVE  \/ UNCHANGED <<biz, link, req, forgotten>>
         \/ /\ admin[a].k \in Deletions /\ req[admin[a].k].status = "PENDING_REVIEW"
            /\ RevokeConnections(named)
            /\ \E r \in ReqRow :
                 /\ r.status \in DeletionFinal /\ r.user = NoOne
                 /\ \/ req' = [req EXCEPT ![admin[a].k] = r] /\ UNCHANGED <<link, forgotten>>
                    \/ /\ admin[a].user \in Users
                       /\ ForgetUser(admin[a].user, admin[a].k, r) /\ ForgetLinks(admin[a].user)
                       /\ forgotten' = forgotten \cup {admin[a].user}
<1> DEFINE k == admin[a].k
           u == admin[a].user
           r == [req[k] EXCEPT !.status = IF named = {} THEN "NO_DATA_HELD" ELSE "COMPLETED",
                               !.user = NoOne, !.matched = named]
<1>1. k \in Deletions /\ u \in Users \cup {NoOne}
  <2>1. admin[a] \in AdminSlot
    BY DEF MetaTyped
  <2>2. admin[a].pc = "deletion"
    BY DEF ResolveDeletion
  <2>3. AboutSomething
    BY DEF MetaTyped
  <2>4. k \in Deletions
    BY <2>2, <2>3 DEF AboutSomething
  <2> QED
    BY <2>1, <2>4 DEF AdminSlot
<1>2. req[k] \in ReqRow
  BY <1>1 DEF MetaTyped, Callbacks
<1>3. r \in ReqRow /\ r.status \in DeletionFinal /\ r.user = NoOne
  BY <1>1, <1>2 DEF ReqRow, ReqStatuses, DeauthFinal, DeletionFinal
<1>4. CASE ~DeletionChecks(k, u, named)
  BY <1>4 DEF ResolveDeletion
<1>5. CASE DeletionChecks(k, u, named)
  <2>1. RevokeConnections(named) /\ req[k].status = "PENDING_REVIEW"
    BY <1>5 DEF ResolveDeletion, DeletionChecks
  <2>2. CASE u = NoOne
    BY <1>1, <1>3, <1>5, <2>1, <2>2 DEF ResolveDeletion
  <2>3. CASE u # NoOne
    <3>1. ForgetUser(u, k, r) /\ ForgetLinks(u) /\ forgotten' = forgotten \cup {u}
      BY <1>5, <2>3 DEF ResolveDeletion
    <3> QED
      BY <1>1, <1>3, <2>1, <2>3, <3>1
  <2> QED
    BY <2>2, <2>3
<1> QED
  BY <1>4, <1>5

LEMMA MetaTypedStep ==
  ASSUME MetaTyped, [MetaNext]_metaVars PROVE MetaTyped'
<1> USE MetaAssumption
<1>0. /\ verified \in BOOLEAN /\ biz \in [Businesses -> BizRow] /\ link \in Links
      /\ req \in [Callbacks -> ReqRow]
      /\ signup \in [Signups -> SignupSlot] /\ form \in [Settings -> FormSlot]
      /\ admin \in [Admins -> AdminSlot]
      /\ clock \in 0..MaxClock /\ forgotten \subseteq Users /\ crossed \subseteq Businesses
      /\ AboutSomething
  BY DEF MetaTyped
<1> DEFINE ReqTyped ==
      /\ req' \in [Callbacks -> ReqRow]
      /\ \A k \in Deauths : req'[k].status \in DeauthFinal \cup {"none", "NO_ACTION_UNVERIFIED"}
      /\ \A k \in Deletions : req'[k].status \in DeletionFinal \cup {"none", "PENDING_REVIEW"}
<1>1. ASSUME NEW s \in Signups, StartOnboarding(s) PROVE MetaTyped'
  <2>1. PICK b \in Businesses, n \in Numbers, u \in Users :
          /\ SetStatus(b, "ONBOARDING")
          /\ signup' = [signup EXCEPT ![s] = [IdleSignup EXCEPT !.pc = "calls", !.b = b, !.n = n, !.u = u]]
    BY <1>1 DEF StartOnboarding
  <2> DEFINE dialog == [IdleSignup EXCEPT !.pc = "calls", !.b = b, !.n = n, !.u = u]
  <2>2. biz' \in [Businesses -> BizRow]
    BY <1>0, <2>1, StatusSet DEF BizStatuses
  <2>3. dialog \in SignupSlot /\ dialog.b = b /\ dialog.n = n /\ dialog.u = u
    BY MetaIdle DEF SignupSlot
  <2>4. signup' \in [Signups -> SignupSlot] /\ AboutSomething'
    BY <1>0, <1>1, <2>1, <2>3 DEF AboutSomething, StartOnboarding
  <2> QED
    BY <1>0, <1>1, <2>2, <2>4 DEF StartOnboarding, MetaTyped
<1>2. ASSUME NEW s \in Signups, OnboardingStep(s) PROVE MetaTyped'
  <2>1. biz' \in [Businesses -> BizRow]
    BY <1>0, <1>2, StatusSet DEF OnboardingStep, BizStatuses
  <2>2. CASE signup' = signup
    BY <1>0, <1>2, <2>1, <2>2 DEF OnboardingStep, MetaTyped, AboutSomething
  <2>3. CASE signup' = [signup EXCEPT ![s] = IdleSignup]
    <3>1. signup' \in [Signups -> SignupSlot] /\ AboutSomething'
      BY <1>0, <1>2, <2>3, MetaIdle DEF OnboardingStep, AboutSomething, IdleSignup
    <3> QED
      BY <1>0, <1>2, <2>1, <3>1 DEF OnboardingStep, MetaTyped
  <2> QED
    BY <1>2, <2>2, <2>3 DEF OnboardingStep
<1>3. ASSUME NEW s \in Signups, CheckOwner(s) PROVE MetaTyped'
  <2>1. biz' \in [Businesses -> BizRow]
    BY <1>0, <1>3, StatusSet DEF CheckOwner, BizStatuses
  <2>2. signup[s].pc # "idle" /\ (signup' = [signup EXCEPT ![s].pc = "save"]
                                 \/ signup' = [signup EXCEPT ![s] = IdleSignup])
    BY <1>3 DEF CheckOwner
  <2>3. signup' \in [Signups -> SignupSlot]
    <3>1. CASE signup' = [signup EXCEPT ![s].pc = "save"]
      BY <1>0, <3>1 DEF SignupSlot
    <3>2. CASE signup' = [signup EXCEPT ![s] = IdleSignup]
      BY <1>0, <3>2, MetaIdle
    <3> QED
      BY <2>2, <3>1, <3>2
  <2>4. AboutSomething'
    BY <1>0, <1>3, <2>2 DEF CheckOwner, AboutSomething, SignupSlot, IdleSignup
  <2> QED
    BY <1>0, <1>3, <2>1, <2>3, <2>4 DEF CheckOwner, MetaTyped
<1>4. ASSUME NEW s \in Signups, SaveConnection(s) PROVE MetaTyped'
  <2>1. signup[s].n \in Numbers /\ clock + 1 \in 0..MaxClock /\ signup[s].b \in Businesses
    BY <1>0, <1>4 DEF SaveConnection, AboutSomething
  <2>2. CASE signup' = [signup EXCEPT ![s] = IdleSignup] /\ UNCHANGED <<biz, clock, crossed>>
    <3>1. signup' \in [Signups -> SignupSlot] /\ AboutSomething'
      BY <1>0, <1>4, <2>2, MetaIdle DEF SaveConnection, AboutSomething, IdleSignup
    <3> QED
      BY <1>0, <1>4, <2>2, <3>1 DEF SaveConnection, MetaTyped
  <2>3. CASE /\ clock' = clock + 1 /\ Replaced(signup[s].b)
             /\ signup' = [signup EXCEPT ![s] = [@ EXCEPT !.pc = "identity", !.born = clock']]
             /\ biz' = [biz EXCEPT ![signup[s].b] =
                          [status |-> "CONNECTED", number |-> signup[s].n,
                           connectedAt |-> clock', born |-> clock']]
    <3>0. [status |-> "CONNECTED", number |-> signup[s].n, connectedAt |-> clock', born |-> clock'] \in BizRow
      BY <2>1, <2>3 DEF BizRow, BizStatuses
    <3>1. biz' \in [Businesses -> BizRow] /\ clock' \in 0..MaxClock /\ crossed' \subseteq Businesses
      BY <1>0, <2>1, <2>3, <3>0 DEF Replaced
    <3>2. signup' \in [Signups -> SignupSlot]
      <4>1. signup[s] \in SignupSlot /\ clock' \in 0..MaxClock
        BY <1>0, <3>1
      <4>2. \A i \in 0..MaxClock, d \in SignupSlot : [d EXCEPT !.pc = "identity", !.born = i] \in SignupSlot
        BY DEF SignupSlot
      <4> QED
        BY <1>0, <2>3, <4>1, <4>2
    <3>3. AboutSomething'
      BY <1>0, <1>4, <2>3 DEF SaveConnection, SignupSlot, AboutSomething
    <3> QED
      BY <1>0, <1>4, <3>1, <3>2, <3>3 DEF SaveConnection, MetaTyped
  <2> QED
    BY <1>4, <2>2, <2>3 DEF SaveConnection
<1>5. ASSUME NEW s \in Signups, RecordConnectionIdentity(s) PROVE MetaTyped'
  <2>1. signup[s].b \in Businesses /\ signup[s].u \in Users
    BY <1>0, <1>5 DEF RecordConnectionIdentity, AboutSomething
  <2>2. Superseded(signup[s].b) \in Links /\ signup[s].born \in 0..MaxClock
    BY <1>0, <2>1, SupersededLinks DEF SignupSlot
  <2>3. link' \in Links
    <3>1. CASE link' = link \/ link' = Superseded(signup[s].b)
      BY <1>0, <2>2, <3>1
    <3>2. CASE link' = [Superseded(signup[s].b) EXCEPT ![signup[s].b][signup[s].u] =
                          [state |-> "live", of |-> signup[s].born]]
      <4>1. [state |-> "live", of |-> signup[s].born] \in LinkRow
        BY <2>2 DEF LinkRow
      <4> QED
        BY <2>1, <2>2, <3>2, <4>1 DEF Links
    <3> QED
      BY <1>5, <3>1, <3>2 DEF RecordConnectionIdentity
  <2>4. signup' \in [Signups -> SignupSlot] /\ AboutSomething'
    BY <1>0, <1>5, MetaIdle DEF RecordConnectionIdentity, AboutSomething, IdleSignup
  <2> QED
    BY <1>0, <1>5, <2>1, <2>3, <2>4 DEF RecordConnectionIdentity, MetaTyped, Missed
<1>6. ASSUME NEW s \in Signups, SignupDies(s) PROVE MetaTyped'
  <2>1. signup' \in [Signups -> SignupSlot] /\ AboutSomething'
    BY <1>0, <1>6, MetaIdle DEF SignupDies, AboutSomething, IdleSignup
  <2>2. crossed' \subseteq Businesses
    BY <1>0, <1>6 DEF SignupDies, Missed, AboutSomething
  <2> QED
    BY <1>0, <1>6, <2>1, <2>2 DEF SignupDies, MetaTyped
<1>7. ASSUME NEW f \in Settings, TypeCredentials(f) PROVE MetaTyped'
  <2>1. clock + 1 \in 0..MaxClock /\ form[f].b \in Businesses /\ form[f] \in FormSlot
    BY <1>0, <1>7 DEF TypeCredentials, AboutSomething
  <2>2. PICK n \in Numbers \cup {NoOne}, replaces \in BOOLEAN : StoreCredentials(f, n, replaces)
    <3> DEFINE kept == biz[form[f].b].number
               replacing(n, token) == token \/ n # form[f].was
    <3>1. kept \in Numbers \cup {NoOne} /\ TRUE \in BOOLEAN
      BY <1>0, <2>1 DEF BizRow
    <3>2. \A n, token : replacing(n, token) \in BOOLEAN
      OBVIOUS
    <3>3. \/ StoreCredentials(f, kept, TRUE)
          \/ \E n \in Numbers \cup {NoOne}, token \in BOOLEAN :
               StoreCredentials(f, n, replacing(n, token))
      BY <1>7, Zenon DEF TypeCredentials
    <3> HIDE DEF kept, replacing
    <3> QED
      BY <3>1, <3>2, <3>3, Zenon
  <2>3. /\ biz' \in [Businesses -> BizRow] /\ clock' \in 0..MaxClock
        /\ crossed' \subseteq Businesses /\ form' \in [Settings -> FormSlot] /\ AboutSomething'
    <3>0. UNCHANGED <<signup, admin>>
      BY <1>7 DEF TypeCredentials
    <3>1. CASE form' = [form EXCEPT ![f] = IdleForm] /\ UNCHANGED <<biz, clock, crossed>>
      BY <1>0, <3>0, <3>1, MetaIdle DEF AboutSomething, IdleForm
    <3>2. CASE /\ clock' = clock + 1 /\ Replaced(form[f].b)
               /\ biz' = [biz EXCEPT ![form[f].b].number = n, ![form[f].b].born = clock']
               /\ form' = [form EXCEPT ![f].pc = "supersede"]
      <4>1. biz' \in [Businesses -> BizRow]
        BY <1>0, <2>1, <2>2, <3>2 DEF BizRow
      <4>2. form' \in [Settings -> FormSlot] /\ AboutSomething'
        BY <1>0, <2>1, <3>0, <3>2 DEF FormSlot, AboutSomething
      <4>3. clock' \in 0..MaxClock /\ crossed' \subseteq Businesses
        BY <1>0, <2>1, <3>2 DEF Replaced
      <4> QED
        BY <4>1, <4>2, <4>3
    <3>3. CASE /\ biz' = [biz EXCEPT ![form[f].b].number = n]
               /\ form' = [form EXCEPT ![f] = IdleForm] /\ UNCHANGED <<clock, crossed>>
      <4>1. biz' \in [Businesses -> BizRow]
        BY <1>0, <2>1, <2>2, <3>3 DEF BizRow
      <4>2. form' \in [Settings -> FormSlot] /\ AboutSomething'
        BY <1>0, <3>0, <3>3, MetaIdle DEF AboutSomething, IdleForm
      <4> QED
        BY <1>0, <3>3, <4>1, <4>2
    <3> QED
      BY <2>2, <3>1, <3>2, <3>3 DEF StoreCredentials
  <2> QED
    BY <1>0, <1>7, <2>3 DEF TypeCredentials, MetaTyped
<1>8. ASSUME NEW f \in Settings, SettingsRead(f) \/ SupersedeLinks(f) \/ SupersedeFails(f) PROVE MetaTyped'
  <2>1. CASE SettingsRead(f)
    <3>1. PICK b \in Businesses :
            form' = [form EXCEPT ![f] = [pc |-> "write", b |-> b, was |-> biz[b].number]]
      BY <2>1 DEF SettingsRead
    <3>2. biz[b].number \in Numbers \cup {NoOne}
      BY <1>0 DEF BizRow
    <3>3. [pc |-> "write", b |-> b, was |-> biz[b].number] \in FormSlot
      BY <3>2 DEF FormSlot
    <3>4. form' \in [Settings -> FormSlot] /\ AboutSomething'
      BY <1>0, <2>1, <3>1, <3>3 DEF SettingsRead, AboutSomething
    <3> QED
      BY <1>0, <2>1, <3>4 DEF SettingsRead, MetaTyped
  <2>2. CASE SupersedeLinks(f) \/ SupersedeFails(f)
    <3>1. form[f].b \in Businesses /\ form' = [form EXCEPT ![f] = IdleForm] /\ UNCHANGED <<signup, admin>>
      BY <1>0, <2>2 DEF SupersedeLinks, SupersedeFails, AboutSomething
    <3>2. form' \in [Settings -> FormSlot] /\ AboutSomething'
      BY <1>0, <3>1, MetaIdle DEF AboutSomething, IdleForm
    <3>3. link' \in Links /\ crossed' \subseteq Businesses
      BY <1>0, <2>2, <3>1, SupersededLinks DEF SupersedeLinks, SupersedeFails, Missed
    <3> QED
      BY <1>0, <2>2, <3>2, <3>3 DEF SupersedeLinks, SupersedeFails, MetaTyped
  <2> QED
    BY <1>8, <2>1, <2>2
<1>9. ASSUME NEW b \in Businesses, Disconnect(b) PROVE MetaTyped'
  <2>1. biz' \in [Businesses -> BizRow]
    BY <1>0, <1>9, MetaIdle DEF Disconnect
  <2> QED
    BY <1>0, <1>9, <2>1 DEF Disconnect, MetaTyped, AboutSomething
<1>10. ASSUME NEW b \in Businesses, NEW u \in Users, VerifyAndLink(b, u) PROVE MetaTyped'
  <2>1. [state |-> "live", of |-> biz[b].born] \in LinkRow
    BY <1>0 DEF BizRow, LinkRow
  <2>2. link' \in Links
    BY <1>0, <1>10, <2>1 DEF VerifyAndLink, Links
  <2> QED
    BY <1>0, <1>10, <2>2 DEF VerifyAndLink, MetaTyped, AboutSomething
<1>11. ASSUME NEW k \in Deauths, req' \in [Callbacks -> ReqRow],
              req'[k].status \in DeauthFinal \cup {"none", "NO_ACTION_UNVERIFIED"},
              \A i \in Callbacks \ {k} : req'[i].status = req[i].status
       PROVE  ReqTyped
  BY <1>11 DEF MetaTyped, Callbacks
<1>12. ASSUME NEW k \in Deletions, req' \in [Callbacks -> ReqRow],
              req'[k].status \in DeletionFinal \cup {"none", "PENDING_REVIEW"},
              \A i \in Callbacks \ {k} : req'[i].status = req[i].status
       PROVE  ReqTyped
  BY <1>12 DEF MetaTyped, Callbacks
<1>13. ASSUME NEW k \in Deauths, HandleDeauthorization(k) PROVE MetaTyped'
  <2>1. PICK r \in ReqRow : /\ req' = [req EXCEPT ![k] = r]
                            /\ r.status \in DeauthFinal \cup {"NO_ACTION_UNVERIFIED"}
    BY <1>13, DeauthRecorded
  <2>2. ReqTyped
    BY <1>0, <1>11, <2>1 DEF Callbacks
  <2>3. forgotten' \subseteq Users
    BY <1>0, <1>13 DEF HandleDeauthorization
  <2>4. biz' \in [Businesses -> BizRow] /\ link' \in Links
    BY <1>13, DeauthRecorded
  <2>5. UNCHANGED <<verified, signup, form, admin, clock, crossed>>
    BY <1>13 DEF HandleDeauthorization
  <2> QED
    BY <1>0, <2>2, <2>3, <2>4, <2>5 DEF MetaTyped, AboutSomething
<1>14. ASSUME NEW k \in Deletions, HandleDataDeletion(k) PROVE MetaTyped'
  <2>1. UNCHANGED <<verified, signup, form, admin, clock, crossed>>
    BY <1>14 DEF HandleDataDeletion
  <2>2. Author[k] \in Users
    BY <1>14
  <2>3. CASE \E r \in ReqRow :
               /\ r.status = "PENDING_REVIEW" /\ r.user = Author[k]
               /\ req' = [req EXCEPT ![k] = r] /\ forgotten' = forgotten \ {Author[k]}
               /\ UNCHANGED <<biz, link>>
    <3>1. ReqTyped
      BY <1>0, <1>12, <2>3 DEF Callbacks
    <3> QED
      BY <1>0, <2>1, <2>3, <3>1 DEF MetaTyped, AboutSomething
  <2>4. CASE \E r \in ReqRow :
               /\ r.status = "COMPLETED" /\ r.user = NoOne
               /\ ForgetUser(Author[k], k, r) /\ ForgetLinks(Author[k])
               /\ RevokeConnections(LiveLinked(Author[k]))
               /\ forgotten' = forgotten \cup {Author[k]}
    <3>1. PICK r \in ReqRow :
               /\ r.status = "COMPLETED" /\ r.user = NoOne
               /\ ForgetUser(Author[k], k, r) /\ ForgetLinks(Author[k])
               /\ RevokeConnections(LiveLinked(Author[k]))
               /\ forgotten' = forgotten \cup {Author[k]}
      BY <2>4
    <3>2. k \in Callbacks
      BY DEF Callbacks
    <3>3. ReqTyped
      BY <1>0, <1>12, <2>2, <3>1, <3>2, ForgottenUser DEF DeletionFinal
    <3>4. link' \in Links
      BY <1>0, <2>2, <3>1, ForgottenLinks
    <3>5. biz' \in [Businesses -> BizRow]
      BY <1>0, <3>1, RevokedConnections
    <3> QED
      BY <1>0, <2>1, <2>2, <3>1, <3>3, <3>4, <3>5 DEF MetaTyped, AboutSomething
  <2> QED
    BY <1>14, <2>3, <2>4, DeletionRecorded
<1>15. ASSUME NEW a \in Admins, NEW k \in Deauths, LoadDeauthorization(a, k) PROVE MetaTyped'
  <2>1. admin' \in [Admins -> AdminSlot] /\ AboutSomething'
    BY <1>0, <1>15 DEF LoadDeauthorization, AdminSlot, AboutSomething, Callbacks
  <2> QED
    BY <1>0, <1>15, <2>1 DEF LoadDeauthorization, MetaTyped
<1>16. ASSUME NEW a \in Admins, NEW k \in Deletions, LoadDeletionRequest(a, k) PROVE MetaTyped'
  <2>1. req[k].user \in Users \cup {NoOne}
    BY <1>0 DEF ReqRow, Callbacks
  <2>2. admin' \in [Admins -> AdminSlot] /\ AboutSomething'
    BY <1>0, <1>16, <2>1 DEF LoadDeletionRequest, AdminSlot, AboutSomething, Callbacks
  <2> QED
    BY <1>0, <1>16, <2>2 DEF LoadDeletionRequest, MetaTyped
<1>17. ASSUME NEW a \in Admins, NEW named \in SUBSET Businesses, ResolveDeauthorization(a, named)
       PROVE  MetaTyped'
  <2>1. admin' = [admin EXCEPT ![a] = IdleAdmin] /\ UNCHANGED <<verified, signup, form, clock, forgotten, crossed>>
    BY <1>17 DEF ResolveDeauthorization
  <2>2. admin' \in [Admins -> AdminSlot] /\ AboutSomething'
    BY <1>0, <2>1, MetaIdle DEF AboutSomething, IdleAdmin
  <2>3. ReqTyped
    <3>1. CASE req' = req
      BY <1>0, <3>1 DEF MetaTyped
    <3>2. CASE req' # req
      <4>1. admin[a].k \in Deauths
        BY <1>17, <3>2, DeauthResolved
      <4>2. PICK r \in ReqRow : r.status \in DeauthFinal /\ req' = [req EXCEPT ![admin[a].k] = r]
        BY <1>17, <3>2, DeauthResolved
      <4> QED
        BY <1>0, <1>11, <4>1, <4>2 DEF Callbacks
    <3> QED
      BY <3>1, <3>2
  <2>4. biz' \in [Businesses -> BizRow] /\ link' \in Links
    BY <1>17, DeauthResolved
  <2> QED
    BY <1>0, <2>1, <2>2, <2>3, <2>4 DEF MetaTyped
<1>18. ASSUME NEW a \in Admins, NEW named \in SUBSET Businesses, ResolveDeletion(a, named)
       PROVE  MetaTyped'
  <2> DEFINE k == admin[a].k
             u == admin[a].user
  <2>1. admin' = [admin EXCEPT ![a] = IdleAdmin] /\ UNCHANGED <<verified, signup, form, clock, crossed>>
    BY <1>18 DEF ResolveDeletion
  <2>2. admin' \in [Admins -> AdminSlot] /\ AboutSomething'
    BY <1>0, <2>1, MetaIdle DEF AboutSomething, IdleAdmin
  <2>3. CASE UNCHANGED <<biz, link, req, forgotten>>
    BY <1>0, <2>1, <2>2, <2>3 DEF MetaTyped
  <2>4. CASE ~UNCHANGED <<biz, link, req, forgotten>>
    <3>1. PICK r \in ReqRow :
            /\ r.status \in DeletionFinal
            /\ \/ req' = [req EXCEPT ![k] = r] /\ UNCHANGED <<link, forgotten>>
               \/ /\ u \in Users /\ ForgetUser(u, k, r) /\ ForgetLinks(u)
                  /\ forgotten' = forgotten \cup {u}
      BY <1>18, <2>4, DeletionResolved
    <3>2. k \in Deletions /\ RevokeConnections(named)
      BY <1>18, <2>4, DeletionResolved
    <3>3. biz' \in [Businesses -> BizRow]
      BY <1>0, <3>2, RevokedConnections
    <3>4. k \in Callbacks
      BY <3>2 DEF Callbacks
    <3>5. CASE req' = [req EXCEPT ![k] = r] /\ UNCHANGED <<link, forgotten>>
      <4>1. ReqTyped
        BY <1>0, <1>12, <3>1, <3>2, <3>4, <3>5
      <4> QED
        BY <1>0, <2>1, <2>2, <3>3, <3>5, <4>1 DEF MetaTyped
    <3>6. CASE /\ u \in Users /\ ForgetUser(u, k, r) /\ ForgetLinks(u)
               /\ forgotten' = forgotten \cup {u}
      <4>1. ReqTyped
        BY <1>0, <1>12, <3>1, <3>2, <3>4, <3>6, ForgottenUser
      <4>2. link' \in Links
        BY <1>0, <3>6, ForgottenLinks
      <4> QED
        BY <1>0, <2>1, <2>2, <3>3, <3>6, <4>1, <4>2 DEF MetaTyped
    <3> QED
      BY <3>1, <3>5, <3>6
  <2> QED
    BY <2>3, <2>4
<1>19. ASSUME UNCHANGED metaVars PROVE MetaTyped'
  BY <1>0, <1>19 DEF metaVars, MetaTyped, AboutSomething
<1> QED
  BY <1>1, <1>2, <1>3, <1>4, <1>5, <1>6, <1>7, <1>8, <1>9, <1>10, <1>13, <1>14, <1>15, <1>16,
     <1>17, <1>18, <1>19
     DEF MetaNext, Signup, Setting, AdminStep

LEMMA MetaInvariant == MetaSpec => []MetaTyped
BY MetaStarts, MetaTypedStep, PTL DEF MetaSpec

(* The connections, links, callback requests and everyone at work on them   *)
(* stay well typed, and a callback only has outcomes of its own kind        *)
(* (meta-callbacks.service.ts and both admin services).                     *)
THEOREM MetaTypes == MetaSpec => []MetaTypeOK
<1>1. MetaTyped => MetaTypeOK
  BY DEF MetaTyped, MetaTypeOK, BizRow, Links, LinkRow, ReqRow, Callbacks
<1> QED
  BY <1>1, MetaInvariant, PTL

\* An action that writes one request, and only one that nobody has decided.
Decides(k) ==
  /\ req[k].status \in {"none", "NO_ACTION_UNVERIFIED", "PENDING_REVIEW"}
  /\ \A i \in Callbacks \ {k} : req'[i].status = req[i].status /\ req'[i].matched = req[i].matched

(* What was decided about a callback stays decided, for any number of       *)
(* admins that hold an older view of it and any number of repeated          *)
(* deliveries (the conditional claim of both admin services).               *)
THEOREM DecidedStaysDecided == MetaSpec => ResolvedOnce
<1>1. ASSUME MetaTyped, [MetaNext]_metaVars
      PROVE  [\A k \in Callbacks :
                req[k].status \in (IF k \in Deauths THEN DeauthFinal ELSE DeletionFinal)
                  => req'[k].status = req[k].status /\ req'[k].matched = req[k].matched]_metaVars
  <2> SUFFICES ASSUME MetaNext, NEW k \in Callbacks,
                      req[k].status \in DeauthFinal \cup DeletionFinal
               PROVE  req'[k].status = req[k].status /\ req'[k].matched = req[k].matched
    BY <1>1
  <2>0. req \in [Callbacks -> ReqRow] /\ Deauths \subseteq Callbacks /\ Deletions \subseteq Callbacks
    BY <1>1 DEF MetaTyped, Callbacks
  <2>1. ASSUME NEW i \in Callbacks, Decides(i)
        PROVE  req'[k].status = req[k].status /\ req'[k].matched = req[k].matched
    BY <2>1 DEF Decides, DeauthFinal, DeletionFinal
  <2>2. ASSUME NEW i \in Deauths, HandleDeauthorization(i) PROVE Decides(i)
    BY <1>1, <2>0, <2>2, DeauthRecorded DEF Decides, HandleDeauthorization
  <2>3. ASSUME NEW i \in Deletions, HandleDataDeletion(i) PROVE Decides(i)
    <3>1. req[i].status = "none" /\ Author[i] \in Users
      BY <2>3, MetaAssumption DEF HandleDataDeletion
    <3> QED
      BY <1>1, <2>0, <2>3, <3>1, DeletionRecorded, ForgottenUser DEF Decides
  <2>4. ASSUME NEW a \in Admins, NEW named \in SUBSET Businesses, ResolveDeauthorization(a, named)
        PROVE  req' = req \/ Decides(admin[a].k)
    BY <1>1, <2>0, <2>4, DeauthResolved DEF Decides
  <2>5. ASSUME NEW a \in Admins, NEW named \in SUBSET Businesses, ResolveDeletion(a, named)
        PROVE  req' = req \/ Decides(admin[a].k)
    BY <1>1, <2>0, <2>5, DeletionResolved, ForgottenUser DEF Decides
  <2>6. ASSUME NEW a \in Admins, NEW named \in SUBSET Businesses,
               ResolveDeauthorization(a, named) \/ ResolveDeletion(a, named)
        PROVE  admin[a].k \in Callbacks \/ req' = req
    BY <1>1, <2>0, <2>6, DeauthResolved, DeletionResolved
  <2>7. CASE req' = req
    BY <2>7
  <2> QED
    BY <2>0, <2>1, <2>2, <2>3, <2>4, <2>5, <2>6, <2>7
       DEF MetaNext, Signup, Setting, AdminStep, StartOnboarding, OnboardingStep, CheckOwner,
           SaveConnection, RecordConnectionIdentity, SignupDies, SettingsRead, TypeCredentials,
           SupersedeLinks, SupersedeFails, Disconnect, VerifyAndLink, LoadDeauthorization,
           LoadDeletionRequest
<1> QED
  BY <1>1, MetaInvariant, PTL DEF MetaSpec, ResolvedOnce

(* A user whose deletion was completed has left no trace in the links and   *)
(* the audit rows, whatever signups, links, resolutions and callbacks about *)
(* others interleave with it, until somebody brings the id again            *)
(* (deleteLinksForUser, anonymise).                                         *)
THEOREM DeletedUsersAreForgotten == MetaSpec => []Forgotten
<1>1. MetaInit => Forgotten
  BY DEF MetaInit, Forgotten
<1>2. ASSUME MetaTyped, Forgotten, [MetaNext]_metaVars PROVE Forgotten'
  <2>0. /\ req \in [Callbacks -> ReqRow] /\ Deauths \subseteq Callbacks /\ Deletions \subseteq Callbacks
        /\ link \in Links /\ forgotten \subseteq Users
    BY <1>2 DEF MetaTyped, Callbacks
  <2>1. \A v \in forgotten : /\ \A c \in Businesses : link[c][v].state = "none"
                             /\ \A i \in Callbacks : req[i].user # v
    BY <1>2 DEF Forgotten, Linked
  <2> DEFINE Clean(v) == /\ \A c \in Businesses : link'[c][v].state = "none"
                         /\ \A i \in Callbacks : req'[i].user # v
  <2>2. SUFFICES ASSUME NEW v \in forgotten' PROVE Clean(v)
    BY DEF Forgotten, Linked
  <2>3. CASE UNCHANGED <<link, req, forgotten>>
    BY <2>1, <2>2, <2>3
  <2>4. ASSUME NEW s \in Signups, RecordConnectionIdentity(s) PROVE Clean(v)
    <3> DEFINE b == signup[s].b
               u == signup[s].u
    <3>1. b \in Businesses /\ req' = req /\ forgotten' \subseteq forgotten
      BY <1>2, <2>4 DEF RecordConnectionIdentity, MetaTyped, AboutSomething
    <3>2. v \in forgotten /\ v \in Users
      BY <2>0, <2>2, <3>1
    <3>3. \A c \in Businesses : Superseded(b)[c][v].state = "none"
      BY <2>0, <2>1, <3>1, <3>2, SupersededLinks
    <3>4. CASE link' = link \/ link' = Superseded(b)
      BY <2>1, <3>1, <3>2, <3>3, <3>4
    <3>5. CASE /\ link' = [Superseded(b) EXCEPT ![b][u] = [state |-> "live", of |-> signup[s].born]]
               /\ forgotten' = forgotten \ {u}
      <4>1. v # u
        BY <2>2, <3>5
      <4>2. Superseded(b) \in Links
        BY <2>0, <3>1, SupersededLinks
      <4>3. \A c \in Businesses : link'[c][v] = Superseded(b)[c][v]
        BY <3>1, <3>2, <3>5, <4>1, <4>2 DEF Links
      <4> QED
        BY <2>1, <3>1, <3>2, <3>3, <4>3
    <3> QED
      BY <2>4, <3>4, <3>5 DEF RecordConnectionIdentity
  <2>5. ASSUME NEW f \in Settings, SupersedeLinks(f) PROVE Clean(v)
    <3>1. /\ form[f].b \in Businesses /\ link' = Superseded(form[f].b)
          /\ UNCHANGED <<req, forgotten>>
      BY <1>2, <2>5 DEF SupersedeLinks, MetaTyped, AboutSomething
    <3> QED
      BY <2>0, <2>1, <2>2, <3>1, SupersededLinks
  <2>6. ASSUME NEW b \in Businesses, NEW u \in Users, VerifyAndLink(b, u) PROVE Clean(v)
    <3>1. v # u /\ v \in forgotten /\ v \in Users /\ req' = req
      BY <2>0, <2>2, <2>6 DEF VerifyAndLink
    <3>2. \A c \in Businesses : link'[c][v] = link[c][v]
      BY <2>0, <2>6, <3>1 DEF VerifyAndLink, Links
    <3> QED
      BY <2>1, <3>1, <3>2
  <2>7. ASSUME NEW k \in Deauths, HandleDeauthorization(k) PROVE Clean(v)
    <3>1. forgotten' = forgotten \ {Author[k]}
      BY <2>7 DEF HandleDeauthorization
    <3>2. v # Author[k] /\ v \in forgotten /\ v \in Users
      BY <2>0, <2>2, <3>1
    <3> QED
      BY <1>2, <2>0, <2>1, <2>7, <3>2, DeauthRecorded
  <2>8. ASSUME NEW k \in Deletions, HandleDataDeletion(k) PROVE Clean(v)
    <3>1. Author[k] \in Users /\ k \in Callbacks
      BY MetaAssumption DEF Callbacks
    <3>2. CASE \E r \in ReqRow :
                 /\ r.status = "PENDING_REVIEW" /\ r.user = Author[k]
                 /\ req' = [req EXCEPT ![k] = r] /\ forgotten' = forgotten \ {Author[k]}
                 /\ UNCHANGED <<biz, link>>
      BY <2>0, <2>1, <2>2, <3>1, <3>2
    <3>3. CASE \E r \in ReqRow :
                 /\ r.status = "COMPLETED" /\ r.user = NoOne
                 /\ ForgetUser(Author[k], k, r) /\ ForgetLinks(Author[k])
                 /\ RevokeConnections(LiveLinked(Author[k]))
                 /\ forgotten' = forgotten \cup {Author[k]}
      <4>1. PICK r \in ReqRow :
                 /\ r.user = NoOne
                 /\ ForgetUser(Author[k], k, r) /\ ForgetLinks(Author[k])
                 /\ forgotten' = forgotten \cup {Author[k]}
        BY <3>3
      <4> QED
        BY <2>0, <2>1, <2>2, <3>1, <4>1, ForgottenUser, ForgottenLinks, MetaAssumption
    <3> QED
      BY <1>2, <2>8, <3>2, <3>3, DeletionRecorded
  <2>9. ASSUME NEW a \in Admins, NEW named \in SUBSET Businesses, ResolveDeauthorization(a, named)
        PROVE  Clean(v)
    <3>1. forgotten' = forgotten /\ v \in Users
      BY <2>0, <2>2, <2>9 DEF ResolveDeauthorization
    <3> QED
      BY <1>2, <2>0, <2>1, <2>2, <2>9, <3>1, DeauthResolved
  <2>10. ASSUME NEW a \in Admins, NEW named \in SUBSET Businesses, ResolveDeletion(a, named)
         PROVE  Clean(v)
    <3> DEFINE k == admin[a].k
               u == admin[a].user
    <3>1. CASE UNCHANGED <<biz, link, req, forgotten>>
      BY <2>1, <2>2, <3>1
    <3>2. CASE ~UNCHANGED <<biz, link, req, forgotten>>
      <4>1. k \in Callbacks
        BY <1>2, <2>0, <2>10, <3>2, DeletionResolved
      <4>2. PICK r \in ReqRow :
              /\ r.user = NoOne
              /\ \/ req' = [req EXCEPT ![k] = r] /\ UNCHANGED <<link, forgotten>>
                 \/ /\ u \in Users /\ ForgetUser(u, k, r) /\ ForgetLinks(u)
                    /\ forgotten' = forgotten \cup {u}
        BY <1>2, <2>10, <3>2, DeletionResolved
      <4>3. CASE req' = [req EXCEPT ![k] = r] /\ UNCHANGED <<link, forgotten>>
        BY <2>0, <2>1, <2>2, <4>1, <4>2, <4>3, MetaAssumption
      <4>4. CASE /\ u \in Users /\ ForgetUser(u, k, r) /\ ForgetLinks(u)
                 /\ forgotten' = forgotten \cup {u}
        BY <2>0, <2>1, <2>2, <4>1, <4>2, <4>4, ForgottenUser, ForgottenLinks, MetaAssumption
      <4> QED
        BY <4>2, <4>3, <4>4
    <3> QED
      BY <3>1, <3>2
  <2> QED
    BY <1>2, <2>3, <2>4, <2>5, <2>6, <2>7, <2>8, <2>9, <2>10
       DEF MetaNext, metaVars, Signup, Setting, AdminStep, StartOnboarding, OnboardingStep,
           CheckOwner, SaveConnection, SignupDies, SettingsRead, TypeCredentials, SupersedeFails,
           Disconnect, LoadDeauthorization, LoadDeletionRequest
<1> QED
  BY <1>1, <1>2, MetaInvariant, PTL DEF MetaSpec

(***************************************************************************)
(* A signup that is still to write the links of its connection wrote the   *)
(* connection that is there, unless another change has crossed it.         *)
(***************************************************************************)
FollowsTheLast ==
  \A s \in Signups : signup[s].pc = "identity" /\ signup[s].b \notin crossed
    => biz[signup[s].b].born \in {0, signup[s].born}

LinkInv == FollowsTheLast /\ LinksFollowTheConnection

\* A step that moves no signup and no form, stores no connection and revives no link.
LEMMA LinksUndisturbed ==
  ASSUME LinkInv, UNCHANGED <<signup, form, crossed>>,
         \A b \in Businesses : biz'[b].born \in {0, biz[b].born},
         \A b \in Businesses, u \in Users :
           link'[b][u].state = "live" => link'[b][u] = link[b][u],
         \A s \in Signups : signup[s].pc = "identity" => signup[s].b \in Businesses
  PROVE  LinkInv'
BY DEF LinkInv, FollowsTheLast, LinksFollowTheConnection, Following

LEMMA LinksStep ==
  ASSUME MetaTyped, LinkInv, [MetaNext]_metaVars PROVE LinkInv'
<1> USE MetaAssumption
<1>0. /\ biz \in [Businesses -> BizRow] /\ link \in Links /\ signup \in [Signups -> SignupSlot]
      /\ form \in [Settings -> FormSlot] /\ AboutSomething
      /\ \A s \in Signups : signup[s].pc = "identity" => signup[s].b \in Businesses
  BY DEF MetaTyped, AboutSomething
<1>1. ASSUME NEW s \in Signups, signup' = [signup EXCEPT ![s] = signup'[s]],
             signup[s].pc # "identity", signup'[s].pc # "identity",
             UNCHANGED <<form, crossed, link>>, \A b \in Businesses : biz'[b].born = biz[b].born
      PROVE  LinkInv'
  BY <1>0, <1>1 DEF LinkInv, FollowsTheLast, LinksFollowTheConnection, Following
<1>2. ASSUME NEW s \in Signups, StartOnboarding(s) \/ OnboardingStep(s) \/ CheckOwner(s) PROVE LinkInv'
  <2>1. \A b \in Businesses : biz'[b].born = biz[b].born
    BY <1>0, <1>2, StatusSet DEF StartOnboarding, OnboardingStep, CheckOwner, BizStatuses
  <2>2. UNCHANGED <<form, crossed, link>> /\ signup[s].pc # "identity"
    BY <1>2 DEF StartOnboarding, OnboardingStep, CheckOwner
  <2>3. signup' = [signup EXCEPT ![s] = signup'[s]] /\ signup'[s].pc # "identity"
    <3>1. CASE StartOnboarding(s)
      BY <1>0, <3>1 DEF StartOnboarding, IdleSignup
    <3>2. CASE OnboardingStep(s)
      <4>1. \/ signup' = signup
            \/ signup' = [signup EXCEPT ![s] = IdleSignup]
        BY <3>2 DEF OnboardingStep
      <4>2. CASE signup' = signup
        BY <1>0, <3>2, <4>2 DEF OnboardingStep
      <4>3. CASE signup' = [signup EXCEPT ![s] = IdleSignup]
        BY <1>0, <3>2, <4>3 DEF OnboardingStep, IdleSignup
      <4> QED
        BY <4>1, <4>2, <4>3
    <3>3. CASE CheckOwner(s)
      BY <1>0, <3>3 DEF CheckOwner, IdleSignup, SignupSlot
    <3> QED
      BY <1>2, <3>1, <3>2, <3>3
  <2> QED
    BY <1>1, <2>1, <2>2, <2>3
<1>3. ASSUME NEW s \in Signups, SaveConnection(s) PROVE LinkInv'
  <2>0. PICK b \in Businesses : b = signup[s].b /\ signup[s].pc = "save" /\ UNCHANGED <<link, form>>
    BY <1>0, <1>3 DEF SaveConnection, AboutSomething
  <2>1. CASE signup' = [signup EXCEPT ![s] = IdleSignup] /\ UNCHANGED <<biz, clock, crossed>>
    BY <1>0, <1>1, <2>0, <2>1 DEF IdleSignup
  <2>2. CASE /\ clock' = clock + 1 /\ Replaced(b)
             /\ signup' = [signup EXCEPT ![s] = [@ EXCEPT !.pc = "identity", !.born = clock']]
             /\ biz' = [biz EXCEPT ![b] = [status |-> "CONNECTED", number |-> signup[s].n,
                                          connectedAt |-> clock', born |-> clock']]
    <3>1. /\ signup'[s].pc = "identity" /\ signup'[s].b = b /\ signup'[s].born = clock'
          /\ \A t \in Signups \ {s} : signup'[t] = signup[t]
      BY <1>0, <2>0, <2>2 DEF SignupSlot
    <3>2. biz'[b].born = clock' /\ \A c \in Businesses \ {b} : biz'[c] = biz[c]
      BY <1>0, <2>0, <2>2
    <3>3. \A c \in Businesses \ {b} : c \in crossed' <=> c \in crossed
      BY <2>2 DEF Replaced
    <3>4. \A t \in Signups \ {s} : signup[t].pc = "identity" /\ signup[t].b = b => b \in crossed'
      BY <2>2 DEF Replaced
    <3>5. FollowsTheLast'
      BY <1>0, <2>0, <3>1, <3>2, <3>3, <3>4 DEF LinkInv, FollowsTheLast
    <3>6. Following(b)' /\ \A c \in Businesses \ {b} : Following(c)' <=> Following(c)
      <4>1. \A c \in Businesses \ {b}, t \in Signups :
              signup'[t].pc = "identity" /\ signup'[t].b = c <=> signup[t].pc = "identity" /\ signup[t].b = c
        BY <2>0, <3>1
      <4> QED
        BY <2>0, <3>1, <4>1 DEF Following
    <3>7. LinksFollowTheConnection'
      BY <2>0, <3>2, <3>3, <3>6 DEF LinkInv, LinksFollowTheConnection
    <3> QED
      BY <3>5, <3>7 DEF LinkInv
  <2> QED
    BY <1>3, <2>0, <2>1, <2>2 DEF SaveConnection
\* The last step of a signup or a form that stored a connection of b.
<1>4. ASSUME NEW b \in Businesses, UNCHANGED biz, crossed \subseteq crossed', crossed' \subseteq crossed \cup {b},
             \A s \in Signups : signup'[s].pc = "identity" => signup'[s] = signup[s],
             \A c \in Businesses \ {b} : (Following(c)' <=> Following(c)) /\ link'[c] = link[c],
             \/ b \in crossed'
             \/ biz[b].born # 0 => \A u \in Users : link'[b][u].state = "live" => link'[b][u].of = biz[b].born
      PROVE  LinkInv'
  <2>1. FollowsTheLast'
    BY <1>4 DEF LinkInv, FollowsTheLast
  <2>2. LinksFollowTheConnection'
    BY <1>4 DEF LinkInv, LinksFollowTheConnection
  <2> QED
    BY <2>1, <2>2 DEF LinkInv
<1>5. ASSUME NEW s \in Signups, RecordConnectionIdentity(s) PROVE LinkInv'
  <2> DEFINE b == signup[s].b
             u == signup[s].u
  <2>0. b \in Businesses /\ u \in Users /\ signup[s].pc = "identity"
    BY <1>0, <1>5 DEF RecordConnectionIdentity, AboutSomething
  <2>1. /\ UNCHANGED <<biz, form>> /\ \A t \in Signups \ {s} : signup'[t] = signup[t]
        /\ signup'[s].pc = "idle"
    BY <1>0, <1>5 DEF RecordConnectionIdentity, IdleSignup
  <2>2. \A c \in Businesses \ {b} : Following(c)' <=> Following(c)
    BY <2>0, <2>1 DEF Following
  <2>3. /\ Superseded(b) \in Links /\ \A v \in Users : Superseded(b)[b][v].state # "live"
        /\ \A c \in Businesses \ {b} : Superseded(b)[c] = link[c]
    BY <1>0, <2>0, SupersededLinks
  <2>4. \A t \in Signups : signup'[t].pc = "identity" => signup'[t] = signup[t]
    BY <2>1
  <2>5. CASE Missed(b) /\ UNCHANGED link
    BY <1>4, <2>0, <2>1, <2>2, <2>4, <2>5 DEF Missed
  <2>6. CASE link' = Superseded(b) /\ UNCHANGED crossed
    BY <1>4, <2>0, <2>1, <2>2, <2>3, <2>4, <2>6
  <2>7. CASE /\ link' = [Superseded(b) EXCEPT ![b][u] = [state |-> "live", of |-> signup[s].born]]
             /\ UNCHANGED crossed
    <3>1. \A c \in Businesses \ {b} : link'[c] = link[c]
      BY <2>0, <2>3, <2>7 DEF Links
    <3>2. /\ link'[b][u].of = signup[s].born
          /\ \A v \in Users \ {u} : link'[b][v].state # "live"
      BY <2>0, <2>3, <2>7 DEF Links
    <3>3. b \in crossed \/ biz[b].born \in {0, signup[s].born}
      BY <2>0 DEF LinkInv, FollowsTheLast
    <3>4. \/ b \in crossed'
          \/ biz[b].born # 0 => \A v \in Users : link'[b][v].state = "live" => link'[b][v].of = biz[b].born
      BY <2>7, <3>2, <3>3
    <3> QED
      BY <1>4, <2>0, <2>1, <2>2, <2>4, <2>7, <3>1, <3>4
  <2> QED
    BY <1>5, <2>5, <2>6, <2>7 DEF RecordConnectionIdentity
<1>6. ASSUME NEW s \in Signups, SignupDies(s) PROVE LinkInv'
  <2> DEFINE b == signup[s].b
  <2>1. /\ UNCHANGED <<biz, form, link>> /\ \A t \in Signups \ {s} : signup'[t] = signup[t]
        /\ signup'[s].pc = "idle" /\ b \in Businesses
    BY <1>0, <1>6 DEF SignupDies, IdleSignup, AboutSomething
  <2>2. CASE signup[s].pc = "identity"
    <3>1. \A c \in Businesses \ {b} : Following(c)' <=> Following(c)
      BY <2>1, <2>2 DEF Following
    <3>2. Missed(b)
      BY <1>6, <2>2 DEF SignupDies
    <3>3. \A t \in Signups : signup'[t].pc = "identity" => signup'[t] = signup[t]
      BY <2>1
    <3> QED
      BY <1>4, <2>1, <3>1, <3>2, <3>3 DEF Missed
  <2>3. CASE signup[s].pc # "identity"
    <3>1. signup' = [signup EXCEPT ![s] = signup'[s]] /\ UNCHANGED crossed
      BY <1>0, <1>6, <2>3 DEF SignupDies
    <3> QED
      BY <1>1, <2>1, <2>3, <3>1
  <2> QED
    BY <2>2, <2>3
<1>7. ASSUME NEW f \in Settings, TypeCredentials(f) PROVE LinkInv'
  <2>0. PICK b \in Businesses : b = form[f].b /\ form[f].pc = "write" /\ UNCHANGED <<link, signup>>
    BY <1>0, <1>7 DEF TypeCredentials, AboutSomething
  <2>1. PICK n, replaces : StoreCredentials(f, n, replaces)
    BY <1>7 DEF TypeCredentials
  <2>2. CASE /\ form' = [form EXCEPT ![f] = IdleForm] /\ UNCHANGED crossed
             /\ biz' = biz \/ biz' = [biz EXCEPT ![b].number = n]
    <3>1. \A c \in Businesses : biz'[c].born = biz[c].born
      BY <1>0, <2>0, <2>2 DEF BizRow
    <3>2. \A c \in Businesses : Following(c)' <=> Following(c)
      BY <1>0, <2>0, <2>2 DEF Following, IdleForm
    <3> QED
      BY <1>0, <2>0, <2>2, <3>1, <3>2 DEF LinkInv, FollowsTheLast, LinksFollowTheConnection
  <2>3. CASE /\ form' = [form EXCEPT ![f].pc = "supersede"] /\ Replaced(b)
             /\ biz' = [biz EXCEPT ![b].number = n, ![b].born = clock']
    <3>2. \A c \in Businesses \ {b} : biz'[c] = biz[c] /\ (c \in crossed' <=> c \in crossed)
      BY <1>0, <2>0, <2>3 DEF Replaced
    <3>3. \A t \in Signups : signup[t].pc = "identity" /\ signup[t].b = b => b \in crossed'
      BY <2>3 DEF Replaced
    <3>4. FollowsTheLast'
      BY <1>0, <2>0, <3>2, <3>3 DEF LinkInv, FollowsTheLast
    <3>5. form'[f].pc = "supersede" /\ form'[f].b = b /\ \A g \in Settings \ {f} : form'[g] = form[g]
      BY <1>0, <2>0, <2>3 DEF FormSlot
    <3>6. Following(b)' /\ \A c \in Businesses \ {b} : Following(c)' <=> Following(c)
      <4>1. \A c \in Businesses \ {b}, g \in Settings :
              form'[g].pc = "supersede" /\ form'[g].b = c <=> form[g].pc = "supersede" /\ form[g].b = c
        BY <2>0, <3>5
      <4> QED
        BY <2>0, <3>5, <4>1 DEF Following
    <3>7. LinksFollowTheConnection'
      BY <2>0, <3>2, <3>6 DEF LinkInv, LinksFollowTheConnection
    <3> QED
      BY <3>4, <3>7 DEF LinkInv
  <2> QED
    BY <2>0, <2>1, <2>2, <2>3 DEF StoreCredentials
<1>8. ASSUME NEW f \in Settings, SupersedeLinks(f) \/ SupersedeFails(f) PROVE LinkInv'
  <2> DEFINE b == form[f].b
  <2>1. /\ b \in Businesses /\ UNCHANGED <<biz, signup>> /\ form[f].pc = "supersede"
        /\ \A g \in Settings \ {f} : form'[g] = form[g]
        /\ form'[f].pc = "idle"
    BY <1>0, <1>8 DEF SupersedeLinks, SupersedeFails, AboutSomething, IdleForm
  <2>2. \A c \in Businesses \ {b} : Following(c)' <=> Following(c)
    BY <2>1 DEF Following
  <2>3. CASE SupersedeLinks(f)
    BY <1>0, <1>4, <2>1, <2>2, <2>3, SupersededLinks DEF SupersedeLinks
  <2>4. CASE SupersedeFails(f)
    BY <1>4, <2>1, <2>2, <2>4 DEF SupersedeFails, Missed
  <2> QED
    BY <1>8, <2>3, <2>4
<1>9. ASSUME NEW f \in Settings, SettingsRead(f) PROVE LinkInv'
  <2>1. /\ UNCHANGED <<biz, link, signup, crossed>> /\ form[f].pc = "idle"
        /\ \A g \in Settings \ {f} : form'[g] = form[g]
        /\ form'[f].pc = "write"
    BY <1>0, <1>9 DEF SettingsRead
  <2>2. \A c \in Businesses : Following(c)' <=> Following(c)
    BY <2>1 DEF Following
  <2> QED
    BY <2>1, <2>2 DEF LinkInv, FollowsTheLast, LinksFollowTheConnection
<1>10. ASSUME NEW b \in Businesses, Disconnect(b) PROVE LinkInv'
  <2>1. \A c \in Businesses : biz'[c].born \in {0, biz[c].born}
    BY <1>0, <1>10 DEF Disconnect, Cleared
  <2> QED
    BY <1>0, <1>10, <2>1, LinksUndisturbed DEF Disconnect
<1>11. ASSUME NEW b \in Businesses, NEW u \in Users, VerifyAndLink(b, u) PROVE LinkInv'
  <2>1. link'[b][u].of = biz[b].born
    BY <1>0, <1>11 DEF VerifyAndLink, Links
  <2>2. \A c \in Businesses, v \in Users : <<c, v>> # <<b, u>> => link'[c][v] = link[c][v]
    BY <1>0, <1>11 DEF VerifyAndLink, Links
  <2>3. UNCHANGED <<biz, signup, form, crossed>>
    BY <1>11 DEF VerifyAndLink
  <2>4. \A c \in Businesses : Following(c)' <=> Following(c)
    BY <2>3 DEF Following
  <2>5. LinksFollowTheConnection'
    BY <2>1, <2>2, <2>3, <2>4 DEF LinkInv, LinksFollowTheConnection
  <2> QED
    BY <2>3, <2>5 DEF LinkInv, FollowsTheLast
<1>12. ASSUME NEW k \in Deauths, HandleDeauthorization(k) PROVE LinkInv'
  <2>1. UNCHANGED <<signup, form, crossed>>
    BY <1>12 DEF HandleDeauthorization
  <2> QED
    BY <1>0, <1>12, <2>1, DeauthRecorded, LinksUndisturbed
<1>13. ASSUME NEW u \in Users, NEW B, ForgetLinks(u), RevokeConnections(B),
              UNCHANGED <<signup, form, crossed>>
       PROVE  LinkInv'
  <2>1. \A c \in Businesses, v \in Users : link'[c][v].state = "live" => link'[c][v] = link[c][v]
    BY <1>0, <1>13, ForgottenLinks
  <2> QED
    BY <1>0, <1>13, <2>1, RevokedConnections, LinksUndisturbed
<1>14. ASSUME NEW k \in Deletions, HandleDataDeletion(k) PROVE LinkInv'
  <2>1. UNCHANGED <<signup, form, crossed>> /\ Author[k] \in Users
    BY <1>14 DEF HandleDataDeletion
  <2>2. CASE UNCHANGED <<biz, link>>
    BY <1>0, <2>1, <2>2, LinksUndisturbed
  <2>3. CASE ForgetLinks(Author[k]) /\ RevokeConnections(LiveLinked(Author[k]))
    BY <1>13, <2>1, <2>3
  <2> QED
    BY <1>14, <2>2, <2>3, DeletionRecorded
<1>15. ASSUME NEW a \in Admins, NEW named \in SUBSET Businesses, ResolveDeauthorization(a, named)
       PROVE  LinkInv'
  <2>1. UNCHANGED <<signup, form, crossed>>
    BY <1>15 DEF ResolveDeauthorization
  <2> QED
    BY <1>0, <1>15, <2>1, DeauthResolved, LinksUndisturbed
<1>16. ASSUME NEW a \in Admins, NEW named \in SUBSET Businesses, ResolveDeletion(a, named)
       PROVE  LinkInv'
  <2>1. UNCHANGED <<signup, form, crossed>>
    BY <1>16 DEF ResolveDeletion
  <2>2. CASE UNCHANGED <<biz, link>>
    BY <1>0, <2>1, <2>2, LinksUndisturbed
  <2>3. CASE RevokeConnections(named) /\ UNCHANGED link
    BY <1>0, <2>1, <2>3, RevokedConnections, LinksUndisturbed
  <2>4. CASE RevokeConnections(named) /\ admin[a].user \in Users /\ ForgetLinks(admin[a].user)
    BY <1>13, <2>1, <2>4
  <2> QED
    BY <1>16, <2>2, <2>3, <2>4, DeletionResolved
<1>17. CASE UNCHANGED <<biz, link, signup, form, crossed>>
  BY <1>0, <1>17, LinksUndisturbed
<1> QED
  BY <1>2, <1>3, <1>5, <1>6, <1>7, <1>8, <1>9, <1>10, <1>11, <1>12, <1>14, <1>15, <1>16, <1>17
     DEF MetaNext, metaVars, Signup, Setting, AdminStep, LoadDeauthorization, LoadDeletionRequest

(* No order of signups, typed credentials, proofs of identity, disconnects, *)
(* callbacks and reviews leaves a live link of an older connection beside a *)
(* newer one, once whoever stored the newer one has seen to the links       *)
(* (replaceConnectionLinks, update of the business service).                *)
THEOREM LinksAreOfTheConnection == MetaSpec => []LinksFollowTheConnection
<1>1. MetaInit => LinkInv
  BY DEF MetaInit, LinkInv, FollowsTheLast, LinksFollowTheConnection, IdleSignup
<1>2. LinkInv => LinksFollowTheConnection
  BY DEF LinkInv
<1> QED
  BY <1>1, <1>2, LinksStep, MetaInvariant, PTL DEF MetaSpec

(***************************************************************************)
(* The four together.                                                      *)
(***************************************************************************)
AccountsInv == part \in Parts /\ LedgerInv /\ RazorpayInv /\ MetaTyped /\ ErasureInv

LEMMA AccountsStep ==
  ASSUME AccountsInv, PeriodInv, [Next]_accountVars PROVE AccountsInv' /\ PeriodInv'
<1>1. /\ [BillingNext]_billingVars /\ [RazorpayNext]_razorpayVars
      /\ [MetaNext]_metaVars /\ [ErasureNext]_erasureVars /\ part' = part
  BY DEF Next, accountVars
<1>2. LedgerInv'
  BY <1>1, LedgerStep, BillingTypeStep, DeliversStep DEF AccountsInv, LedgerInv
<1>3. PeriodInv'
  BY <1>1, PeriodStep, EmittedStep, BillingTypeStep, DeliversStep DEF PeriodInv
<1> QED
  BY <1>1, <1>2, <1>3, RazorpayStep, MetaTypedStep, ErasureStep DEF AccountsInv

LEMMA AccountsInvariant == Spec => [](AccountsInv /\ PeriodInv)
<1>1. Init => AccountsInv /\ PeriodInv
  BY BillingStarts, RazorpayStarts, MetaStarts, ErasureStarts DEF Init, AccountsInv
<1>2. AccountsInv /\ PeriodInv /\ [Next]_accountVars => (AccountsInv /\ PeriodInv)'
  BY AccountsStep
<1> QED
  BY <1>1, <1>2, PTL DEF Spec

(* The model of the whole account is well typed in every state: the four    *)
(* parts share no row, so that each keeps its own invariant beside the      *)
(* others.                                                                  *)
THEOREM AccountsTyped == Spec => []AccountsTypeOK
<1>1. AccountsInv => AccountsTypeOK
  <2> SUFFICES ASSUME AccountsInv PROVE AccountsTypeOK
    OBVIOUS
  <2>1. BillingTypeOK /\ RazorpayTypeOK
    BY DEF AccountsInv, LedgerInv, RazorpayInv
  <2>2. MetaTypeOK
    BY DEF AccountsInv, MetaTyped, MetaTypeOK, BizRow, Links, LinkRow, ReqRow, Callbacks
  <2>3. ErasureTypeOK
    BY DEF AccountsInv, ErasureInv, ErasureTyped, ClaimHolds, ErasureTypeOK, ErasureRow, Executor
  <2> QED
    BY <2>1, <2>2, <2>3 DEF AccountsInv, AccountsTypeOK
<1> QED
  BY <1>1, AccountsInvariant, PTL

(* What the run Accounts_all checks of its behaviours, every safety         *)
(* property of the four modules: fairness of the daily jobs plays no part.  *)
THEOREM AccountsAreSafe ==
  Spec => /\ [](AppliedOnce /\ PaidPeriodKeepsAccess /\ DeadTokensAreFound /\ OneEraser /\ Forgotten
                /\ LinksFollowTheConnection)
          /\ ResolvedOnce /\ CompletedIsFinal
<1>1. Init => MetaInit /\ ErasureInit
  BY DEF Init
<1>2. [Next]_accountVars => [MetaNext]_metaVars /\ [ErasureNext]_erasureVars
  BY DEF Next, accountVars
<1>3. Spec => MetaSpec /\ ErasureSpec
  BY <1>1, <1>2, PTL DEF Spec, MetaSpec, ErasureSpec
<1>4. AccountsInv /\ PeriodInv => AppliedOnce /\ PaidPeriodKeepsAccess /\ DeadTokensAreFound
  BY OwnedPeriodsKeepAccess DEF AccountsInv, LedgerInv, RazorpayInv
<1> QED
  BY <1>3, <1>4, AccountsInvariant, DeletedUsersAreForgotten, LinksAreOfTheConnection, OneErasesAtATime,
     DecidedStaysDecided, CompletedStaysFinal, PTL

=============================================================================
