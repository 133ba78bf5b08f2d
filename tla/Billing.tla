------------------------------ MODULE Billing ------------------------------
(***************************************************************************)
(* What a merchant pays RelayShift: the Subscription row of one business,  *)
(* the BillingEvent ledger, the checkout, cancel and resume buttons        *)
(* (subscription.service.ts), the Razorpay webhook                         *)
(* (billing-webhook.service.ts), the daily sweep (billing-sweep.ts) and    *)
(* the question the rest of the code asks (entitlement.service.ts).        *)
(*                                                                         *)
(* Dates are kept only as far as the code compares them with now: a date   *)
(* is unset, in the future, past, or past by more than the grace days.     *)
(***************************************************************************)
EXTENDS Naturals, FiniteSets

CONSTANTS
  Tabs,        \* the dashboard requests that may run at once
  Deliveries,  \* the webhook requests that may run at once
  MaxSubs,     \* bound: subscriptions ever created at Razorpay
  MaxEvents    \* bound: events Razorpay emits

ASSUME BillingAssumption == MaxSubs \in Nat \ {0} /\ MaxEvents \in Nat \ {0}

VARIABLES
  plan,     \* the one plan: has it a trial, and its Razorpay plan id yet
  row,      \* the Subscription row; pid = 0 while there is none
  rz,       \* Razorpay's own view of each subscription
  events,   \* the events Razorpay emitted; each may be delivered again and again
  ledger,   \* the BillingEvent row of each event
  applied,  \* history: how often the status of an event was written
  tab,      \* the dashboard requests
  hook,     \* the webhook requests
  sweep     \* the daily job

billingVars == <<plan, row, rz, events, ledger, applied, tab, hook, sweep>>

Subs == 1..MaxSubs
EventIds == 1..MaxEvents
Dates == {"unset", "future", "past", "longpast"}
Statuses == {"TRIAL", "ACTIVE", "PAYMENT_FAILED", "PAST_DUE", "CANCELLED", "EXPIRED"}
LIVE_STATUSES == {"TRIAL", "ACTIVE", "PAYMENT_FAILED", "PAST_DUE"}
EventTypes == {"charged", "pending", "halted", "cancelled", "completed", "updated"}

\* subscription.activated is mapped like subscription.charged, and every event
\* the table does not list behaves like subscription.updated.
STATUS_BY_EVENT(type) ==
  CASE type = "charged"   -> "ACTIVE"
    [] type = "pending"   -> "PAYMENT_FAILED"
    [] type = "halted"    -> "PAST_DUE"
    [] type = "cancelled" -> "CANCELLED"
    [] type = "completed" -> "EXPIRED"
    [] OTHER              -> "none"

NoRow == [pid |-> 0, status |-> "EXPIRED", trialEnd |-> "unset",
          periodEnd |-> "unset", atEnd |-> FALSE]
IdleTab == [pc |-> "idle", pid |-> 0]
IdleHook == [pc |-> "idle", event |-> 0, hit |-> FALSE]
IdleSweep == [pc |-> "idle", pid |-> 0]

BillingInit ==
  /\ plan \in [trial : BOOLEAN, onRazorpay : {FALSE}]
  /\ row = NoRow
  /\ rz = [p \in Subs |-> "none"]
  /\ events = [e \in EventIds |-> [pid |-> 0, type |-> "updated"]]
  /\ ledger = [e \in EventIds |-> "absent"]
  /\ applied = [e \in EventIds |-> 0]
  /\ tab = [t \in Tabs |-> IdleTab]
  /\ hook = [d \in Deliveries |-> IdleHook]
  /\ sweep = IdleSweep

(***************************************************************************)
(* May this business use the paid functions now?                           *)
(***************************************************************************)
CanUseRelay ==
  /\ row.pid # 0
  /\ \/ row.status = "TRIAL" /\ row.trialEnd = "future"
     \/ row.status \in {"ACTIVE", "PAYMENT_FAILED"}
     \/ row.status = "PAST_DUE" /\ row.periodEnd \in {"future", "past"}
     \/ row.status = "CANCELLED" /\ row.periodEnd = "future"

(***************************************************************************)
(* checkout(): a live subscription is offered again; otherwise one is      *)
(* created at Razorpay and then written over the row.                      *)
(***************************************************************************)
CheckoutRead(t) ==
  /\ tab[t].pc = "idle"
  /\ ~(row.status \in LIVE_STATUSES /\ row.pid # 0)
  /\ tab' = [tab EXCEPT ![t].pc = IF plan.onRazorpay THEN "create" ELSE "plan"]
  /\ UNCHANGED <<plan, row, rz, events, ledger, applied, hook, sweep>>

EnsureRazorpayPlanId(t) ==
  /\ tab[t].pc = "plan"
  /\ plan' = [plan EXCEPT !.onRazorpay = TRUE]
  /\ tab' = [tab EXCEPT ![t].pc = "create"]
  /\ UNCHANGED <<row, rz, events, ledger, applied, hook, sweep>>

CreateSubscription(t) ==
  /\ tab[t].pc = "create"
  /\ \E p \in Subs :
       /\ rz[p] = "none" /\ \A q \in 1..(p - 1) : rz[q] # "none"
       /\ rz' = [rz EXCEPT ![p] = "live"]
       /\ tab' = [tab EXCEPT ![t] = [pc |-> "save", pid |-> p]]
  /\ UNCHANGED <<plan, row, events, ledger, applied, hook, sweep>>

SaveSubscription(t) ==
  /\ tab[t].pc = "save"
  /\ row' = [pid |-> tab[t].pid,
             status |-> IF plan.trial THEN "TRIAL" ELSE "ACTIVE",
             trialEnd |-> IF plan.trial THEN "future" ELSE "unset",
             periodEnd |-> IF plan.trial THEN "future" ELSE "unset",
             atEnd |-> FALSE]
  /\ tab' = [tab EXCEPT ![t] = IdleTab]
  /\ UNCHANGED <<plan, rz, events, ledger, applied, hook, sweep>>

(***************************************************************************)
(* cancel() and resume(): each reads the row, checks it, then writes the   *)
(* flag without a condition. Razorpay is not told.                         *)
(***************************************************************************)
CancelRead(t) ==
  /\ tab[t].pc = "idle"
  /\ row.pid # 0 /\ row.status \in LIVE_STATUSES /\ ~row.atEnd
  /\ tab' = [tab EXCEPT ![t].pc = "cancel"]
  /\ UNCHANGED <<plan, row, rz, events, ledger, applied, hook, sweep>>

ResumeRead(t) ==
  /\ tab[t].pc = "idle"
  /\ row.pid # 0 /\ row.atEnd /\ row.periodEnd \in {"unset", "future"}
  /\ tab' = [tab EXCEPT ![t].pc = "resume"]
  /\ UNCHANGED <<plan, row, rz, events, ledger, applied, hook, sweep>>

WriteFlag(t) ==
  /\ tab[t].pc \in {"cancel", "resume"}
  /\ row' = [row EXCEPT !.atEnd = (tab[t].pc = "cancel")]
  /\ tab' = [tab EXCEPT ![t] = IdleTab]
  /\ UNCHANGED <<plan, rz, events, ledger, applied, hook, sweep>>

\* The request fails at Razorpay or the process dies.
TabFails(t) ==
  /\ tab[t].pc # "idle"
  /\ tab' = [tab EXCEPT ![t] = IdleTab]
  /\ UNCHANGED <<plan, row, rz, events, ledger, applied, hook, sweep>>

(***************************************************************************)
(* Razorpay emits events about its subscriptions.                          *)
(***************************************************************************)
RazorpayEmits ==
  \E e \in EventIds, p \in Subs, type \in EventTypes :
    /\ events[e].pid = 0 /\ \A f \in 1..(e - 1) : events[f].pid # 0
    /\ \/ rz[p] = "live" /\ type # "cancelled"
       \/ rz[p] = "cancelled" /\ type = "cancelled"
    /\ events' = [events EXCEPT ![e] = [pid |-> p, type |-> type]]
    /\ UNCHANGED <<plan, row, rz, ledger, applied, tab, hook, sweep>>

(***************************************************************************)
(* ingest(): find the row, insert the ledger row (a duplicate ends there), *)
(* write the status, mark the ledger row processed. Any event may carry    *)
(* the end of the paid period, and it may be over when it is written.      *)
(***************************************************************************)
IngestLookup(d) ==
  /\ hook[d].pc = "idle"
  /\ \E e \in EventIds :
       /\ events[e].pid # 0
       /\ hook' = [hook EXCEPT ![d] = [pc |-> "insert", event |-> e,
                                       hit |-> row.pid = events[e].pid]]
  /\ UNCHANGED <<plan, row, rz, events, ledger, applied, tab, sweep>>

IngestInsertAlways(d) ==
  /\ hook[d].pc = "insert"
  /\ ledger' = [ledger EXCEPT ![hook[d].event] = "recorded"]
  /\ hook' = [hook EXCEPT ![d].pc = "apply"]
  /\ UNCHANGED <<plan, row, rz, events, applied, tab, sweep>>

IngestInsert(d) ==
  /\ hook[d].pc = "insert"
  /\ IF ledger[hook[d].event] = "absent"
       THEN /\ ledger' = [ledger EXCEPT ![hook[d].event] = "recorded"]
            /\ hook' = [hook EXCEPT ![d].pc = "apply"]
       ELSE /\ hook' = [hook EXCEPT ![d] = IdleHook]
            /\ UNCHANGED ledger
  /\ UNCHANGED <<plan, row, rz, events, applied, tab, sweep>>

IngestApplyAnyEvent(d) ==
  /\ hook[d].pc = "apply"
  /\ row' = IF hook[d].hit THEN [row EXCEPT !.status = STATUS_BY_EVENT(events[hook[d].event].type)] ELSE row
  /\ hook' = [hook EXCEPT ![d].pc = "mark"]
  /\ UNCHANGED <<plan, rz, events, ledger, applied, tab, sweep>>

IngestApply(d) ==
  LET status == STATUS_BY_EVENT(events[hook[d].event].type)
  IN /\ hook[d].pc = "apply"
     /\ IF hook[d].hit /\ status # "none"
          THEN /\ \E end \in {row.periodEnd, "future", "past"} :
                    row' = [row EXCEPT !.status = status, !.periodEnd = end]
               /\ applied' = [applied EXCEPT ![hook[d].event] = @ + 1]
          ELSE UNCHANGED <<row, applied>>
     /\ hook' = [hook EXCEPT ![d].pc = "mark"]
     /\ UNCHANGED <<plan, rz, events, ledger, tab, sweep>>

MarkProcessed(d) ==
  /\ hook[d].pc = "mark"
  /\ ledger' = [ledger EXCEPT ![hook[d].event] = "processed"]
  /\ hook' = [hook EXCEPT ![d] = IdleHook]
  /\ UNCHANGED <<plan, row, rz, events, applied, tab, sweep>>

HookCrash(d) ==
  /\ hook[d].pc # "idle"
  /\ hook' = [hook EXCEPT ![d] = IdleHook]
  /\ UNCHANGED <<plan, row, rz, events, ledger, applied, tab, sweep>>

(***************************************************************************)
(* The daily sweep: it reads the cancellations that are due, cancels each  *)
(* at Razorpay, writes CANCELLED, and last expires the trials that ran out.*)
(***************************************************************************)
SweepRead ==
  /\ sweep.pc = "idle"
  /\ sweep' = IF row.pid # 0 /\ row.atEnd /\ row.periodEnd \in {"past", "longpast"}
                             /\ row.status # "CANCELLED"
                THEN [pc |-> "cancel", pid |-> row.pid]
                ELSE [pc |-> "trials", pid |-> 0]
  /\ UNCHANGED <<plan, row, rz, events, ledger, applied, tab, hook>>

SweepCancel ==
  /\ sweep.pc = "cancel"
  /\ \/ /\ rz' = [rz EXCEPT ![sweep.pid] = "cancelled"]
        /\ sweep' = [sweep EXCEPT !.pc = "save"]
     \/ /\ sweep' = [pc |-> "trials", pid |-> 0]   \* Razorpay refused; tried again tomorrow
        /\ UNCHANGED rz
  /\ UNCHANGED <<plan, row, events, ledger, applied, tab, hook>>

SweepSave ==
  /\ sweep.pc = "save"
  /\ row' = [row EXCEPT !.status = "CANCELLED"]
  /\ sweep' = [pc |-> "trials", pid |-> 0]
  /\ UNCHANGED <<plan, rz, events, ledger, applied, tab, hook>>

SweepTrialsBeforeEnd ==
  /\ sweep.pc = "trials"
  /\ row' = IF row.status = "TRIAL" /\ row.trialEnd = "longpast"
              THEN [row EXCEPT !.status = "EXPIRED"] ELSE row
  /\ sweep' = IdleSweep
  /\ UNCHANGED <<plan, rz, events, ledger, applied, tab, hook>>

SweepTrialsOfAnyStatus ==
  /\ sweep.pc = "trials"
  /\ row' = IF row.trialEnd \in {"past", "longpast"} THEN [row EXCEPT !.status = "EXPIRED"] ELSE row
  /\ sweep' = IdleSweep
  /\ UNCHANGED <<plan, rz, events, ledger, applied, tab, hook>>

SweepTrials ==
  /\ sweep.pc = "trials"
  /\ row' = IF row.status = "TRIAL" /\ row.trialEnd \in {"past", "longpast"}
              THEN [row EXCEPT !.status = "EXPIRED"] ELSE row
  /\ sweep' = IdleSweep
  /\ UNCHANGED <<plan, rz, events, ledger, applied, tab, hook>>

Later(date) == CASE date = "future" -> "past" [] date = "past" -> "longpast" [] OTHER -> date

\* Time passes over the dates the code compares with now. The end of the trial
\* matters only while the status is TRIAL, when it equals the period's end.
TimePasses ==
  /\ \/ row.periodEnd = "future" \/ row.trialEnd = "future"
     \/ row.periodEnd = "past" /\ row.status = "PAST_DUE"
  /\ row' = [row EXCEPT !.trialEnd = IF @ = "future" THEN "past" ELSE @,
                        !.periodEnd = Later(@)]
  /\ UNCHANGED <<plan, rz, events, ledger, applied, tab, hook, sweep>>

Dashboard ==
  \E t \in Tabs :
    \/ CheckoutRead(t) \/ EnsureRazorpayPlanId(t) \/ CreateSubscription(t)
    \/ SaveSubscription(t) \/ CancelRead(t) \/ ResumeRead(t) \/ WriteFlag(t)
    \/ TabFails(t)

Ingest(d) == IngestLookup(d) \/ IngestInsert(d) \/ IngestApply(d) \/ MarkProcessed(d)
Sweep == SweepRead \/ SweepCancel \/ SweepSave \/ SweepTrials

BillingNext ==
  \/ Dashboard
  \/ RazorpayEmits
  \/ \E d \in Deliveries : Ingest(d) \/ HookCrash(d)
  \/ Sweep
  \/ TimePasses

BillingSpec == BillingInit /\ [][BillingNext]_billingVars /\ WF_billingVars(Sweep)

BillingTypeOK ==
  /\ plan \in [trial : BOOLEAN, onRazorpay : BOOLEAN]
  /\ row \in [pid : 0..MaxSubs, status : Statuses, trialEnd : Dates,
              periodEnd : Dates, atEnd : BOOLEAN]
  /\ rz \in [Subs -> {"none", "live", "cancelled"}]
  /\ events \in [EventIds -> [pid : 0..MaxSubs, type : EventTypes]]
  /\ ledger \in [EventIds -> {"absent", "recorded", "processed"}]
  /\ applied \in [EventIds -> Nat]
  /\ tab \in [Tabs -> [pc : {"idle", "plan", "create", "save", "cancel", "resume"},
                       pid : 0..MaxSubs]]
  /\ hook \in [Deliveries -> [pc : {"idle", "insert", "apply", "mark"},
                              event : 0..MaxEvents, hit : BOOLEAN]]
  /\ sweep \in [pc : {"idle", "cancel", "save", "trials"}, pid : 0..MaxSubs]

(***************************************************************************)
(* "Idempotent: a duplicate providerEventId is a no-op (unique             *)
(* constraint), never a second state transition": however often an event   *)
(* is delivered, and whatever runs beside it, its status is written once   *)
(* at most, and never while its ledger row is missing.                     *)
(***************************************************************************)
AppliedOnce ==
  \A e \in EventIds : applied[e] <= 1 /\ (ledger[e] = "absent" => applied[e] = 0)

(***************************************************************************)
(* "The merchant keeps access through currentPeriodEnd": while the paid    *)
(* period runs, no order of webhooks, cancel clicks and sweeps takes the   *)
(* access away. Only Razorpay's own word that a subscription of the        *)
(* business completed ends it before: a sweep that expires a trial never   *)
(* does, whatever the merchant paid since the sweep before.                *)
(***************************************************************************)
PaidPeriodKeepsAccess ==
  row.periodEnd = "future" =>
    \/ CanUseRelay
    \/ row.status = "EXPIRED" /\ \E e \in EventIds : events[e].type = "completed" /\ applied[e] > 0

(***************************************************************************)
(* A trial that ran out without an activation is ended by the sweep        *)
(* "rather than leaving paid-feature access open indefinitely".            *)
(***************************************************************************)
StaleTrialEnds ==
  (row.status = "TRIAL" /\ row.trialEnd # "future")
    ~> ~(row.status = "TRIAL" /\ row.trialEnd # "future")
=============================================================================
