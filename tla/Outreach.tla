------------------------------ MODULE Outreach ------------------------------
(***************************************************************************)
(* Proactive messages to one customer about one target: the suggestions    *)
(* (Opportunity rows, opportunity.service.ts) that the API and the scans   *)
(* of the worker create, that are sent at once or wait in the merchant's   *)
(* inbox, and the nudge about an abandoned cart (abandoned-cart.ts), whose *)
(* job the queue retries. Target is one cart, and one product in it: a     *)
(* run looks for a live row of its own kind only.                          *)
(***************************************************************************)
EXTENDS Naturals, Sequences, FiniteSets

CONSTANTS
  Makers,      \* runs that may create a suggestion
  Kinds,       \* what each of them may be: a subset of [Makers -> Sources]
  Senders,     \* send() requests of the merchant
  Orders,      \* order placements whose outcome is attributed
  MaxOpps,     \* bound: suggestions
  MaxTries     \* the attempts the queue gives a job

Sources == {"cartJob", "api", "healthScan", "repeatScan", "unansweredScan"}
ApiKinds == {"api", "highIntent"}

\* The queue keeps one job of a cart, under the cart's own job id (scheduleAbandonedCartFollowUp).
ASSUME OutreachAssumption ==
  /\ Kinds \subseteq [Makers -> Sources]
  /\ \A kinds \in Kinds : \A k, l \in Makers : kinds[k] = "cartJob" /\ kinds[l] = "cartJob" => k = l
  /\ MaxOpps \in Nat /\ MaxTries \in Nat

VARIABLES
  rule,      \* the business's proactive setting and the AutomationRule
  cart,      \* "ACTIVE", or "CHECKED_OUT" once ordered
  opps,      \* the Opportunity rows; told: the customer got the
             \* message; kept: no merchant overruled a nudge
  nudges,    \* messages the cart job sent without a row
  maker,     \* the creating runs
  sender,    \* the send() requests
  credit     \* the attributions

outreachVars == <<rule, cart, opps, nudges, maker, sender, credit>>

LiveStatuses == {"NEW", "SENT", "SNOOZED"}
OppStatuses == LiveStatuses \cup {"DISMISSED", "CONVERTED", "EXPIRED"}

OutreachInit ==
  /\ rule \in [proactive : BOOLEAN, autoSend : BOOLEAN]
  /\ cart = "ACTIVE" /\ opps = <<>> /\ nudges = 0
  /\ \E kinds \in Kinds :
       maker = [k \in Makers |-> [kind |-> kinds[k], pc |-> "idle", opp |-> 0, tries |-> MaxTries]]
  /\ sender = [s \in Senders |-> [pc |-> "idle", opp |-> 0]]
  /\ credit = [o \in Orders |-> [pc |-> "idle", opp |-> 0]]

Finished(k) == [maker[k] EXCEPT !.pc = "done", !.opp = 0, !.kind = IF @ \in ApiKinds THEN "api" ELSE @]
Over == [pc |-> "done", opp |-> 0]
Found(kind, statuses) == {i \in DOMAIN opps : opps[i].kind = kind /\ opps[i].status \in statuses}
SetStatus(i, status) == opps' = [opps EXCEPT ![i].status = status]
\* A stronger signal about the same product replaces a weaker one.
Supersede(kind) ==
  opps' = [i \in DOMAIN opps |->
             IF i \in Found(kind, LiveStatuses) THEN [opps[i] EXCEPT !.status = "DISMISSED"] ELSE opps[i]]
Overrule(i, status) ==
  opps' = [opps EXCEPT ![i].status = status, ![i].kept = opps[i].kind # "cartJob"]

(***************************************************************************)
(* What starts a run. The API: products the agent showed and nobody        *)
(* bought, an order whose products have companions, a product that is new  *)
(* or back in stock, a promotion. A product that was asked about again and *)
(* again is HIGH_PURCHASE_INTENT, which replaces the plain enquiry.        *)
(***************************************************************************)
Ask(k, kind) == maker' = [maker EXCEPT ![k].kind = kind, ![k].pc = "check"]

NoticeInterest(k) ==
  /\ maker[k].kind = "api" /\ maker[k].pc = "idle"
  /\ \/ Ask(k, "api") /\ UNCHANGED opps
     \/ Ask(k, "highIntent") /\ Supersede("api")
  /\ UNCHANGED <<rule, cart, nudges, sender, credit>>

AskAbout(k) ==
  /\ maker[k].kind = "api" /\ maker[k].pc = "idle"
  /\ Ask(k, "api")
  /\ UNCHANGED <<rule, cart, opps, nudges, sender, credit>>

SuggestCrossSellUpsell(k) == AskAbout(k)
NotifyNewProductMatch(k) == AskAbout(k)
SuggestBackInStock(k) == AskAbout(k)
Broadcast(k) == AskAbout(k)

(***************************************************************************)
(* Who gets a suggestion: the rule, the opt-out and the frequency cap are  *)
(* read and may all say no; the text is drafted before that by the API,    *)
(* after it by the jobs of the worker, and meanwhile everything may change.*)
(***************************************************************************)
CheckRules(k) ==
  /\ maker[k].pc = "check"
  /\ \/ rule.proactive /\ maker' = [maker EXCEPT ![k].pc = "find"]
     \/ maker' = [maker EXCEPT ![k] = Finished(k)]
  /\ UNCHANGED <<rule, cart, opps, nudges, sender, credit>>

\* The cart job sends its nudge itself under a business without suggestions.
CheckCart(k) ==
  /\ maker[k].kind = "cartJob" /\ maker[k].pc = "idle" /\ maker[k].tries > 0
  /\ \/ cart = "ACTIVE" /\ maker' = [maker EXCEPT ![k].pc = IF rule.proactive THEN "find" ELSE "nudge"]
     \/ maker' = [maker EXCEPT ![k] = Finished(k)]
  /\ UNCHANGED <<rule, cart, opps, nudges, sender, credit>>

\* A scan goes over the businesses with suggestions and comes to the
\* customer: who went quiet or is worth a word, whose product is due again,
\* who waits for a human; and who is not opted out and under the cap.
ComeTo(k, scan) ==
  /\ maker[k].kind = scan /\ maker[k].pc = "idle" /\ rule.proactive
  /\ maker' = [maker EXCEPT ![k].pc = "find"]
  /\ UNCHANGED <<rule, cart, opps, nudges, sender, credit>>

CustomerHealthScan(k) == ComeTo(k, "healthScan")
RepeatPurchaseScan(k) == ComeTo(k, "repeatScan")
UnansweredConversationScan(k) == ComeTo(k, "unansweredScan")

\* "A live one already exists for the same target": nothing is created.
FindExistingOf(k, statuses) ==
  /\ maker[k].pc = "find"
  /\ maker' = [maker EXCEPT ![k] =
       IF Found(maker[k].kind, statuses) # {} THEN Finished(k) ELSE [@ EXCEPT !.pc = "create"]]
  /\ UNCHANGED <<rule, cart, opps, nudges, sender, credit>>

FindExistingSent(k) == FindExistingOf(k, {"SENT"})
FindExisting(k) == FindExistingOf(k, LiveStatuses)

\* Whether it is sent without the merchant: only under the rule, within its
\* hours or at the customer's own hour and, from the API, not while the
\* customer is chatting. Hours and chats go on outside this model.
IsWithinSendWindow == BOOLEAN
IsConversationActive(k) == IF maker[k].kind \in ApiKinds THEN BOOLEAN ELSE {FALSE}

CreateOpportunity(k) ==
  /\ maker[k].pc = "create" /\ Len(opps) < MaxOpps
  /\ opps' = Append(opps, [kind |-> maker[k].kind, status |-> "NEW", told |-> FALSE, order |-> FALSE, kept |-> TRUE])
  /\ \E inWindow \in IsWithinSendWindow, chatting \in IsConversationActive(k) :
       maker' = [maker EXCEPT ![k] =
         IF rule.autoSend /\ inWindow /\ ~chatting
           THEN [@ EXCEPT !.pc = "autoSend", !.opp = Len(opps) + 1] ELSE Finished(k)]
  /\ UNCHANGED <<rule, cart, nudges, sender, credit>>

\* The channel takes the message: the API's send() looks at the row first, a job of the worker does not.
Deliver(k) ==
  /\ opps' = [opps EXCEPT ![maker[k].opp].told = TRUE]
  /\ maker' = [maker EXCEPT ![k].pc = "mark"]

AutoSend(k) ==
  /\ maker[k].pc = "autoSend" /\ maker[k].kind \in ApiKinds
  /\ IF opps[maker[k].opp].status \in {"SENT", "CONVERTED"}
       THEN maker' = [maker EXCEPT ![k] = Finished(k)] /\ UNCHANGED opps
       ELSE Deliver(k)
  /\ UNCHANGED <<rule, cart, nudges, sender, credit>>

SendFromJob(k) ==
  /\ maker[k].pc = "autoSend" /\ maker[k].kind \notin ApiKinds
  /\ Deliver(k)
  /\ UNCHANGED <<rule, cart, nudges, sender, credit>>

MarkSent(k) ==
  /\ maker[k].pc = "mark"
  /\ SetStatus(maker[k].opp, "SENT")
  /\ maker' = [maker EXCEPT ![k] = Finished(k)]
  /\ UNCHANGED <<rule, cart, nudges, sender, credit>>

SendNudge(k) ==
  /\ maker[k].pc = "nudge"
  /\ nudges' = nudges + 1
  /\ maker' = [maker EXCEPT ![k].pc = "record"]
  /\ UNCHANGED <<rule, cart, opps, sender, credit>>

RecordNudge(k) ==
  /\ maker[k].pc = "record"
  /\ maker' = [maker EXCEPT ![k] = Finished(k)]
  /\ UNCHANGED <<rule, cart, opps, nudges, sender, credit>>

\* A read, a send or a write fails. The queue runs the cart's job again; the
\* API and the scans log it and leave the row for the merchant.
MakerFails(k) ==
  /\ maker[k].pc \notin {"idle", "done"}
  /\ IF maker[k].kind = "cartJob"
       THEN maker' = [maker EXCEPT ![k].pc = "idle", ![k].opp = 0, ![k].tries = @ - 1]
       ELSE maker' = [maker EXCEPT ![k] = Finished(k)]
  /\ UNCHANGED <<rule, cart, opps, nudges, sender, credit>>

(***************************************************************************)
(* The merchant's inbox. send() refuses a row that it reads as SENT or     *)
(* CONVERTED, hands the message to the channel, then marks the row.        *)
(***************************************************************************)
SendRead(s) ==
  /\ sender[s].pc = "idle"
  /\ \E i \in DOMAIN opps :
       /\ opps[i].status \notin {"SENT", "CONVERTED"}
       /\ sender' = [sender EXCEPT ![s] = [pc |-> "send", opp |-> i]]
  /\ UNCHANGED <<rule, cart, opps, nudges, maker, credit>>

SendToChannel(s) ==
  /\ sender[s].pc = "send"
  /\ \/ /\ opps' = [opps EXCEPT ![sender[s].opp].told = TRUE]
        /\ sender' = [sender EXCEPT ![s].pc = "mark"]
     \/ sender' = [sender EXCEPT ![s] = Over] /\ UNCHANGED opps
  /\ UNCHANGED <<rule, cart, nudges, maker, credit>>

SendMark(s) ==
  /\ sender[s].pc = "mark"
  /\ \/ SetStatus(sender[s].opp, "SENT")
     \/ UNCHANGED opps
  /\ sender' = [sender EXCEPT ![s] = Over]
  /\ UNCHANGED <<rule, cart, nudges, maker, credit>>

\* Neither looks at the status it overwrites.
Dismiss(i) ==
  /\ Overrule(i, "DISMISSED")
  /\ UNCHANGED <<rule, cart, nudges, maker, sender, credit>>

Snooze(i) ==
  /\ Overrule(i, "SNOOZED")
  /\ UNCHANGED <<rule, cart, nudges, maker, sender, credit>>

WakeSnoozed(i) ==
  /\ opps[i].status = "SNOOZED"
  /\ SetStatus(i, "NEW")
  /\ UNCHANGED <<rule, cart, nudges, maker, sender, credit>>

(***************************************************************************)
(* An order: the newest row that is SENT and not yet credited is found,    *)
(* then credited; a checkout expires what was never sent about its cart.   *)
(***************************************************************************)
AttachRead(o) ==
  /\ credit[o].pc = "idle"
  /\ LET sent == {i \in DOMAIN opps : opps[i].status = "SENT" /\ ~opps[i].order}
     IN  IF sent = {} THEN credit' = [credit EXCEPT ![o] = Over]
         ELSE \E i \in sent : credit' = [credit EXCEPT ![o] = [pc |-> "write", opp |-> i]]
  /\ UNCHANGED <<rule, cart, opps, nudges, maker, sender>>

AttachWrite(o) ==
  /\ credit[o].pc = "write"
  /\ opps' = [opps EXCEPT ![credit[o].opp].order = TRUE, ![credit[o].opp].status = "CONVERTED"]
  /\ credit' = [credit EXCEPT ![o] = Over]
  /\ UNCHANGED <<rule, cart, nudges, maker, sender>>

CheckOut ==
  /\ cart = "ACTIVE"
  /\ cart' = "CHECKED_OUT"
  /\ UNCHANGED <<rule, opps, nudges, maker, sender, credit>>

ExpireTo(from, status) ==
  /\ cart = "CHECKED_OUT"
  /\ opps' = [i \in DOMAIN opps |->
                IF i \in Found("cartJob", from) THEN [opps[i] EXCEPT !.status = status] ELSE opps[i]]
  /\ UNCHANGED <<rule, cart, nudges, maker, sender, credit>>

ExpireAsConverted == ExpireTo({"NEW", "SNOOZED"}, "CONVERTED")
ExpireForCheckedOutCart == ExpireTo({"NEW", "SNOOZED"}, "EXPIRED")

OutreachNext ==
  \/ \E k \in Makers :
       \/ NoticeInterest(k) \/ SuggestCrossSellUpsell(k) \/ NotifyNewProductMatch(k)
       \/ SuggestBackInStock(k) \/ Broadcast(k)
       \/ CustomerHealthScan(k) \/ RepeatPurchaseScan(k) \/ UnansweredConversationScan(k)
       \/ CheckRules(k) \/ CheckCart(k)
       \/ FindExisting(k) \/ CreateOpportunity(k) \/ AutoSend(k) \/ SendFromJob(k)
       \/ MarkSent(k) \/ SendNudge(k) \/ RecordNudge(k) \/ MakerFails(k)
  \/ \E s \in Senders : SendRead(s) \/ SendToChannel(s) \/ SendMark(s)
  \/ \E i \in DOMAIN opps : Dismiss(i) \/ Snooze(i) \/ WakeSnoozed(i)
  \/ \E o \in Orders : AttachRead(o) \/ AttachWrite(o)
  \/ CheckOut \/ ExpireForCheckedOutCart

OutreachSpec == OutreachInit /\ [][OutreachNext]_outreachVars

\* the funnel of typeAnalytics and messagePerformance
CountedAsSent(i) == opps[i].status \in {"SENT", "CONVERTED"}

OutreachTypeOK ==
  /\ cart \in {"ACTIVE", "CHECKED_OUT"} /\ nudges \in 0..MaxTries
  /\ Len(opps) <= MaxOpps
  /\ \A i \in DOMAIN opps : opps[i].status \in OppStatuses
  /\ \A k \in Makers : maker[k].opp \in 0..Len(opps) /\ maker[k].tries \in 0..MaxTries

(***************************************************************************)
(* "Never CONVERTED: that status implies the opportunity was actually      *)
(* sent": whatever wrote the status last, a row that counts as sent or     *)
(* converted in the funnel stands for a message the customer got.          *)
(***************************************************************************)
FunnelIsTrue == \A i \in DOMAIN opps : CountedAsSent(i) => opps[i].told

(***************************************************************************)
(* However often the queue runs the cart's job again, after whichever of   *)
(* its steps failed, one suggestion about a cart that is not ordered yet   *)
(* is alive, besides those the merchant dismissed or put off, which may    *)
(* come back, and those an order was credited to already, which a send     *)
(* that is still under way may mark SENT once more.                        *)
(***************************************************************************)
Nudges == {i \in DOMAIN opps : opps[i].kind = "cartJob" /\ opps[i].kept /\ ~opps[i].order}
OneLiveNudge == cart = "ACTIVE" => Cardinality({i \in Nudges : opps[i].status \in LiveStatuses}) <= 1
=============================================================================
