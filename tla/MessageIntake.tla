--------------------------- MODULE MessageIntake ---------------------------
(***************************************************************************)
(* The messages of one sender on one channel: the webhook handlers that    *)
(* file them (whatsapp-, instagram- and email-webhook.service.ts), the     *)
(* sales agent that answers them (ai.service.ts), the follow-up job that   *)
(* catches what nobody answered (follow-up.ts) and the merchant's inbox    *)
(* (conversation.service.ts). The provider is answered before the handler  *)
(* runs, so what a handler does not finish is never delivered again; but a *)
(* provider may deliver one message twice, at the same time.               *)
(*                                                                         *)
(* What the shopping flow does with a tap is module ShoppingFlow; what the *)
(* model of the agent answers is chosen freely.                            *)
(***************************************************************************)
EXTENDS Naturals, Sequences, FiniteSets

CONSTANTS
  Deliveries,   \* handler runs, one per webhook delivery
  Messages,     \* the provider's message ids
  OrderKeys,    \* fingerprints buildOrderKey gives the orders of this sender
  NoKey,        \* no order key recorded
  Carried,      \* which message each delivery may carry: {f \in [Deliveries -> Messages] : ...}
  MaxConvs,     \* bound: customers and conversations that can be made
  MaxAgentOrders,  \* bound: orders the agent can place
  MaxFaults     \* bound: crashes of the API and refusals of the AI provider

ASSUME IntakeAssumption ==
  /\ MaxConvs \in Nat \ {0} /\ MaxAgentOrders \in Nat /\ MaxFaults \in Nat
  /\ NoKey \notin OrderKeys
  /\ Carried \subseteq [Deliveries -> Messages]

VARIABLES
  channel,      \* "WHATSAPP", or "UPSERT" for Instagram and email
  customers,    \* how many Customer rows the sender has
  convs,        \* the sender's OPEN conversations, oldest first
  filed,        \* the conversation each message is filed in, 0 for none
  agentOrders,  \* the orders the agent placed
  hook,         \* the handlers; seen is the conversation the agent loaded
  handled,      \* history: handlers that went on to handle a message
  faults        \* history: faults so far

intakeVars == <<channel, customers, convs, filed, agentOrders, hook, handled, faults>>

NewConv(c) == [customer |-> c, escalated |-> FALSE, lastKey |-> NoKey, active |-> 0,
               job |-> "none", replied |-> FALSE, draft |-> FALSE]
NothingSeen == [lastKey |-> NoKey, active |-> 0]
IdleHook(m) == [pc |-> "idle", msg |-> m, cust |-> 0, conv |-> 0, dup |-> FALSE,
                key |-> NoKey, seen |-> NothingSeen]
DoneHook(m) == [IdleHook(m) EXCEPT !.pc = "done"]

IntakeInit ==
  /\ channel \in {"WHATSAPP", "UPSERT"}
  /\ customers = 0 /\ convs = <<>> /\ agentOrders = <<>> /\ faults = 0
  /\ filed = [m \in Messages |-> 0]
  /\ handled = [m \in Messages |-> 0]
  /\ \E carries \in Carried : hook = [d \in Deliveries |-> IdleHook(carries[d])]

Goto(d, pc) ==
  hook' = [hook EXCEPT ![d] = IF pc = "done" THEN DoneHook(@.msg) ELSE [@ EXCEPT !.pc = pc]]
Conv(d) == convs[hook[d].conv]

\* The channel took a text, a picture, buttons or a list, and then its OUTBOUND row is written.
Delivered(i) == convs' = [convs EXCEPT ![i].replied = TRUE]

(***************************************************************************)
(* Filing: each read and each write is a step of its own.                  *)
(***************************************************************************)
\* A business that is not entitled drops the message.
Ignore(d) ==
  /\ hook[d].pc = "idle"
  /\ Goto(d, "done")
  /\ UNCHANGED <<channel, customers, convs, filed, agentOrders, handled, faults>>

\* Neither phone nor email is unique: any Customer row of the sender is found (Instagram asks a unique Identity row).
FindCustomer(d) ==
  /\ hook[d].pc = "idle"
  /\ \/ \E c \in 1..customers : hook' = [hook EXCEPT ![d].pc = "conv", ![d].cust = c]
     \/ customers = 0 /\ Goto(d, "newCustomer")
  /\ UNCHANGED <<channel, customers, convs, filed, agentOrders, handled, faults>>

CreateCustomer(d) ==
  /\ hook[d].pc = "newCustomer" /\ customers < MaxConvs
  /\ customers' = customers + 1
  /\ hook' = [hook EXCEPT ![d].pc = "conv", ![d].cust = customers + 1]
  /\ UNCHANGED <<channel, convs, filed, agentOrders, handled, faults>>

\* The newest OPEN conversation of the customer; nothing ever closes one.
FindConversation(d) ==
  /\ hook[d].pc = "conv"
  /\ LET own == {i \in DOMAIN convs : convs[i].customer = hook[d].cust}
     IN  hook' = [hook EXCEPT ![d].pc = IF own = {} THEN "newConv" ELSE "file",
                              ![d].conv = IF own = {} THEN 0 ELSE CHOOSE i \in own : \A j \in own : j <= i]
  /\ UNCHANGED <<channel, customers, convs, filed, agentOrders, handled, faults>>

CreateConversation(d) ==
  /\ hook[d].pc = "newConv" /\ Len(convs) < MaxConvs
  /\ convs' = Append(convs, NewConv(hook[d].cust))
  /\ hook' = [hook EXCEPT ![d].pc = "schedule", ![d].conv = Len(convs) + 1]
  /\ UNCHANGED <<channel, customers, filed, agentOrders, handled, faults>>

ScheduleFollowUp(d) ==
  /\ hook[d].pc = "schedule"
  /\ convs' = [convs EXCEPT ![hook[d].conv].job = "waiting"]
  /\ Goto(d, "file")
  /\ UNCHANGED <<channel, customers, filed, agentOrders, handled, faults>>

HandleMessage(d) ==
  /\ handled' = [handled EXCEPT ![hook[d].msg] = @ + 1]
  /\ Goto(d, "route")

\* Instagram and email: look the message up, then upsert it, then go by what
\* the look-up said.
LookUpMessage(d) ==
  /\ hook[d].pc = "file"
  /\ hook' = [hook EXCEPT ![d].pc = "upsert", ![d].dup = filed[hook[d].msg] # 0]
  /\ UNCHANGED <<channel, customers, convs, filed, agentOrders, handled, faults>>

UpsertMessage(d) ==
  /\ hook[d].pc = "upsert"
  /\ filed' = [filed EXCEPT ![hook[d].msg] = IF @ = 0 THEN hook[d].conv ELSE @]
  /\ IF hook[d].dup THEN Goto(d, "done") /\ UNCHANGED handled ELSE HandleMessage(d)
  /\ UNCHANGED <<channel, customers, convs, agentOrders, faults>>

\* WhatsApp: the unique providerMessageId lets one create succeed.
FileByCreate(d) ==
  /\ hook[d].pc = "file"
  /\ IF filed[hook[d].msg] # 0
       THEN Goto(d, "done") /\ UNCHANGED <<filed, handled>>
       ELSE filed' = [filed EXCEPT ![hook[d].msg] = hook[d].conv] /\ HandleMessage(d)
  /\ UNCHANGED <<channel, customers, convs, agentOrders, faults>>

ClaimByLookUp(d) == LookUpMessage(d)
ClaimMessage(d) == IF channel = "WHATSAPP" THEN FileByCreate(d) ELSE LookUpMessage(d)

(***************************************************************************)
(* A tap, a greeting or the text of somebody who is shopping goes to the   *)
(* shopping flow; all else, and every other channel, goes to the agent,    *)
(* which reads the conversation once and stays away from an escalated one. *)
(***************************************************************************)
RouteToShoppingFlow(d) ==
  /\ hook[d].pc = "route" /\ channel = "WHATSAPP"
  /\ Goto(d, "send")
  /\ UNCHANGED <<channel, customers, convs, filed, agentOrders, handled, faults>>

LoadConversation(d) ==
  /\ hook[d].pc = "route"
  /\ IF Conv(d).escalated
       THEN Goto(d, "done")
       ELSE hook' = [hook EXCEPT ![d].pc = "think",
                      ![d].seen = [lastKey |-> Conv(d).lastKey, active |-> Conv(d).active]]
  /\ UNCHANGED <<channel, customers, convs, filed, agentOrders, handled, faults>>

Escalate(d) ==
  /\ hook[d].pc = "think"
  /\ convs' = [convs EXCEPT ![hook[d].conv].escalated = TRUE]
  /\ Goto(d, "send")
  /\ UNCHANGED <<channel, customers, filed, agentOrders, handled, faults>>

\* updateStatus refuses an order that is terminal already.
CancelOrder(d) ==
  /\ hook[d].pc = "think"
  /\ LET o == hook[d].seen.active
     IN  /\ o # 0 /\ agentOrders[o].status # "cancelled"
         /\ agentOrders' = [agentOrders EXCEPT ![o].status = "cancelled"]
         /\ convs' = [convs EXCEPT ![hook[d].conv].active = 0]
  /\ Goto(d, "send")
  /\ UNCHANGED <<channel, customers, filed, handled, faults>>

\* the orders that are not the last one over again
FreshKeys(d) == OrderKeys \ {hook[d].seen.lastKey}

(***************************************************************************)
(* The model reads a confirmed order in the transcript, and its key is not *)
(* the last one's. executeCreateOrder: an order that is still unpaid is    *)
(* amended, else one is created; then the key and the order are written    *)
(* to the conversation. What it takes from the active cart, and that it    *)
(* empties the cart afterwards, is module CartCheckout's.                  *)
(***************************************************************************)
ExecuteCreateOrder(d) ==
  /\ hook[d].pc = "think"
  /\ \E k \in FreshKeys(d) :
       LET o == hook[d].seen.active
       IN  IF o # 0 /\ agentOrders[o].status = "unpaid"
             THEN /\ agentOrders' = [agentOrders EXCEPT ![o].key = k]
                  /\ hook' = [hook EXCEPT ![d].pc = "record", ![d].key = k]
             ELSE /\ Len(agentOrders) < MaxAgentOrders
                  /\ agentOrders' = Append(agentOrders, [key |-> k, status |-> "unpaid"])
                  /\ hook' = [hook EXCEPT ![d].pc = "record", ![d].key = k, ![d].seen.active = Len(agentOrders) + 1]
  /\ UNCHANGED <<channel, customers, convs, filed, handled, faults>>

RecordOrder(d) ==
  /\ hook[d].pc = "record"
  /\ convs' = [convs EXCEPT ![hook[d].conv].lastKey = hook[d].key,
                            ![hook[d].conv].active = hook[d].seen.active]
  /\ Goto(d, "send")
  /\ UNCHANGED <<channel, customers, filed, agentOrders, handled, faults>>

\* A claim to have paid, a question about an order and, where the business lets it, a product search are answered from
\* the records.
AnswerFromRecords(d) ==
  /\ hook[d].pc = "think"
  /\ Delivered(hook[d].conv)
  /\ Goto(d, "done")
  /\ UNCHANGED <<channel, customers, filed, agentOrders, handled, faults>>

\* The model's answer orders nothing, repeats the last order, or orders what is refused.
AnswerFromModel(d) ==
  /\ hook[d].pc = "think"
  /\ Goto(d, "send")
  /\ UNCHANGED <<channel, customers, convs, filed, agentOrders, handled, faults>>

\* The reply goes out; the pictures after it change nothing more.
SendReply(d) ==
  /\ hook[d].pc = "send"
  /\ Delivered(hook[d].conv)
  /\ Goto(d, "done")
  /\ UNCHANGED <<channel, customers, filed, agentOrders, handled, faults>>

(***************************************************************************)
(* Faults: the AI provider or the channel refuses, which the handler logs  *)
(* and forgets; the API dies with every handler in it.                     *)
(***************************************************************************)
GiveUp(d) ==
  /\ faults < MaxFaults
  /\ faults' = faults + 1
  /\ Goto(d, "done")
  /\ UNCHANGED <<channel, customers, convs, filed, agentOrders, handled>>

\* The control model refuses, alone or after the candidate whose refusal it was to make good.
ModelRefuses(d) == hook[d].pc = "think" /\ GiveUp(d)

\* The channel is not connected, has no token, does not know the receiver, or answers with an error.
ChannelRefuses(d) == hook[d].pc = "send" /\ GiveUp(d)

ApiDies ==
  /\ faults < MaxFaults
  /\ \E d \in Deliveries : hook[d].pc \notin {"idle", "done"}
  /\ faults' = faults + 1
  /\ hook' = [d \in Deliveries |-> IF hook[d].pc = "idle" THEN hook[d] ELSE DoneHook(hook[d].msg)]
  /\ UNCHANGED <<channel, customers, convs, filed, agentOrders, handled>>

(***************************************************************************)
(* The follow-up job, once, FOLLOW_UP_DELAY_MS after the conversation      *)
(* began: it drafts a reply for the inbox unless any reply was sent in the *)
(* conversation; a refusal of the AI provider makes the queue run it again.*)
(***************************************************************************)
FollowUpRead(i) ==
  /\ convs[i].job = "waiting"
  /\ convs' = [convs EXCEPT ![i].job = IF convs[i].replied THEN "done" ELSE "draft"]
  /\ UNCHANGED <<channel, customers, filed, agentOrders, hook, handled, faults>>

FollowUpFailsThen(i, state) ==
  /\ convs[i].job = "draft" /\ faults < MaxFaults
  /\ faults' = faults + 1
  /\ convs' = [convs EXCEPT ![i].job = state]
  /\ UNCHANGED <<channel, customers, filed, agentOrders, hook, handled>>

FollowUpFailsForGood(i) == FollowUpFailsThen(i, "done")
FollowUpFails(i) == FollowUpFailsThen(i, "waiting")

FollowUpDraft(i) ==
  /\ convs[i].job = "draft"
  /\ convs' = [convs EXCEPT ![i].job = "done", ![i].draft = TRUE]
  /\ UNCHANGED <<channel, customers, filed, agentOrders, hook, handled, faults>>

\* The merchant writes from the inbox, or hands a conversation back to the agent.
SendFromInbox(i) ==
  /\ Delivered(i)
  /\ UNCHANGED <<channel, customers, filed, agentOrders, hook, handled, faults>>

\* A message the merchant logs by hand.
AddMessage(i) ==
  /\ \E direction \in {"INBOUND", "OUTBOUND"} :
       convs' = [convs EXCEPT ![i].replied = @ \/ direction = "OUTBOUND"]
  /\ UNCHANGED <<channel, customers, filed, agentOrders, hook, handled, faults>>

Resume(i) ==
  /\ convs[i].escalated
  /\ convs' = [convs EXCEPT ![i].escalated = FALSE]
  /\ UNCHANGED <<channel, customers, filed, agentOrders, hook, handled, faults>>

OrderIsPaid(o) ==
  /\ agentOrders[o].status = "unpaid"
  /\ agentOrders' = [agentOrders EXCEPT ![o].status = "paid"]
  /\ UNCHANGED <<channel, customers, convs, filed, hook, handled, faults>>

Handler(d) ==
  \/ Ignore(d) \/ FindCustomer(d) \/ CreateCustomer(d)
  \/ FindConversation(d) \/ CreateConversation(d) \/ ScheduleFollowUp(d)
  \/ ClaimMessage(d) \/ UpsertMessage(d)
  \/ RouteToShoppingFlow(d) \/ LoadConversation(d) \/ Escalate(d) \/ CancelOrder(d)
  \/ ExecuteCreateOrder(d) \/ RecordOrder(d)
  \/ AnswerFromRecords(d) \/ AnswerFromModel(d) \/ SendReply(d) \/ ModelRefuses(d) \/ ChannelRefuses(d)

FollowUp(i) == FollowUpRead(i) \/ FollowUpDraft(i)

IntakeNext ==
  \/ \E d \in Deliveries : Handler(d)
  \/ ApiDies
  \/ \E i \in DOMAIN convs : FollowUp(i) \/ FollowUpFails(i) \/ SendFromInbox(i) \/ AddMessage(i) \/ Resume(i)
  \/ \E o \in DOMAIN agentOrders : OrderIsPaid(o)

IntakeSpec == IntakeInit /\ [][IntakeNext]_intakeVars

IntakeTypeOK ==
  /\ channel \in {"WHATSAPP", "UPSERT"} /\ customers \in 0..MaxConvs /\ faults \in 0..MaxFaults
  /\ filed \in [Messages -> 0..Len(convs)]
  /\ Len(convs) <= MaxConvs /\ Len(agentOrders) <= MaxAgentOrders
  /\ \A i \in DOMAIN convs : convs[i].customer \in 1..customers /\ convs[i].active \in 0..Len(agentOrders)
  /\ \A d \in Deliveries : hook[d].cust \in 0..customers /\ hook[d].conv \in 0..Len(convs)

(***************************************************************************)
(* "Only ONE of any number of concurrent or repeated deliveries" of a      *)
(* WhatsApp message is handled: "a repeated delivery can never add a       *)
(* second cart item, order or reply".                                      *)
(***************************************************************************)
HandledOnce == channel = "WHATSAPP" => \A m \in Messages : handled[m] <= 1

(***************************************************************************)
(* A conversation is not forgotten: however deliveries interleave and      *)
(* handlers fail or die, one that holds a message and whose follow-up was  *)
(* scheduled does not stay without any reply, any draft in the inbox and   *)
(* any human in charge, if the AI provider answers with some text when it  *)
(* does not refuse. It says nothing of each message: the job runs once and *)
(* leaves a conversation alone that was answered before (follow-up.ts:30), *)
(* so nobody is told of a later message whose handler died. Nor is a       *)
(* conversation followed up when a crash kept the job from being scheduled.*)
(***************************************************************************)
Unanswered == {i \in DOMAIN convs :
  /\ convs[i].job # "none" /\ \E m \in Messages : filed[m] = i
  /\ ~(convs[i].replied \/ convs[i].draft \/ convs[i].escalated)}
FollowedUp == []<>(Unanswered = {})

(***************************************************************************)
(* buildOrderKey: "so a repeat/duplicate AI trigger (retried webhook,      *)
(* re-run, ...) can't place it twice".                                     *)
(***************************************************************************)
AgentOrdersOnce == \A i, j \in DOMAIN agentOrders : agentOrders[i].key = agentOrders[j].key => i = j
=============================================================================
