# Verification of Relay

TLA+ models of the parts of Relay (the multi-channel sales and support
platform of this repository) whose correctness depends on the order in which
concurrent handlers reach the database, TLC runs that check them on small
instances, and TLAPS proofs of every safety property those runs find to hold, for
instances of any size. Paths are relative to the repository (`src/`); `api/` stands for
`apps/api/src/modules/` and `worker/` for `apps/worker/src/`.

## 1. The system

Relay is a NestJS API, a BullMQ worker and a Next.js dashboard over one
PostgreSQL database (Prisma) and Redis queues. Customers write to a business on
WhatsApp, Instagram or by e-mail. Each webhook delivery is answered at once and
handled in the background (`api/webhooks/whatsapp-webhook.controller.ts:42`),
so the messages of one customer are handled concurrently. No handler takes a
lock for a conversation, a cart or an order; what keeps them apart are
database transactions (READ COMMITTED), conditional updates (`updateMany` or
`update` with a `where` on the status) and unique constraints. Payments, shipment
and reminders come back later, as Razorpay webhooks and as delayed jobs.

| Component | State | Operations | Interacts with |
|---|---|---|---|
| Order service (`api/orders`) | orders, items, stock counters | create, approve, replaceItems, retryPaymentLink, markPaidViaRazorpay, updateStatus, updateFulfillmentStatus, resetTestData | Razorpay, queues, inventory audit |
| Order jobs (`worker/jobs/order-*.ts`) | the same rows | simulated payment, shipment stages, expiry | queues; messages the customer |
| Queues (`apps/api/src/queue`, `worker/queues.ts`) | Redis jobs | add (delayed), take, retry 3 times | API to worker |
| Razorpay payments (`api/payments`, `api/webhooks/razorpay-*`) | payment links (external) | create link, payment webhook | order service |
| Cart (`api/cart`) | carts and cart items | getOrCreateActive, addItem, updateItemQuantity, clear, checkout | order service |
| Shopping flow (`api/shopping-flow`) | conversation columns: shoppingState, pending address and payment method, activeOrderId | browsing, selection, beginCheckout ... confirmOrder | cart, orders, shopping intelligence |
| AI agent (`api/ai`, `api/assisted-buying`) | lastOrderKey, activeOrderId, AI action log | reply, create or cancel an order from a transcript and the active cart | model providers, orders, cart |
| Shopping intelligence | none | search, interpretation, ranking (pure) | shopping flow, agent |
| Channel intake (`api/webhooks`, `api/conversations`) | customers, identities, conversations, messages | receive, deduplicate, route | shopping flow, agent |
| Billing (`api/billing`, `worker/jobs/billing-sweep.ts`) | subscription, billing events | checkout, cancel, resume, webhook, sweep | Razorpay subscriptions |
| Meta callbacks, embedded signup, data erasure | connections, user links, requests | connect, disconnect, deauthorize, delete data, manual review | Meta, each other |
| Razorpay connection | OAuth state and tokens | connect, disconnect, refresh | order service (links) |
| Inventory audit (`api/inventory`) | stock adjustments, low-stock alerts | recordAdjustment, notifyBackInStock | orders, products, imports |
| Products, imports | catalogue, import jobs | commit, cancel | inventory audit |
| Opportunities and worker scans | opportunities, suggestions | create, send, cap | channels |
| Customers, businesses, users, promotions, categories | one row per edit | CRUD | all |
| Auth, backup, dashboard | per request, or none | | |

What makes each component correct, for the ones with a protocol:

* **Orders**: a unit of stock is sold once and comes back once; a payment is
  recorded once and for the right amount; nothing is shipped unpaid; a finished
  order stays finished; a large order is reviewed; no order waits for ever.
* **Cart**: a cart's items are ordered at most once; a checkout that fails gives
  the cart back, one that succeeds does not; one active cart per conversation.
* **Intake and agent**: a message is handled once; a conversation that nobody has
  answered gets a reply, a draft of one or a human; one confirmed conversation turn
  makes one order.
* **Shopping flow and search**: a prompt has the item, address or method its
  answer is for; an order goes to an address given for it; a search keeps the
  ceiling and the stock it promised, and its alternatives were not in an earlier
  search of the topic.
* **Outreach**: one live suggestion about a cart; what counts as sent was sent.
* **Billing**: an event moves the subscription once; what was paid for is not
  taken away; a trial that ran out ends.
* **Connections and erasure**: a review decides once; the links of a person to a
  connection are of the connection that is stored, so nobody's withdrawal hits a
  newer one; what Meta asked to forget stays forgotten; a connected Razorpay account
  is not left with a token set that ended and that nothing will replace; of two
  erasures one acts, and a finished one is final.
* **Stock alerts and imports**: one active alert per variant; a row of an import
  makes one variant.

The hazards behind these properties are listed, each at its line, in
`PROJECT.json`.

## 2. The modules

| Module | What it is |
|---|---|
| `OrderData` | rows, statuses, item lists; what reserving, releasing, amending and the jobs' checks compute. No state. |
| `OrderLifecycle` | the order service, the Razorpay webhook and the order jobs over one set of tables |
| `MCOrderLifecycle` | constants for TLC: one priced variant, request budgets, symmetry |
| `OrderLifecycleProofs` | the type invariant, for every instance |
| `OrderSafetyProofs` | no oversale, one confirmation, nothing shipped unpaid, finished orders stay finished, the stock books balance |
| `OrderPaymentProofs` | payments match the total, what each writer is entitled to, review before payment, one link per order |
| `CartCheckout` | carts of one conversation, their checkout, and the agent's order that takes a cart's items without claiming it |
| `Purchase` | the abstract promise: a cart is open, then bought once in one step or given up |
| `MCCartCheckout` | constants for TLC |
| `CartCheckoutProofs` | a cart is bought at most once, for every instance |
| `CartRefinement` | `CartCheckout` implements `Purchase`, for every instance |
| `Billing` | a business's subscription: checkout, cancel, resume, Razorpay's webhook with its ledger, the daily sweep, entitlement |
| `RazorpayConnection` | OAuth hand-shake, disconnect and daily token refresh, each of which may die between its calls or fail to write |
| `MetaConnection` | WhatsApp connections: embedded signup, settings form, Meta's deauthorization and deletion callbacks, the admins who review them |
| `DataErasure` | the erasure of one customer by admins who may overlap, die and take over |
| `MCAccounts` | constants for TLC; one of the four above moves, the others stand still |
| `AccountsProofs` | the safety properties of the four, and of `MCAccounts` |
| `MessageIntake` | the messages of one sender: filing, routing, the agent and its orders, the follow-up job, the inbox |
| `ShoppingFlow` | the prompts, item, address, method and basket of one conversation |
| `ShoppingSearch` | what a saying is read into, what a search lists, and the context it leaves |
| `Outreach` | suggestions and nudges about one customer's cart and products |
| `StockAlerts` | one variant's stock, its alerts and the back-in-stock notice |
| `CatalogueImport` | an import from its rows to commit, completion or cancel |
| `MCStorefront` | constants for TLC; one of the six above moves, the others stand still |
| `MCMessageIntake` | constants for one message delivered twice |
| `CatalogueProofs` | the properties of `StockAlerts`, `CatalogueImport` and `ShoppingSearch` |
| `StorefrontProofs` | those of `Outreach`, `ShoppingFlow` and `MessageIntake`, and of `MCStorefront` |

### Atomicity

One action is one database call, one transaction, one request to Razorpay or one
queue insertion. A running handler is an entry of `op`: the call it makes next
(`pc`) and what it has read so far. Any number of handlers interleave between
calls, and a handler may die between any two (`Crash`). The reads that begin a
handler are one action together, when nothing else of the handler can separate
what they return; whatever a handler uses after another `await` is taken from the
copy it keeps (`seen`), never from the table.

A transaction is one action although PostgreSQL runs it at READ COMMITTED. The
modelled transactions change stock by conditional or relative updates
(`inventory: { gte }` with `decrement`; `increment`), which lock the variant and
test it again, and write the order from what was read before the transaction,
which is `seen`. Two transactions on one order release the same old items first,
so they wait for each other on those variants. The exception is an order without
tracked stock: two amendments of it can run inside each other and leave both
lists of items on the order. Such items are outside the model.

### Orders

| Action | Code |
|---|---|
| `CreateTx` | the transaction of `OrderService.create`: reserve, insert with the initial status |
| `ApproveRead`, `ApproveWrite` | `approve`: status checked on a read, then written unconditionally |
| `AmendRead`, `AmendWrite`, `AmendRefused` | `replaceItems`: release what was read, reserve the new items, write the status computed from the read; a later refusal keeps the order |
| `LinkCreated`, `LinkRefused`, `LinkNotConfigured`, `AttachLink`, `ClearLink` | asking Razorpay for a link, and writing or clearing it on the row |
| `RetryRead`, `RetryAttach`, `RetryReread` | `retryPaymentLink`: of several links one is attached, the others fall back to it |
| `Reply` | the caller sends the link of the row it got back |
| `StatusRead`, `StatusWrite` | `updateStatus`, releasing on cancel and refund |
| `FulfilRead`, `FulfilWrite` | `updateFulfillmentStatus` |
| `WebhookLookup`, `WebhookRead`, `WebhookConfirm` | the webhook finds the order by its link, checks amount and status, and confirms with a conditional update |
| `ScheduleProgress`, `ScheduleExpiry`, `ScheduleStage` | jobs added to the queues |
| `JobRead`, `JobSkips`, `PayWrite`, `StageWrite`, `ExpireWrite` | the worker: a job reads, checks, writes, schedules the next |
| `ResetRead`, `ResetWrite` | `resetTestData`: the orders are read outside the transaction that releases and deletes |
| `RowGone`, `Crash` | Prisma's P2025 on a deleted row; a process that dies, with BullMQ's retry |
| `CustomerPays` | a customer pays a link they were sent (external) |

`stale` records the orders that a handler wrote on the strength of a read that
was out of date by then. The code has several such writes. `StockBalances`
and `TerminalIsFinal` hold as long as none happens to the order, which is
precisely what they say: everything else, all the sequences of requests,
crashes and retries, keeps the books; the read-then-write gaps are the only way
to break them. The gaps themselves are shown by the `violation` runs.

Jobs have no delays: a job may run any time after it was added, so the model has
all orders in which the delays can expire, including a late expiry racing a payment.

### Carts

| Action | Code |
|---|---|
| `Tap` | a button or message is routed to one of the cart operations |
| `FindCart`, `MakeCart` | `getOrCreateActive`: find, then create |
| `ChangeItems` | `addItem`, `updateItemQuantity`, `clear` |
| `BeginCheckout`, `GiveDetails`, `CancelCheckout` | the questions of the shopping flow before a confirmation |
| `GetCart`, `ReadActiveOrder`, `ReadNewest`, `Claim` | `checkout` up to the conditional update that closes the cart |
| `PlaceOrder`, `CreateFails` | `OrderService.create` commits, or fails before or after it did |
| `AmendRead`, `AmendOrder`, `AmendFails` | `replaceItems` on the open order |
| `LookForOrder`, `ReopenCart` | the recovery: did it commit after all? if not, give the cart back |
| `Finish` | `confirmOrder` makes the order the active one |
| `Ask` | the agent is asked; it works on the conversation it read before the model answered |
| `AgentFindsCart`, `AgentReadsOrder` | `executeCreateOrder` (`api/ai/ai.service.ts:521-541`): the active cart, if it has items, and the order to amend |
| `AgentPlaces`, `AgentAmends`, `AgentFails` | `OrderService.create` or `replaceItems`, which may fail |
| `AgentClears`, `AgentRecords` | the cart it read is emptied, whatever its status by then (`:555`), and the order becomes the active one |
| `OrderMoves` | the order leaves or enters an amendable status (`OrderLifecycle` has how) |

The agent does not claim a cart: it copies the items of the active one onto its
order and empties it afterwards, so a checkout beside it may order the same items.
`BoughtOnce` and `sold` are about the checkouts that claimed a cart, and the agent's
orders are there because they are what a checkout's recovery may find: it looks for
the newest order of the conversation, and may take the agent's for its own.

The calls that may fail are the constant `Failures`; `"afterAmend"` is the failure
after a committed amendment for which the code has no recovery.

### Accounts

| Module | Actions and code |
|---|---|
| `Billing` | `CheckoutRead`, `EnsureRazorpayPlanId`, `CreateSubscription`, `SaveSubscription` are `checkout`, a Razorpay call or a query each; `CancelRead`, `ResumeRead`, `WriteFlag` the two buttons; `IngestLookup`, `IngestInsert`, `IngestApply`, `MarkProcessed` the webhook; `SweepRead` ... `SweepTrials` the daily job. `HookCrash` and `TabFails` stop a request between calls. Any event with a status may carry a new end of the period (`billing-webhook.service.ts:68-69`). Dates are `future`, `past` or past the grace period, and `TimePasses` moves them. |
| `RazorpayConnection` | `ExchangeCode`, `SaveTokens` (`handleCallback`), `LeaveRead`, `RevokeToken`, `ClearConnection` (`disconnect`), `RefreshRead`, `RefreshAsk`, `RefreshSave` (the worker, which does nothing without `client`, the OAuth application's id and secret). `RefreshSaveFails`, `RefreshDies`, `DisconnectDies`, `RedirectDies` are the losses between calls; `abandoned` has the sets a dead disconnect revoked. A token set is the number of its grant; Razorpay may end a set when it replaces it. |
| `MetaConnection` | the steps of `completeOnboarding` (`StartOnboarding` ... `RecordConnectionIdentity`, `SignupDies`), `disconnect`, the settings form (`SettingsRead`, `TypeCredentials`, `SupersedeLinks`, `SupersedeFails`: a token or a number that is not the one read replaces the connection), the callbacks (`HandleDeauthorization`, `HandleDataDeletion`: one transaction each, with the dedupe key as its guard) and the admins' `Load...` and `Resolve...`. A connection is named by the instant it was stored, and a link carries the one it was written for. All statuses of a signup under way or failed are `ONBOARDING`, since nothing asks which. `crossed` records the businesses whose links missed the last change of connection. |
| `DataErasure` | `CountOpenOrders`, `FindRequest`, `ClaimRequest`, `Erase`, `RollBack`, `MarkFailed`; `RowGoesStale` lets a dead executor be taken over. |

`stale` of a `DataErasure` row is only ever set for a dead executor, because the
erasing transaction is bounded by 70 seconds and the staleness by 15 minutes.

### Storefront

| Module | Actions and code |
|---|---|
| `MessageIntake` | from `FindCustomer` to `ScheduleFollowUp` each read and write of the webhook handlers; `ClaimMessage` files by the unique id (WhatsApp) or looks up and upserts (Instagram, e-mail); then routing, `LoadConversation`, and what the agent may do: `Escalate`, `CancelOrder`, `ExecuteCreateOrder` and `RecordOrder`, `AnswerFromRecords`, `AnswerFromModel`, `SendReply`. `FollowUpRead`, `FollowUpDraft`, `FollowUpFails` are the job; `SendFromInbox`, `AddMessage`, `Resume` the merchant. Which of the answers the language model gives is a choice. |
| `ShoppingFlow` | one operator per method of `shopping-flow.service.ts` that moves the prompt; `HandleInteractive` and `HandleFreeText` choose among them. A handler works on the reading of the conversation it began with (`FlowReading`), at once or with another message handled in between (`StartFlow`, `FinishFlow`); `Place` and `RecordPlaced` are the checkout and the update after it. Where the outcome depends on the catalogue (in stock or not, one variant or several) it is a choice. |
| `ShoppingSearch` | pure operators for interpretation (`Merge...`), hard constraints, the relaxation ladder, recovery, alternatives, similar and cheaper items, and the actions that write the context: a search, the agent's assisted buying and budget, browsing, an order. `ShowPage` is `showProducts`: it lists the products of a category and starts a topic that does not keep them (`paged`). Words, colours and prices are members of small sets; a product's text is the set of words it contains. |
| `Outreach` | `CheckRules`, `FindExisting`, `CreateOpportunity`, `AutoSend` or `SendFromJob`, `MarkSent` for every run that makes a suggestion (`Sources`); `SendNudge` for a business without suggestions; the inbox (`SendRead`, `SendToChannel`, `SendMark`, `Dismiss`, `Snooze`, `WakeSnoozed`), attribution (`AttachRead`, `AttachWrite`), `ExpireForCheckedOutCart`. `MakerFails` fails a run anywhere, and the queue runs the cart's job again. |
| `StockAlerts` | `SetStock`, `Reserve`, `Release` begin a change with what was read; `UpdateVariant` takes the row's lock, `FindAlert` looks, `CommitChange` writes stock and alert, `NotifyBackInStock` follows. |
| `CatalogueImport` | `PersistAndValidateRows`, `UpdateRow`, `ReadJob`, `ClaimJob`, `CommitGroup`, `CommitRow`, `CompleteJob`, `CommitDies`, `Cancel`. |

The modules of one group share no row that a property is about. A step of one
leaves the others' variables alone, so their interleavings say nothing new, and a
behaviour of `MCAccounts` or `MCStorefront` chooses one (`part`). The groups meet
the order core in two places, modelled on each side by what it needs: the agent
and the flow place orders (`agentOrders`, `orders`: only that one is placed and
whether it can still be amended), and orders change stock (`Reserve`, `Release`).

## 3. What TLC checks

| Run | Question | Result |
|---|---|---|
| `Orders_all` | all requests on one order, two handlers at a time, one crash | `TypeOK`, `Strengthening`, `NeverOversold`, `StockBalances`, `ConfirmedOncePerOpening`, `ShippedOnlyAfterPaid`, `TerminalIsFinal`, `ConfirmedAtItsTotal` hold |
| `Orders_payment` | two orders for the last units, retried links, doubled webhooks, one crash | `NeverOversold`, `OneLinkOffered`, `ReviewedBeforePaid` hold |
| `Orders_liveness` | does every order get somewhere? | `WaitingOrdersResolve`, `PaidOrdersAreDelivered` hold under `FairSpec` |
| `Orders_expiry_race` | does a payment outdate the expiry job? | violated: the job cancels a paid order |
| `Orders_old_link` | does a link charge the order's total? | violated: an old link survives an amendment |
| `Orders_unreviewed` | is a large order paid only after review? | violated once orders are amended |
| `cart_checkout` | is a cart bought at most once? | `TypeOK`, `BoughtOnce`, `OneHolder`, `SoldIsClosed` and the refinement `CheckoutIsOneStep` hold |
| `cart_amended_twice` | the same with failures after a committed amendment | violated: the items are put on the order twice |
| `cart_two_active` | one active cart per conversation? | violated: two taps create two |
| `accounts_all` | the four account modules, each with its requests, jobs, crashes and redeliveries | `AccountsTypeOK`; `AppliedOnce`, `PaidPeriodKeepsAccess`, `StaleTrialEnds` (billing); `DeadTokensAreFound`, `DueIsHandled` (Razorpay); `ResolvedOnce`, `Forgotten`, `LinksFollowTheConnection` (Meta); `OneEraser`, `CompletedIsFinal` (erasure) hold |
| `storefront_all` | the six storefront modules, each with overlapping handlers, retries and failures | `StorefrontTypeOK`; `HandledOnce`, `FollowedUp` (intake); `PromptHasItsItem`, `AddressIsFresh` (flow); `WithinBudget`, `AlternativesAreNew` (search); `FunnelIsTrue`, `OneLiveNudge` (outreach); `OneActiveAlert`; `RowsImportedOnce` hold |
| `agent_orders_twice` | does the order key stop a repeated trigger? | violated: two handlings of one message both read the old key |

What the conditional ones leave out is what the code really does, and is listed as
a hazard: `AddressIsFresh` and `AlternativesAreNew` hold while no two messages of
the conversation are handled at once (and no handler died after the order),
`RowsImportedOnce` unless two requests read `READY_FOR_REVIEW` together,
`HandledOnce` on WhatsApp only, `OneLiveNudge` for suggestions that the merchant
did not put aside and no order was credited to yet (a send under way marks such a
row SENT once more). Further:

* `FollowedUp` is about conversations whose follow-up was scheduled, and about the
  conversation, as the job is (`worker/jobs/follow-up.ts:25-30`): it passes over one
  that was ever answered, drafted for or handed to a human, so a second message whose
  handler dies after the first was answered is not followed up.
* `AlternativesAreNew` leaves out what only the page of a category listed:
  `showProducts` stores a topic without those products
  (`shopping-flow.service.ts:1187-1194`), and "any other options?" may list them again.
* `PaidPeriodKeepsAccess` exempts one end of access, an applied
  `subscription.completed` event of the business. It may be of an older subscription.
* `LinksFollowTheConnection` leaves out businesses in `crossed`: a request died, or
  failed to update the links, after it stored a connection, or two changes of the
  connection crossed.
* `DeadTokensAreFound` does not promise a working token: a disconnect that dies
  between revoking and clearing leaves a dead one (`abandoned`), and a refresh
  overwrites what was connected while it asked.

The violated ones are statements of the code's own comments; `PROJECT.json`
quotes them under `findings`. Every property that holds has a mutant, a
plausible slip in one definition under which TLC finds it violated.

**Bounds.** One variant with two units and orders of up to two make the last unit
contested, one tight amendment and one above the autonomy limit (total 2, limit
1) possible. The races of this code are between two handlers on one order, so two
handler slots and one order have them; a second order is added where orders
compete for stock. Two links allow a replaced link. `Orders_all` and
`Orders_payment` have Razorpay configured (a link is created or refused); an online
order without Razorpay, whose payment is simulated, is in `Orders_liveness`, and
cash on delivery takes the same path in all of them. Three or four requests let
any pair overlap after the order was created, and jobs are not bounded, except by
what the code schedules. Two carts, two orders and five taps allow a full checkout,
a second cart and a retry; an order of the agent counts as a tap. The number of requests, taps and crashes is bounded by
guards on `Request`, `Tap` and `Crash`. Handlers and links are interchangeable,
which the runs without liveness use as symmetry. The proofs remove all of these
bounds for the properties they cover.

`Accounts_all`: one dashboard tab, two deliveries of one event and two
subscriptions at Razorpay, beside the sweep; two redirects, a disconnect and a
refresh over three grants, with two deaths or failed writes; one business with one
deauthorization and one deletion that two admins review, beside a signup and a
settings form that store two connections between them (`Room` counts the ones that
are about to be stored); two executors and four writes of one erasure. Each race of
this code is between two requests about one row, and the third token set or the
second connection is the newer one that a late write may hit. One event
at a time leaves the order among events to the sweep and the buttons.

`Storefront_all`: two deliveries, of one message or of two on WhatsApp, of one
elsewhere; two conversations; one order of the agent (two in
`Agent_orders_twice`); one fault. Two variants, one of them alone in its product,
and two orders, which is what a left-over address needs. Three products with two
words, a colour and two prices, a list of two, eight sayings of which three follow
each other. Two runs that make suggestions, in pairs that between them cover every
source, with a sender, an order and two attempts of the queue; the rule allows
sending at once, which a closed window or a chat still prevents. Two changes of
one variant with stock up to two. Two rows of one or two names, one SKU, two files,
two commits and one edit of the merchant. `ShoppingFlow` allows one overlap of two
messages, or one death, in a behaviour.

**Fairness.** `FairSpec` asks that a running handler takes its next step (each
`await` resolves) and that the worker eventually takes each waiting job (BullMQ
delays expire and the worker is up). It asks nothing of customers, merchants,
Razorpay or crashes. The liveness run has no crash, no amendment and no merchant
status change: with a crash after PAID is written the retried job skips and the
pipeline is never started (`worker/jobs/order-progress.ts:48,73`), and an
amendment into AWAITING_APPROVAL schedules no expiry (`order.service.ts:357`).
Both are listed as hazards.

The other fairness conditions are about jobs only: the daily sweep and the daily
token refresh are repeatable jobs of the worker (`Accounts_all`), and the queue
runs the follow-up job of a conversation, and again after it failed
(`Storefront_all`). No handler of the API, merchant or provider is fair.

Deadlock is not checked: when the budget is used up and the queues are empty, or
simply when nobody writes, the system rests.

## 4. What is proved

Every safety property of the passing runs, type invariants included, is a theorem
for all values of the constants: any sets of orders, variants, links, handlers,
carts, tabs, deliveries, businesses, admins, rows, products or sayings, and any
bounds.

| Theorem | Statement |
|---|---|
| `OrderLifecycleProofs!TypeCorrect` | `Spec => []TypeOK` |
| `OrderSafetyProofs!NoOversale` | `Spec => []NeverOversold` |
| `OrderSafetyProofs!OneConfirmation` | `Spec => []ConfirmedOncePerOpening` |
| `OrderSafetyProofs!NothingShipsUnpaid` | `Spec => []ShippedOnlyAfterPaid` |
| `OrderSafetyProofs!TerminalOrdersStay` | `Spec => TerminalIsFinal` |
| `OrderSafetyProofs!StockAddsUp` | `Spec => []StockBalances` |
| `OrderPaymentProofs!PaymentsMatchTheTotal` | `Spec => ConfirmedAtItsTotal` |
| `OrderPaymentProofs!WritersAreEntitled` | `Spec => []Strengthening` |
| `OrderPaymentProofs!ReviewPrecedesPayment` | `Spec => []ReviewedBeforePaid`, without amendments |
| `OrderPaymentProofs!OneLinkPerOrder` | `Spec => []OneLinkOffered`, without amendments and approvals |
| `CartCheckoutProofs!CartTypes` | `Spec => []TypeOK` |
| `CartCheckoutProofs!CartBoughtOnce` | `Spec => [](BoughtOnce /\ OneHolder /\ SoldIsClosed)`, without `"afterAmend"` |
| `CartCheckoutProofs!CartHasOneHolder` | `Spec => []OneHolder`, without `"afterAmend"` |
| `CartCheckoutProofs!CartStaysClosed` | `Spec => []SoldIsClosed`, without `"afterAmend"` |
| `CartRefinement!CheckoutImplementsPurchase` | `Spec => CheckoutIsOneStep`, without `"afterAmend"` |
| `AccountsProofs!EventsAppliedOnce`, `PaidMerchantsKeepAccess` | `BillingSpec => []AppliedOnce`, `[]PaidPeriodKeepsAccess` |
| `AccountsProofs!DeadTokensStayInReach` | `RazorpaySpec => []DeadTokensAreFound` |
| `AccountsProofs!DecidedStaysDecided`, `DeletedUsersAreForgotten`, `LinksAreOfTheConnection` | `MetaSpec => ResolvedOnce`, `[]Forgotten`, `[]LinksFollowTheConnection` |
| `AccountsProofs!OneErasesAtATime`, `CompletedStaysFinal` | `ErasureSpec => []OneEraser`, `CompletedIsFinal` |
| `AccountsProofs!AccountsTyped`, `AccountsAreSafe` | the type invariant and all of these for `MCAccounts!Spec` |
| `CatalogueProofs!OneAlertIsActive` | `StockSpec => []OneActiveAlert` |
| `CatalogueProofs!RowsAreImportedOnce` | `ImportSpec => []RowsImportedOnce` |
| `CatalogueProofs!ListsStayWithinBudget`, `OthersAreNew` | `SearchSpec => []WithinBudget`, `AlternativesAreNew` |
| `StorefrontProofs!MessagesAreHandledOnce` | `IntakeSpec => []HandledOnce` |
| `StorefrontProofs!PromptsHaveTheirItem`, `AddressesAreFresh` | `FlowSpec => []PromptHasItsItem`, `AddressIsFresh` |
| `StorefrontProofs!FunnelIsAlwaysTrue`, `OneNudgeIsLive` | `OutreachSpec => []FunnelIsTrue`, `[]OneLiveNudge` |
| `StorefrontProofs!RunsAreOfEachPart` | `MCStorefront!Spec` implies the specification of each of the six modules |
| `StorefrontProofs!StorefrontTypes`, `StorefrontIsSafe` | the type invariant and all of the last rows for `MCStorefront!Spec` |

**Hypotheses.** Three groups of theorems exclude requests or failures under which
the statement is false, and a run shows each: `"afterAmend"`
(`cart_amended_twice`), amendments for `ReviewedBeforePaid` (`Orders_unreviewed`),
amendments and approvals for `OneLinkOffered` (both send a second link for the
order). All else rests on the assumptions of the modules:
`OutreachAssumption` has at most one run of the abandoned-cart job per cart, which
the queue ensures with the job id `cart-<id>` (`queue.service.ts:79`);
`SearchAssumption` has finitely many products, each with a variant (a product without
active ones is filtered from every list), and prices that are positive numbers
(`@IsPositive`, `create-product.dto.ts:31`), all of them from 1 on so that one
below a price is a price or none; the others say that bounds are numbers, that maps
have the right domains and that the "nothing" values are none of the things.

### Orders

`TypeOK` is inductive as it stands, because it contains
what a handler's slot must hold at each of its calls (`WellFormed`). The safety
properties are not: `ShippedOnlyAfterPaid` says nothing of a job that is waiting
or of a handler that has read a paid order and not written it yet, so
`ShipmentsArePaid` adds those; `ConfirmedOncePerOpening` needs that an order that
is still payable has not been confirmed since it was opened
(`OpenOrdersUnconfirmed`), which is what the conditional update of the webhook
rests on; `TerminalIsFinal` needs that a handler about to write has itself read an
order that was not finished (`DecidedOnLiveOrders`), so if the order it writes is finished
the read was stale; `ConfirmedAtItsTotal` needs that a webhook on its way to confirm
has verified the amount of its link against the total it read
(`DeliveriesVerified`). `NeverOversold` needs the types only. `Strengthening` collects these
facts; `Orders_all` checks it and `WritersAreEntitled` proves it. One lemma says what a step
does to the handler slots (`StepSlots`), one what it does to the rows
(`StepRows`); the preservation proofs use those instead of the actions.

`StockBalances` counts: a unit of stock is an element of a set of pairs (an order
and an index up to its quantity), so rewriting one order changes what is held by what that order held and
holds now (`UnitsChange`). A handler that does not mark its order `stale` writes a
live row whose items are the ones it read (`FreshWrite`), so what it releases or
reserves is exactly that difference (`BalanceRow`).

`ReviewedBeforePaid` is carried by `ClearedToPay`: whatever can still have an order
paid (a payable row, a waiting payment job, a handler about to schedule or link)
concerns an order below the limit or reviewed. `OneLinkOffered` is carried by
`OneLinkEach`: every handler that serves the customer holds the order's own link or
none, nobody else serves an order while it is being created, and `retryPaymentLink`
attaches a link only to an order that has none.

### Carts

The inductive invariant is `TypeOK`, `OneHolder`,
`SoldIsClosed`, `BoughtOnce` and `KnownOrders` (the newest order, and what a
checkout remembers of it, are orders that exist). The claim gives a checkout the
cart to itself (`OneHolder`); while it has it and is undecided, the cart has not
been sold (`SoldIsClosed`); so placing the order is its first sale. The delicate
case is the failure after the commit: the checkout goes to `"look"`, and
`CommittedSince` must find the order, which it does because the new order is the
newest one and is not the one remembered before the claim. The agent holds no cart
and its slot remembers no newest order; the order it places is newer than any a
checkout remembers, so the look-up still finds one (`AgentPlaced`).

The refinement maps a cart to the phase the customer sees: a closed row whose
checkout is undecided and has not bought it is still open (`phase`). A step of a
handler that neither claims, commits nor ends is not seen (`NothingSeen`); the
claim and the reopening leave the phase as it is; committing the order is `Buy`
(`CheckoutBuys`, by `OneHolder` and `SoldIsClosed`); ending or dying with the
cart closed and unsold is `GiveUp` (`CheckoutEnds`). No step of the agent is seen
(`AgentUnseen`).

### Accounts

* Billing: a webhook about to write the status has inserted its ledger row, is
  alone with it, and nobody has written that event before (`AppliesItsInsert`); a
  paid period belongs to a subscription, and a trial that has one ends with it, so no
  sweep of trials ends it; who expired the row then was an event that was emitted as
  `completed` and is applied (`PeriodsAreOwned`, `EventsAreEmitted`).
* Razorpay: a token set that is about to be written is new (`TokensApart`): the one
  of a redirect is in nobody else's hands and not ended, the one of a refresh
  replaces a set that, where it still stands, is due. So the row gets a working set, and
  the set in the row is ended only by a refresh while it is due or by the disconnect
  that is about to clear it.
* Erasure: an executor between claim and end has the row to itself, in progress and
  not stale (`ClaimHolds`), and one about to claim holds a reading which, if the
  row has not been stamped since, is one that may be taken (`ClaimsWhatMayBeTaken`).
  The compare-and-set on the stamp does the rest.
* Meta: the types carry most of it, because they say which decisions each kind of
  callback can be in and what an admin at work is about (`AboutSomething`);
  `Forgotten` is then inductive. `LinksFollowTheConnection` needs that a signup which is
  to write the links stored the connection that is there, unless another change has
  crossed it (`FollowsTheLast`).

### Catalogue and search

* Alerts: a run holds the row's lock from its update to its commit, so that what it
  found is still there (`AlertInv`).
* Imports: before the claim nothing is made (`ReviewedFirst`); unless two requests
  raced to it, one of them commits (`CommitsAlone`), and no row that it has yet to
  write was written, nor is there a product of a group it has yet to begin
  (`CommitsOnce`).
* Search: what each rung of the ladder retrieves is in stock and within the
  ceiling (`RetrievedFits`, through the hard constraints of every query), and every
  context a handler may write says so of its list (`Recalled`), with the ceiling
  that the list was made for. The types rest on the ceiling of "cheaper": the median
  of the listed prices is one of them (`MedianIs`, a counting argument), so what is
  remembered is a price. Without overlap the context that is
  written is made from the one that is there, which holds all that was listed.

### Outreach, flow and intake

* Outreach: whoever is about to mark or credit a suggestion has seen its message
  go out (`ToldBefore`), which no other run undoes (`RowsGrow`); the cart has one
  job, and when it is about to create there is no live suggestion
  (`NudgedOnce`), whichever attempt of the queue this is (`NudgesCounted`).
* Flow: each operator of the shop, from whatever reading it started, leaves a
  prompt that has what it asks for (`Turned`; `TurnsAreGood` goes through the
  methods); while no two messages overlapped, an address in hand was given since the
  last order (`FreshlyGiven`).
* Intake: every handler and row points at rows that exist (`HookFits`, `ConvFits`),
  and a WhatsApp message goes from its filing to its handler in one step
  (`FiledThenHandled`), so who finds it unfiled is the first.

The runs compose modules that share no row; the last theorems of `AccountsProofs`
and `StorefrontProofs` carry the results to the composed specifications, whose
fairness plays no part in them.

**Only model-checked**: liveness (`WaitingOrdersResolve`, `PaidOrdersAreDelivered`,
`StaleTrialEnds`, `DueIsHandled`, `FollowedUp`), which is out of the prover's reach
together with ENABLED, and the violations.

## 5. What is not modelled

Orders and carts: free-text items and untracked stock; prices, promotions and
shipping (an item list has a total, `TotalOf`); messages to the customer apart
from the payment link; the quantities in carts and the merging of item lists
(`mergeItems`); signature checks.

Intake and agent: parsing, media, signatures; prompts, the routing between model
providers and what a model answers (a choice); notes, labels and lists of the
inbox. Flow and search: comparison of products, answers about policies, the scores
that order results, images. Outreach: scores, texts, the count behind the frequency
cap (a choice) and which customers a scan picks (a choice). Stock and imports: the
adjustment rows, prices, images, suggested columns, removing and bulk-editing
products; `updateRow`'s row-by-row writes are one step. Accounts: the choice of credentials for a
payment link (`resolveAuthHeader`, which reads one row and falls back from a token
that cannot be decrypted to the key pair, `api/payments/razorpay.service.ts:37-56`), previews and
lists of the admins, which table an erasure empties of which column, health checks.

Promotions and categories have small protocols of their own (a broadcast that is
marked after it was sent, a look-up before a create) and are not modelled; the
other records a merchant edits are one query each. Authentication, guards,
encryption, backup, the dashboard and the evaluation scripts keep no state that two
requests share. Components with status `not_modelled` in `PROJECT.json` have the
reason there.

## 6. Plan

1. An abstract specification of a message (filed, then answered, drafted or handed
   over) that `MessageIntake` implements on WhatsApp, and one of an import (a row is
   written once) that `CatalogueImport` implements, with their refinement proofs.
2. Promotions (broadcast against edit) and categories (create against create).
3. Runs for the liveness hazards of section 3.
