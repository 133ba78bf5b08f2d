---------------------------- MODULE DataErasure ----------------------------
(***************************************************************************)
(* Erasure of one customer's personal data (data-erasure.service.ts): one  *)
(* DataErasureRequest row for one (business, customer, reference), and the *)
(* platform admins who may run it at the same time, die while they do, and *)
(* run it again. The deletes and the audit row commit together.            *)
(*                                                                         *)
(* A row IN_PROGRESS is stale STALE_IN_PROGRESS_MS after it was written;   *)
(* the transaction is bounded by 70 seconds, so only the row of an         *)
(* executor that died is ever stale.                                       *)
(***************************************************************************)
EXTENDS Naturals, FiniteSets

CONSTANTS
  Executors,   \* execute() requests that may run at once
  MaxStamp     \* bound: writes of the row's updatedAt

ASSUME ErasureAssumption == MaxStamp \in Nat

VARIABLES
  request,    \* the DataErasureRequest row; counts is what it reports erased
  personal,   \* the customer's rows that still hold personal data
  open,       \* has the customer an open order
  exec,       \* the executors; saw is the row they read before claiming it
  acted       \* history: executors that claimed, neither finished nor dead

erasureVars == <<request, personal, open, exec, acted>>

NoErasure == [status |-> "none", stamp |-> 0, stale |-> FALSE, counts |-> 0]
IdleExecutor == [pc |-> "idle", ack |-> FALSE, saw |-> NoErasure]

ErasureInit ==
  /\ request = NoErasure
  /\ personal \in {1, 2}
  /\ open \in BOOLEAN
  /\ exec = [x \in Executors |-> IdleExecutor]
  /\ acted = {}

\* Open orders are counted before the row is claimed.
CountOpenOrders(x) ==
  /\ exec[x].pc = "idle"
  /\ \E ack \in BOOLEAN :
       /\ open => ack
       /\ exec' = [exec EXCEPT ![x] = [pc |-> "find", ack |-> ack, saw |-> NoErasure]]
  /\ UNCHANGED <<request, personal, open, acted>>

(***************************************************************************)
(* claim(): a COMPLETED row is answered as it is, a live IN_PROGRESS one   *)
(* is refused; any other is taken over by compare-and-swap on status and   *)
(* updatedAt, or created under the unique key.                             *)
(***************************************************************************)
FindRequestAgain(x) ==
  /\ exec[x].pc = "find"
  /\ exec' = [exec EXCEPT ![x] =
       IF request.status = "IN_PROGRESS" /\ ~request.stale
         THEN IdleExecutor
         ELSE [@ EXCEPT !.pc = "claim", !.saw = request]]
  /\ UNCHANGED <<request, personal, open, acted>>

FindRequest(x) ==
  /\ exec[x].pc = "find"
  /\ exec' = [exec EXCEPT ![x] =
       IF request.status = "COMPLETED" \/ (request.status = "IN_PROGRESS" /\ ~request.stale)
         THEN IdleExecutor
         ELSE [@ EXCEPT !.pc = "claim", !.saw = request]]
  /\ UNCHANGED <<request, personal, open, acted>>

Claim(x, unchanged) ==
  /\ exec[x].pc = "claim" /\ request.stamp < MaxStamp
  /\ IF unchanged
       THEN /\ request' = [request EXCEPT !.status = "IN_PROGRESS", !.stamp = @ + 1, !.stale = FALSE]
            /\ exec' = [exec EXCEPT ![x].pc = "erase"]
            /\ acted' = acted \cup {x}
       ELSE /\ exec' = [exec EXCEPT ![x] = IdleExecutor]
            /\ UNCHANGED <<request, acted>>
  /\ UNCHANGED <<personal, open>>

ClaimByStatus(x) == Claim(x, request.status = exec[x].saw.status)
ClaimRequest(x) ==
  Claim(x, request.status = exec[x].saw.status /\ request.stamp = exec[x].saw.stamp)

\* The transaction: everything is erased and reported, or rolled back.
Erase(x) ==
  /\ exec[x].pc = "erase"
  /\ personal' = 0
  /\ request' = [request EXCEPT !.status = "COMPLETED", !.counts = personal]
  /\ exec' = [exec EXCEPT ![x] = IdleExecutor]
  /\ acted' = acted \ {x}
  /\ UNCHANGED open

RollBack(x) ==
  /\ exec[x].pc = "erase"
  /\ exec' = [exec EXCEPT ![x].pc = "mark"]
  /\ UNCHANGED <<request, personal, open, acted>>

MarkFailed(x) ==
  /\ exec[x].pc = "mark"
  /\ request' = IF request.status = "IN_PROGRESS" THEN [request EXCEPT !.status = "FAILED"] ELSE request
  /\ exec' = [exec EXCEPT ![x] = IdleExecutor]
  /\ acted' = acted \ {x}
  /\ UNCHANGED <<personal, open>>

ExecutorDies(x) ==
  /\ exec[x].pc # "idle"
  /\ exec' = [exec EXCEPT ![x] = IdleExecutor]
  /\ acted' = acted \ {x}
  /\ UNCHANGED <<request, personal, open>>

RowGoesStale ==
  /\ request.status = "IN_PROGRESS" /\ ~request.stale
  /\ acted = {}
  /\ request' = [request EXCEPT !.stale = TRUE]
  /\ UNCHANGED <<personal, open, exec, acted>>

\* The customer writes again: there is personal data again.
CustomerWrites ==
  /\ personal < 2
  /\ personal' = personal + 1
  /\ UNCHANGED <<request, open, exec, acted>>

\* The customer orders, or an order is delivered or cancelled.
OrderChanges ==
  /\ open' = ~open
  /\ UNCHANGED <<request, personal, exec, acted>>

ErasureNext ==
  \/ \E x \in Executors :
       \/ CountOpenOrders(x) \/ FindRequest(x) \/ ClaimRequest(x) \/ Erase(x)
       \/ RollBack(x) \/ MarkFailed(x) \/ ExecutorDies(x)
  \/ RowGoesStale
  \/ CustomerWrites
  \/ OrderChanges

ErasureSpec == ErasureInit /\ [][ErasureNext]_erasureVars

ErasureTypeOK ==
  /\ request \in [status : {"none", "IN_PROGRESS", "FAILED", "COMPLETED"},
                  stamp : 0..MaxStamp, stale : BOOLEAN, counts : 0..2]
  /\ personal \in 0..2 /\ open \in BOOLEAN /\ acted \subseteq Executors
  /\ \A x \in Executors : exec[x].pc \in {"idle", "find", "claim", "erase", "mark"}

(***************************************************************************)
(* "Of two simultaneous retries exactly one takes the request over": two   *)
(* executors never erase at the same time, whoever died before.            *)
(***************************************************************************)
OneEraser == Cardinality(acted) <= 1

(***************************************************************************)
(* "A COMPLETED request is returned as-is without touching anything":      *)
(* however many executors still hold an older view of the row, what it     *)
(* reports never changes and no later data is erased under its reference.  *)
(***************************************************************************)
CompletedIsFinal ==
  [][request.status = "COMPLETED" => request' = request /\ personal' >= personal]_erasureVars
=============================================================================
