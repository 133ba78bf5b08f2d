---------------------------- MODULE StockAlerts ----------------------------
(***************************************************************************)
(* Changes of one variant's stock and the merchant's alert about it: the   *)
(* callers of InventoryService.recordAdjustment (manual edits, imports,    *)
(* orders that reserve or release) and its evaluateAlert. A caller reads   *)
(* the variant, then updates it and evaluates the alert in one transaction *)
(* that commits or rolls back; it locks the row from the update on. What   *)
(* the transaction wrote is seen when it commits. Statements about         *)
(* different variants touch no row in common, so one is enough.            *)
(***************************************************************************)
EXTENDS Integers, Sequences

CONSTANTS
  Changers,    \* runs that change the stock
  Untracked,   \* Variant.inventory is null
  MaxStock,    \* bound: units in stock
  LowStock     \* the threshold of an alert

\* No run and no number of units is what stands for none of either.
ASSUME StockAssumption ==
  /\ MaxStock \in Nat /\ LowStock \in Nat
  /\ Untracked \notin Int /\ Untracked \notin Changers

VARIABLES
  stock,       \* Variant.inventory
  alerts,      \* the types of the variant's ACTIVE alerts
  lock,        \* who holds the variant's row, or Untracked
  changer,     \* the runs
  told         \* how often customers were told that it is back

stockVars == <<stock, alerts, lock, changer, told>>

Idle == [pc |-> "idle", kind |-> "none", read |-> Untracked, new |-> Untracked, found |-> 0]

StockInit ==
  /\ stock \in 0..MaxStock \cup {Untracked}
  /\ alerts = <<>> /\ lock = Untracked /\ told = 0
  /\ changer = [c \in Changers |-> Idle]

Begin(c, kind, new) ==
  /\ changer[c].pc = "idle"
  /\ changer' = [changer EXCEPT ![c] = [@ EXCEPT !.pc = "update", !.kind = kind, !.read = stock, !.new = new]]
  /\ UNCHANGED <<stock, alerts, lock, told>>

\* an edit or an import sets any value, or writes back the one it read
SetStock(c) == \E n \in 0..MaxStock \cup {Untracked} : Begin(c, "set", n)

\* an order takes or returns a unit of tracked stock; what it reports counts from what it read
Reserve(c) == stock # Untracked /\ Begin(c, "reserve", stock - 1)
Release(c) == stock # Untracked /\ stock < MaxStock /\ Begin(c, "release", stock + 1)

\* the value the update gives the row: counted from the row as it is now
Updated(c) ==
  IF changer[c].kind = "set" THEN changer[c].new
  ELSE IF stock = Untracked THEN Untracked
  ELSE IF changer[c].kind = "reserve" THEN stock - 1 ELSE stock + 1

\* recordAdjustment is called unless an edit changes nothing; untracked stock never alerts
Evaluates(c) ==
  /\ changer[c].new # Untracked
  /\ changer[c].kind = "set" => changer[c].new # changer[c].read

Update(c) ==
  /\ changer[c].pc = "update"
  /\ IF changer[c].kind = "reserve" /\ (stock = Untracked \/ stock = 0)
     THEN changer' = [changer EXCEPT ![c].pc = "done"]
     ELSE changer' = [changer EXCEPT ![c].pc = "find"]

UpdateWithoutLock(c) == Update(c) /\ UNCHANGED <<stock, alerts, lock, told>>
UpdateVariant(c) ==
  /\ lock = Untracked /\ Update(c)
  /\ lock' = IF changer'[c].pc = "find" THEN c ELSE lock
  /\ UNCHANGED <<stock, alerts, told>>

\* the first ACTIVE alert of the variant, 0 for none
FindAlert(c) ==
  /\ changer[c].pc = "find"
  /\ changer' = [changer EXCEPT ![c].pc = "commit", ![c].found = IF alerts = <<>> THEN 0 ELSE 1]
  /\ UNCHANGED <<stock, alerts, lock, told>>

DesiredType(n) == IF n = 0 THEN "OUT_OF_STOCK" ELSE IF n \in 1..LowStock THEN "LOW_STOCK" ELSE "none"

\* an alert that takes the wanted type even when none is wanted
EvaluateWithoutResolve(c) ==
  LET type == DesiredType(changer[c].new)
  IN IF ~Evaluates(c) THEN alerts
     ELSE IF changer[c].found = 0 THEN IF type = "none" THEN alerts ELSE Append(alerts, type)
     ELSE [alerts EXCEPT ![changer[c].found] = type]

\* resolve, update or create
EvaluateAlert(c) ==
  LET type == DesiredType(changer[c].new)
      i == changer[c].found
  IN IF ~Evaluates(c) THEN alerts
     ELSE IF i = 0 THEN IF type = "none" THEN alerts ELSE Append(alerts, type)
     ELSE IF type = "none" THEN Tail(alerts)
     ELSE [alerts EXCEPT ![i] = type]

Restocked(c) ==
  Evaluates(c) /\ changer[c].found # 0 /\ changer[c].new > 0 /\ alerts[changer[c].found] = "OUT_OF_STOCK"

CommitChange(c) ==
  /\ changer[c].pc = "commit"
  /\ Updated(c) = Untracked \/ Updated(c) \in 0..MaxStock
  /\ stock' = Updated(c) /\ alerts' = EvaluateAlert(c)
  /\ lock' = IF lock = c THEN Untracked ELSE lock
  /\ changer' = [changer EXCEPT ![c].pc = IF Restocked(c) THEN "notify" ELSE "done"]
  /\ UNCHANGED told

RollBack(c) ==
  /\ changer[c].pc \in {"find", "commit"}
  /\ lock' = IF lock = c THEN Untracked ELSE lock
  /\ changer' = [changer EXCEPT ![c].pc = "done"]
  /\ UNCHANGED <<stock, alerts, told>>

\* after the commit: suggestions to the customers who had asked, unless the process dies first
NotifyBackInStock(c) ==
  /\ changer[c].pc = "notify"
  /\ told' \in {told, told + 1}
  /\ changer' = [changer EXCEPT ![c].pc = "done"]
  /\ UNCHANGED <<stock, alerts, lock>>

StockNext ==
  \E c \in Changers :
    \/ SetStock(c) \/ Reserve(c) \/ Release(c)
    \/ UpdateVariant(c) \/ FindAlert(c) \/ CommitChange(c) \/ RollBack(c) \/ NotifyBackInStock(c)

StockSpec == StockInit /\ [][StockNext]_stockVars

StockTypeOK ==
  /\ stock \in 0..MaxStock \cup {Untracked} /\ lock \in Changers \cup {Untracked}
  /\ \A i \in DOMAIN alerts : alerts[i] \in {"OUT_OF_STOCK", "LOW_STOCK"}
  /\ \A c \in Changers : changer[c].found \in 0..1

\* A variant has one ACTIVE alert at most, however many edits, imports and orders change its stock at once:
\* no constraint of the schema says so, only that evaluateAlert looks for it after the update has locked the variant's
\* row (inventory.service.ts 69-95).
OneActiveAlert == Len(alerts) <= 1
=============================================================================
