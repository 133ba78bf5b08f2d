---------------------------- MODULE CatalogueProofs ----------------------------
(***************************************************************************)
(* The catalogue's side of the storefront, for every value of the          *)
(* constants: stock alerts, catalogue imports and the memory of a product  *)
(* search, one section each.  A section states the invariant of its        *)
(* component, what one step of each action does to it, and the properties  *)
(* that follow.                                                            *)
(***************************************************************************)
EXTENDS StockAlerts, CatalogueImport, ShoppingSearch, FiniteSetTheorems, WellFoundedInduction, TLAPS

-----------------------------------------------------------------------------
(***************************************************************************)
(* The least and the greatest of some numbers                              *)
(***************************************************************************)
LEMMA LeastNumber ==
  ASSUME NEW T, T \subseteq Nat, T # {} PROVE \E x \in T : \A y \in T : x <= y
<1> DEFINE R == OpToRel(<, Nat)
<1>1. PICK x \in T : \A y \in T : ~ (<<y, x>> \in R)
  <2>1. IsWellFoundedOn(R, Nat)
    BY NatLessThanWellFounded
  <2> HIDE DEF R
  <2> QED
    BY <2>1, WFMin
<1>2. \A y \in T : ~(y < x)
  BY <1>1 DEF OpToRel
<1> QED
  BY <1>2

LEMMA GreatestNumber ==
  ASSUME NEW n \in Nat, NEW T, T \subseteq 0..n, T # {} PROVE \E x \in T : \A y \in T : y <= x
<1> DEFINE U == {n - t : t \in T}
<1>1. \A t \in T : n - t \in Nat
  OBVIOUS
<1>2. U \subseteq Nat
  BY <1>1
<1>3. U # {}
  OBVIOUS
<1> HIDE DEF U
<1>4. PICK u \in U : \A y \in U : u <= y
  BY <1>2, <1>3, LeastNumber
<1> USE DEF U
<1>5. PICK t \in T : u = n - t
  OBVIOUS
<1>6. ASSUME NEW y \in T PROVE y <= t
  <2>1. n - y \in U
    OBVIOUS
  <2>2. n - t <= n - y
    BY <1>4, <1>5, <2>1
  <2> QED
    BY <2>2
<1> QED
  BY <1>6

-----------------------------------------------------------------------------
(***************************************************************************)
(* The stock alert of a variant: the row's lock orders the transactions    *)
(* that look for the alert and write it.                                   *)
(***************************************************************************)
Changer == [pc : {"idle", "update", "find", "commit", "notify", "done"},
            kind : {"none", "set", "reserve", "release"},
            read : Int \cup {Untracked}, new : Int \cup {Untracked}, found : 0..1]
AlertTypes == {"OUT_OF_STOCK", "LOW_STOCK"}

\* a run holds the lock from its update to its commit or its rollback, and what it found is what is there
AlertInv ==
  /\ stock \in 0..MaxStock \cup {Untracked}
  /\ changer \in [Changers -> Changer]
  /\ lock \in Changers \cup {Untracked}
  /\ alerts \in Seq(AlertTypes) /\ Len(alerts) \in 0..1
  /\ \A c \in Changers : changer[c].pc \in {"find", "commit"} => lock = c
  /\ \A c \in Changers : changer[c].pc = "commit" => changer[c].found = Len(alerts)

LEMMA AlertStarts == StockInit => AlertInv
<1> SUFFICES ASSUME StockInit PROVE AlertInv
  OBVIOUS
<1>1. Idle \in Changer /\ Idle.pc = "idle"
  BY DEF Idle, Changer
<1>2. changer \in [Changers -> Changer]
  BY <1>1 DEF StockInit
<1>3. alerts \in Seq(AlertTypes) /\ Len(alerts) = 0
  BY DEF StockInit
<1> QED
  BY <1>1, <1>2, <1>3 DEF StockInit, AlertInv

\* the alerts a commit leaves, from those its run found
LEMMA EvaluatedAlerts ==
  ASSUME StockAssumption, AlertInv, NEW c \in Changers, changer[c].pc = "commit"
  PROVE  EvaluateAlert(c) \in Seq(AlertTypes) /\ Len(EvaluateAlert(c)) \in 0..1
<1> DEFINE type == DesiredType(changer[c].new)
<1>1. type \in AlertTypes \/ type = "none"
  BY DEF DesiredType, AlertTypes
<1>2. alerts \in Seq(AlertTypes) /\ Len(alerts) \in 0..1 /\ changer[c].found = Len(alerts)
  BY DEF AlertInv
<1> HIDE DEF type
<1>3. CASE ~Evaluates(c) \/ (changer[c].found = 0 /\ type = "none")
  BY <1>2, <1>3 DEF EvaluateAlert, type
<1>4. CASE Evaluates(c) /\ changer[c].found = 0 /\ type # "none"
  <2>1. EvaluateAlert(c) = Append(alerts, type)
    BY <1>4 DEF EvaluateAlert, type
  <2>2. type \in AlertTypes /\ Len(alerts) = 0
    BY <1>1, <1>2, <1>4
  <2>3. Append(alerts, type) \in Seq(AlertTypes) /\ Len(Append(alerts, type)) = 1
    BY <1>2, <2>2
  <2> QED
    BY <2>1, <2>3
<1>5. CASE Evaluates(c) /\ changer[c].found # 0 /\ type = "none"
  <2>1. EvaluateAlert(c) = Tail(alerts)
    BY <1>5 DEF EvaluateAlert, type
  <2>2. Len(alerts) = 1 /\ alerts # <<>>
    BY <1>2, <1>5
  <2> QED
    BY <1>2, <2>1, <2>2
<1>6. CASE Evaluates(c) /\ changer[c].found # 0 /\ type # "none"
  <2>1. EvaluateAlert(c) = [alerts EXCEPT ![changer[c].found] = type]
    BY <1>6 DEF EvaluateAlert, type
  <2> QED
    BY <1>1, <1>2, <1>6, <2>1
<1> QED
  BY <1>3, <1>4, <1>5, <1>6

LEMMA AlertStep ==
  ASSUME StockAssumption, AlertInv, [StockNext]_stockVars PROVE AlertInv'
<1> USE StockAssumption
<1>1. changer \in [Changers -> Changer] /\ stock \in Int \cup {Untracked}
  BY DEF AlertInv
<1>2. CASE UNCHANGED stockVars
  BY <1>2 DEF AlertInv, stockVars
<1>3. ASSUME NEW c \in Changers, NEW kind \in {"set", "reserve", "release"},
             NEW new \in Int \cup {Untracked}, Begin(c, kind, new)
      PROVE  AlertInv'
  <2>1. changer' \in [Changers -> Changer]
    BY <1>1, <1>3 DEF Begin, Changer
  <2>2. \A e \in Changers : changer'[e].pc \in {"find", "commit"} => changer'[e] = changer[e]
    BY <1>1, <1>3 DEF Begin, Changer
  <2> QED
    BY <1>3, <2>1, <2>2 DEF AlertInv, Begin
<1>4. ASSUME NEW c \in Changers, SetStock(c) \/ Reserve(c) \/ Release(c) PROVE AlertInv'
  <2>1. CASE SetStock(c)
    BY <1>3, <2>1 DEF SetStock
  <2>2. CASE Reserve(c)
    BY <1>1, <1>3, <2>2 DEF Reserve
  <2>3. CASE Release(c)
    BY <1>1, <1>3, <2>3 DEF Release
  <2> QED
    BY <1>4, <2>1, <2>2, <2>3
<1>5. ASSUME NEW c \in Changers, UpdateVariant(c) PROVE AlertInv'
  <2>1. changer[c].pc = "update" /\ lock = Untracked /\ UNCHANGED <<stock, alerts, told>>
    BY <1>5 DEF UpdateVariant, Update
  <2>2. \A e \in Changers : changer[e].pc \notin {"find", "commit"}
    BY <2>1 DEF AlertInv
  <2>3. changer' = [changer EXCEPT ![c].pc = "done"] \/ changer' = [changer EXCEPT ![c].pc = "find"]
    BY <1>5 DEF UpdateVariant, Update
  <2>4. changer' \in [Changers -> Changer] /\ \A e \in Changers : changer'[e].pc # "commit"
    BY <1>1, <2>2, <2>3 DEF Changer
  <2>5. \A e \in Changers : changer'[e].pc = "find" => e = c
    BY <1>1, <2>2, <2>3 DEF Changer
  <2>6. lock' \in Changers \cup {Untracked} /\ (changer'[c].pc = "find" => lock' = c)
    BY <1>5, <2>1 DEF UpdateVariant
  <2> QED
    BY <2>1, <2>4, <2>5, <2>6 DEF AlertInv
<1>6. ASSUME NEW c \in Changers, FindAlert(c) PROVE AlertInv'
  <2>1. alerts \in Seq(AlertTypes) /\ Len(alerts) \in 0..1 /\ lock = c
    BY <1>6 DEF AlertInv, FindAlert
  <2>2. (IF alerts = <<>> THEN 0 ELSE 1) = Len(alerts)
    BY <2>1
  <2>3. changer' = [changer EXCEPT ![c].pc = "commit", ![c].found = Len(alerts)]
    BY <1>6, <2>2 DEF FindAlert
  <2>4. changer' \in [Changers -> Changer]
    <3>1. changer[c] \in Changer /\ Len(alerts) \in 0..1
      BY <1>1, <2>1
    <3>2. [changer[c] EXCEPT !.pc = "commit", !.found = Len(alerts)] \in Changer
      BY <3>1 DEF Changer
    <3>3. changer' = [changer EXCEPT ![c] = [changer[c] EXCEPT !.pc = "commit", !.found = Len(alerts)]]
      BY <1>1, <2>3
    <3> QED
      BY <1>1, <3>2, <3>3
  <2>5. \A e \in Changers : e # c => changer'[e] = changer[e]
    BY <1>1, <2>3
  <2>6. changer'[c].found = Len(alerts)
    BY <1>1, <2>3 DEF Changer
  <2> QED
    BY <1>6, <2>1, <2>4, <2>5, <2>6 DEF AlertInv, FindAlert
<1>7. ASSUME NEW c \in Changers, CommitChange(c) \/ RollBack(c) PROVE AlertInv'
  <2>1. lock = c /\ lock' = Untracked
    BY <1>7 DEF AlertInv, CommitChange, RollBack
  <2>2. \A e \in Changers \ {c} : changer[e].pc \notin {"find", "commit"}
    BY <2>1 DEF AlertInv
  <2>3. PICK p \in {"notify", "done"} : changer' = [changer EXCEPT ![c].pc = p]
    BY <1>7 DEF CommitChange, RollBack
  <2>4. changer' \in [Changers -> Changer] /\ \A e \in Changers : changer'[e].pc \notin {"find", "commit"}
    BY <1>1, <2>2, <2>3 DEF Changer
  <2>5. alerts' \in Seq(AlertTypes) /\ Len(alerts') \in 0..1
    <3>1. CASE CommitChange(c)
      BY <3>1, EvaluatedAlerts DEF CommitChange
    <3>2. CASE RollBack(c)
      BY <3>2 DEF RollBack, AlertInv
    <3> QED
      BY <1>7, <3>1, <3>2
  <2>6. stock' \in 0..MaxStock \cup {Untracked}
    BY <1>7 DEF CommitChange, RollBack, AlertInv
  <2> QED
    BY <2>1, <2>4, <2>5, <2>6 DEF AlertInv
<1>8. ASSUME NEW c \in Changers, NotifyBackInStock(c) PROVE AlertInv'
  <2>1. changer' \in [Changers -> Changer] /\ \A e \in Changers : changer'[e].pc # "done" => changer'[e] = changer[e]
    BY <1>1, <1>8 DEF NotifyBackInStock, Changer
  <2> QED
    BY <1>8, <2>1 DEF AlertInv, NotifyBackInStock
<1> QED
  BY <1>2, <1>4, <1>5, <1>6, <1>7, <1>8 DEF StockNext

LEMMA AlertInvariant == StockSpec => []AlertInv
BY AlertStarts, AlertStep, StockAssumption, PTL DEF StockSpec

(* The alert of a variant has its type and its lock an owner               *)
(* (recordAdjustment, evaluateAlert).                                      *)
THEOREM StockTypes == StockSpec => []StockTypeOK
<1>1. AlertInv => StockTypeOK
  <2> SUFFICES ASSUME AlertInv PROVE StockTypeOK
    OBVIOUS
  <2>1. \A i \in DOMAIN alerts : alerts[i] \in AlertTypes
    BY DEF AlertInv
  <2> QED
    BY <2>1 DEF AlertInv, StockTypeOK, Changer, AlertTypes
<1> QED
  BY <1>1, AlertInvariant, PTL

(* One ACTIVE alert at most, for any number of edits, imports and orders   *)
(* that change the stock at once (evaluateAlert finds under the lock).     *)
THEOREM OneAlertIsActive == StockSpec => []OneActiveAlert
<1>1. ASSUME AlertInv PROVE OneActiveAlert
  <2>1. alerts \in Seq(AlertTypes) /\ Len(alerts) \in 0..1
    BY <1>1 DEF AlertInv
  <2>2. \A n \in 0..1 : n <= 1
    OBVIOUS
  <2> QED
    BY <2>1, <2>2, Zenon DEF OneActiveAlert
<1> QED
  BY <1>1, AlertInvariant, PTL

-----------------------------------------------------------------------------
(***************************************************************************)
(* The catalogue import: the status of the job keeps a second request out  *)
(* once the first has claimed it.                                          *)
(***************************************************************************)
ImportRow == [data : Data, times : Nat, status : {"ERROR", "WARNING", "READY"},
              action : {"SKIP", "CREATE", "UPDATE"}, matched : BOOLEAN]
JobStatuses == {"PENDING", "READY_FOR_REVIEW", "COMMITTING", "COMPLETED", "CANCELLED"}
Reviewing == {"PENDING", "READY_FOR_REVIEW"}
RequestPcs == {"idle", "claim", "group", "rows", "done"}
Committing == {"claim", "group", "rows"}

\* what a request read of the rows, and a request
Plans == UNION {[S -> [sku : Skus \cup {NoSku}, update : BOOLEAN]] : S \in SUBSET Rows}
RequestSlot == [pc : RequestPcs, seen : Plans, todo : SUBSET Rows, group : Names \cup {NoSku}]

\* a request that commits has rows, and has read those it is to write
RequestTyped(b) ==
  /\ commit[b].todo \subseteq DOMAIN commit[b].seen
  /\ commit[b].pc \notin {"group", "rows"} => commit[b].todo = {}
  /\ commit[b].pc \in Committing => rows \in [Rows -> ImportRow]

ImportTyped ==
  /\ job \in JobStatuses
  /\ known \subseteq Skus /\ editing \in Rows \cup {NoSku} /\ raced \in BOOLEAN
  /\ nameOf \in [Rows -> Names] /\ made \in [Names -> Nat]
  /\ rows = <<>> \/ rows \in [Rows -> ImportRow]
  /\ job = "READY_FOR_REVIEW" \/ editing # NoSku => rows \in [Rows -> ImportRow]
  /\ commit \in [Commits -> RequestSlot]
  /\ \A b \in Commits : RequestTyped(b)

Unmade == \A n \in Names : made[n] = 0
Unwritten == rows \in [Rows -> ImportRow] => \A r \in Rows : rows[r].times = 0
WrittenOnce ==
  /\ \A n \in Names : made[n] <= 1
  /\ rows \in [Rows -> ImportRow] => \A r \in Rows : rows[r].times <= 1

\* rows a request has yet to write, and the products it has yet to make for them
Outstanding(b) ==
  \A r \in commit[b].todo :
    /\ rows[r].times = 0
    /\ commit[b].pc = "group" \/ nameOf[r] # commit[b].group => made[nameOf[r]] = 0

\* before the claim nothing is made; then one request makes what is outstanding
ReviewedFirst ==
  job \in Reviewing =>
    /\ Unmade /\ Unwritten
    /\ \A b \in Commits : commit[b].pc \notin {"group", "rows"}
CommitsAlone ==
  ~raced => \A b, e \in Commits : commit[b].pc \in Committing /\ commit[e].pc \in Committing => b = e
CommitsOnce ==
  ~raced =>
    /\ WrittenOnce
    /\ \A b \in Commits :
         /\ commit[b].pc = "claim" => Unmade /\ Unwritten
         /\ commit[b].pc \in {"group", "rows"} => Outstanding(b)

ImportInv == ImportTyped /\ ReviewedFirst /\ CommitsAlone /\ CommitsOnce

LEMMA IdleRequest ==
  ASSUME NEW pc \in RequestPcs
  PROVE  /\ Request(pc) \in RequestSlot
         /\ Request(pc).pc = pc /\ Request(pc).todo = {}
<1>1. <<>> \in [{} -> [sku : Skus \cup {NoSku}, update : BOOLEAN]]
  OBVIOUS
<1>2. <<>> \in Plans
  BY <1>1 DEF Plans
<1> QED
  BY <1>2 DEF Request, RequestSlot

LEMMA PlansRead ==
  ASSUME NEW b \in Commits, commit \in [Commits -> RequestSlot]
  PROVE  /\ DOMAIN commit[b].seen \subseteq Rows
         /\ \A r \in DOMAIN commit[b].seen :
              commit[b].seen[r].sku \in Skus \cup {NoSku} /\ commit[b].seen[r].update \in BOOLEAN
<1>1. commit[b].seen \in Plans
  BY DEF RequestSlot
<1>2. ASSUME NEW p \in Plans
      PROVE  DOMAIN p \subseteq Rows
             /\ \A r \in DOMAIN p : p[r].sku \in Skus \cup {NoSku} /\ p[r].update \in BOOLEAN
  BY DEF Plans
<1> QED
  BY <1>1, <1>2

LEMMA ImportStarts == ImportInit => ImportInv
<1> SUFFICES ASSUME ImportInit PROVE ImportInv
  OBVIOUS
<1> USE DEF ImportInit
<1>1. \A b \in Commits : commit[b] = Request("idle")
  OBVIOUS
<1>2. "idle" \in RequestPcs /\ "idle" \notin Committing
  BY DEF RequestPcs, Committing
<1>3. commit \in [Commits -> RequestSlot] /\ \A b \in Commits : RequestTyped(b) /\ commit[b].pc = "idle"
  BY <1>1, <1>2, IdleRequest DEF RequestTyped
<1>4. Unmade /\ Unwritten /\ WrittenOnce
  <2>1. rows \in [Rows -> ImportRow] => Rows = {}
    BY DEF ImportInit
  <2> QED
    BY <2>1 DEF Unmade, Unwritten, WrittenOnce
<1>5. ImportTyped
  BY <1>3 DEF ImportTyped, JobStatuses
<1> QED
  BY <1>2, <1>3, <1>4, <1>5 DEF ImportInv, ReviewedFirst, CommitsAlone, CommitsOnce

\* what validation makes of a file or of the rows: rows that were written as often as before
LEMMA ValidatedRows ==
  ASSUME NEW data \in [Rows -> Data], NEW times \in [Rows -> Nat]
  PROVE  /\ Validated(data, times) \in [Rows -> ImportRow]
         /\ \A r \in Rows : Validated(data, times)[r].times = times[r]
<1>1. ASSUME NEW r \in Rows
      PROVE  /\ ValidateRow(data, r).status \in {"ERROR", "WARNING", "READY"}
             /\ ValidateRow(data, r).action \in {"SKIP", "CREATE", "UPDATE"}
             /\ ValidateRow(data, r).matched \in BOOLEAN
  BY DEF ValidateRow
<1> QED
  BY <1>1 DEF Validated, ImportRow

LEMMA EditedRows ==
  ASSUME ImportAssumption, ImportTyped, NEW r \in Rows, UpdateRow(r)
  PROVE  /\ rows \in [Rows -> ImportRow] /\ rows' \in [Rows -> ImportRow]
         /\ \A q \in Rows : rows'[q].times = rows[q].times
<1>1. editing = r /\ rows \in [Rows -> ImportRow]
  BY DEF UpdateRow, ImportTyped, ImportAssumption
<1> DEFINE data(d) == [q \in Rows |-> IF q = r THEN d ELSE rows[q].data]
           times == [q \in Rows |-> rows[q].times]
<1>2. PICK d \in {file[r] : file \in Files} :
        \E a \in {Validated(data(d), times)[r].action, "SKIP", "CREATE", "UPDATE"} :
          rows' = [Validated(data(d), times) EXCEPT ![r].action = a]
  BY DEF UpdateRow
<1>3. PICK a \in {Validated(data(d), times)[r].action, "SKIP", "CREATE", "UPDATE"} :
        rows' = [Validated(data(d), times) EXCEPT ![r].action = a]
  BY <1>2
<1>4. d \in Data
  BY DEF ImportAssumption
<1>5. data(d) \in [Rows -> Data] /\ times \in [Rows -> Nat] /\ \A q \in Rows : times[q] = rows[q].times
  BY <1>1, <1>4 DEF ImportRow
<1> HIDE DEF data, times
<1> DEFINE again == Validated(data(d), times)
<1>6. again \in [Rows -> ImportRow] /\ \A q \in Rows : again[q].times = rows[q].times
  BY <1>5, ValidatedRows
<1> HIDE DEF again
<1>7. rows' = [again EXCEPT ![r].action = a] /\ a \in {again[r].action, "SKIP", "CREATE", "UPDATE"}
  BY <1>3 DEF again
<1>8. a \in {"SKIP", "CREATE", "UPDATE"}
  BY <1>6, <1>7 DEF ImportRow
<1> QED
  BY <1>1, <1>6, <1>7, <1>8 DEF ImportRow

\* what one request writes of one row: a row is written, or its SKU is taken and the request fails
LEMMA WrittenRow ==
  ASSUME ImportTyped, NEW b \in Commits, CommitRow(b)
  PROVE  \E r \in commit[b].todo :
           /\ r \in Rows /\ nameOf[r] = commit[b].group
           /\ \/ commit' = [commit EXCEPT ![b] = Request("done")] /\ rows' = rows /\ known' = known
              \/ /\ rows' = [rows EXCEPT ![r].times = @ + 1] /\ rows' \in [Rows -> ImportRow]
                 /\ known' \subseteq Skus
                 /\ \/ commit' = [commit EXCEPT ![b].todo = commit[b].todo \ {r}, ![b].pc = "rows"]
                    \/ /\ commit' = [commit EXCEPT ![b].todo = commit[b].todo \ {r}, ![b].pc = "group"]
                       /\ \A q \in commit[b].todo \ {r} : nameOf[q] # commit[b].group
<1>1. RequestTyped(b) /\ commit[b].pc = "rows" /\ known \subseteq Skus
  BY DEF CommitRow, ImportTyped
<1>2. rows \in [Rows -> ImportRow]
  BY <1>1 DEF RequestTyped, Committing
<1>3. PICK r \in commit[b].todo :
        LET row == commit[b].seen[r]
            left == commit[b].todo \ {r}
        IN /\ nameOf[r] = commit[b].group
           /\ IF ~row.update /\ row.sku \in known
              THEN commit' = [commit EXCEPT ![b] = Request("done")] /\ UNCHANGED <<rows, known>>
              ELSE /\ rows' = [rows EXCEPT ![r].times = @ + 1]
                   /\ known' = known \cup ({row.sku} \ {NoSku})
                   /\ commit' = [commit EXCEPT ![b].todo = left,
                        ![b].pc = IF \E q \in left : nameOf[q] = commit[b].group THEN "rows" ELSE "group"]
  BY DEF CommitRow
<1>4. r \in Rows /\ commit[b].seen[r].sku \in Skus \cup {NoSku}
  BY <1>1, PlansRead DEF RequestTyped, ImportTyped
<1>5. CASE commit' = [commit EXCEPT ![b] = Request("done")] /\ UNCHANGED <<rows, known>>
  BY <1>3, <1>4, <1>5
<1>6. CASE ~(commit' = [commit EXCEPT ![b] = Request("done")] /\ UNCHANGED <<rows, known>>)
  <2>1. /\ rows' = [rows EXCEPT ![r].times = @ + 1]
        /\ known' = known \cup ({commit[b].seen[r].sku} \ {NoSku})
    BY <1>3, <1>6
  <2>2. known' \subseteq Skus
    BY <1>1, <1>4, <2>1
  <2>3. rows' \in [Rows -> ImportRow]
    BY <1>2, <1>4, <2>1 DEF ImportRow
  <2>4. CASE \E q \in commit[b].todo \ {r} : nameOf[q] = commit[b].group
    <3>1. commit' = [commit EXCEPT ![b].todo = commit[b].todo \ {r}, ![b].pc = "rows"]
      BY <1>3, <1>6, <2>4
    <3> QED
      BY <1>3, <1>4, <2>1, <2>2, <2>3, <3>1
  <2>5. CASE ~\E q \in commit[b].todo \ {r} : nameOf[q] = commit[b].group
    <3>1. commit' = [commit EXCEPT ![b].todo = commit[b].todo \ {r}, ![b].pc = "group"]
      BY <1>3, <1>6, <2>5
    <3> QED
      BY <1>3, <1>4, <2>1, <2>2, <2>3, <2>5, <3>1
  <2> QED
    BY <2>4, <2>5
<1> QED
  BY <1>5, <1>6

LEMMA RowsStayTyped ==
  ASSUME ImportAssumption, ImportTyped, [ImportNext]_importVars
  PROVE  /\ rows \in [Rows -> ImportRow] => rows' \in [Rows -> ImportRow]
         /\ rows = <<>> => rows' = <<>> \/ rows' \in [Rows -> ImportRow]
<1>1. CASE rows' = rows
  BY <1>1
<1>2. CASE PersistAndValidateRows
  BY <1>2, ValidatedRows DEF PersistAndValidateRows, ImportAssumption
<1>3. ASSUME NEW r \in Rows, UpdateRow(r) PROVE rows' \in [Rows -> ImportRow]
  BY <1>3, EditedRows
<1>4. ASSUME NEW b \in Commits, CommitRow(b) PROVE rows' = rows \/ rows' \in [Rows -> ImportRow]
  BY <1>4, WrittenRow
<1> QED
  BY <1>1, <1>2, <1>3, <1>4
     DEF ImportNext, importVars, BeginEdit, CreateProduct, ReadJob, ClaimJob, ClaimAs, CommitGroup,
         CompleteJob, CommitDies, ReadForCancel, Cancel

LEMMA RequestTypedStep ==
  ASSUME ImportAssumption, ImportTyped, [ImportNext]_importVars
  PROVE  commit' \in [Commits -> RequestSlot] /\ \A b \in Commits : RequestTyped(b)'
<1>1. commit \in [Commits -> RequestSlot] /\ \A b \in Commits : RequestTyped(b)
  BY DEF ImportTyped
<1>2. rows \in [Rows -> ImportRow] => rows' \in [Rows -> ImportRow]
  BY RowsStayTyped
<1>3. CASE commit' = commit
  BY <1>1, <1>2, <1>3 DEF RequestTyped
\* a step changes one request at most
<1>4. ASSUME NEW b \in Commits, NEW x \in RequestSlot,
             \E y : commit' = [commit EXCEPT ![b] = y], commit'[b] = x,
             x.todo \subseteq DOMAIN x.seen, x.pc \notin {"group", "rows"} => x.todo = {},
             x.pc \in Committing => rows \in [Rows -> ImportRow]
      PROVE  commit' \in [Commits -> RequestSlot] /\ \A e \in Commits : RequestTyped(e)'
  <2>1. commit' = [commit EXCEPT ![b] = x]
    BY <1>1, <1>4
  <2> QED
    BY <1>1, <1>2, <1>4, <2>1 DEF RequestTyped
<1>5. ASSUME NEW b \in Commits, commit' = [commit EXCEPT ![b] = Request("done")]
      PROVE  commit' \in [Commits -> RequestSlot] /\ \A e \in Commits : RequestTyped(e)'
  <2>1. Request("done") \in RequestSlot /\ Request("done").todo = {} /\ Request("done").pc = "done"
    BY IdleRequest DEF RequestPcs
  <2> QED
    BY <1>1, <1>4, <1>5, <2>1 DEF Committing
<1>6. ASSUME NEW b \in Commits, ReadJob(b)
      PROVE  commit' \in [Commits -> RequestSlot] /\ \A e \in Commits : RequestTyped(e)'
  <2>1. rows \in [Rows -> ImportRow] /\ commit[b].pc = "idle" /\ commit[b].todo = {}
    BY <1>1, <1>6 DEF ReadJob, ImportTyped, RequestTyped
  <2>2. EligibleRows \subseteq Rows /\ Plan \in [EligibleRows -> [sku : Skus \cup {NoSku}, update : BOOLEAN]]
    BY <2>1 DEF Plan, EligibleRows, ImportRow, Data
  <2>3. Plan \in Plans
    BY <2>2 DEF Plans
  <2> DEFINE x == [pc |-> "claim", seen |-> Plan, todo |-> {}, group |-> commit[b].group]
  <2>4. x \in RequestSlot
    BY <1>1, <2>3 DEF RequestSlot, RequestPcs
  <2>5. commit' = [commit EXCEPT ![b] = [commit[b] EXCEPT !.pc = "claim", !.seen = Plan]]
    BY <1>6 DEF ReadJob
  <2>6. commit'[b] = x
    BY <1>1, <2>1, <2>5 DEF RequestSlot
  <2> QED
    BY <1>4, <2>1, <2>4, <2>5, <2>6
<1>7. ASSUME NEW b \in Commits, ClaimJob(b)
      PROVE  commit' \in [Commits -> RequestSlot] /\ \A e \in Commits : RequestTyped(e)'
  <2>1. rows \in [Rows -> ImportRow] /\ commit[b].pc = "claim"
    BY <1>1, <1>7 DEF ClaimJob, ClaimAs, RequestTyped, Committing
  <2> DEFINE x == [pc |-> "group", seen |-> commit[b].seen, todo |-> DOMAIN commit[b].seen, group |-> commit[b].group]
  <2>2. x \in RequestSlot
    BY <1>1, PlansRead DEF RequestSlot, RequestPcs
  <2>3. commit' = [commit EXCEPT ![b] = [commit[b] EXCEPT !.pc = "group", !.todo = DOMAIN commit[b].seen]]
    BY <1>7 DEF ClaimJob, ClaimAs
  <2>4. commit'[b] = x
    BY <1>1, <2>1, <2>3 DEF RequestSlot
  <2> QED
    BY <1>4, <2>1, <2>2, <2>3, <2>4
<1>8. ASSUME NEW b \in Commits, CommitGroup(b)
      PROVE  commit' \in [Commits -> RequestSlot] /\ \A e \in Commits : RequestTyped(e)'
  <2>1. rows \in [Rows -> ImportRow] /\ commit[b].pc = "group"
    BY <1>1, <1>8 DEF CommitGroup, RequestTyped, Committing
  <2>2. PICK n \in {nameOf[r] : r \in commit[b].todo} : commit' = [commit EXCEPT ![b].pc = "rows", ![b].group = n]
    BY <1>8 DEF CommitGroup
  <2>3. n \in Names
    BY <1>1, <2>2 DEF ImportTyped, RequestSlot
  <2> DEFINE x == [pc |-> "rows", seen |-> commit[b].seen, todo |-> commit[b].todo, group |-> n]
  <2>4. x \in RequestSlot
    BY <1>1, <2>3 DEF RequestSlot, RequestPcs
  <2>5. /\ commit' = [commit EXCEPT ![b] = [commit[b] EXCEPT !.pc = "rows", !.group = n]]
        /\ commit'[b] = x
    BY <1>1, <2>2 DEF RequestSlot
  <2>6. commit[b].todo \subseteq DOMAIN commit[b].seen
    BY <1>1 DEF RequestTyped
  <2> QED
    BY <1>4, <2>1, <2>4, <2>5, <2>6
<1>9. ASSUME NEW b \in Commits, CommitRow(b)
      PROVE  commit' \in [Commits -> RequestSlot] /\ \A e \in Commits : RequestTyped(e)'
  <2>1. rows \in [Rows -> ImportRow] /\ commit[b].pc = "rows"
    BY <1>1, <1>9 DEF CommitRow, RequestTyped, Committing
  <2>2. ASSUME NEW r \in commit[b].todo, NEW pc \in {"group", "rows"},
               commit' = [commit EXCEPT ![b].todo = commit[b].todo \ {r}, ![b].pc = pc]
        PROVE  commit' \in [Commits -> RequestSlot] /\ \A e \in Commits : RequestTyped(e)'
    <3> DEFINE x == [pc |-> pc, seen |-> commit[b].seen, todo |-> commit[b].todo \ {r}, group |-> commit[b].group]
    <3>1. x \in RequestSlot
      BY <1>1 DEF RequestSlot, RequestPcs
    <3>2. /\ commit' = [commit EXCEPT ![b] = [commit[b] EXCEPT !.todo = commit[b].todo \ {r}, !.pc = pc]]
          /\ commit'[b] = x
      BY <1>1, <2>2 DEF RequestSlot
    <3>3. x.todo \subseteq DOMAIN x.seen
      BY <1>1 DEF RequestTyped
    <3> QED
      BY <1>4, <2>1, <3>1, <3>2, <3>3
  <2>3. PICK r \in commit[b].todo :
          \/ commit' = [commit EXCEPT ![b] = Request("done")]
          \/ commit' = [commit EXCEPT ![b].todo = commit[b].todo \ {r}, ![b].pc = "rows"]
          \/ commit' = [commit EXCEPT ![b].todo = commit[b].todo \ {r}, ![b].pc = "group"]
    BY <1>9, WrittenRow
  <2> QED
    BY <1>5, <2>2, <2>3
<1> QED
  BY <1>3, <1>5, <1>6, <1>7, <1>8, <1>9
     DEF ImportNext, importVars, PersistAndValidateRows, BeginEdit, UpdateRow, CreateProduct,
         CompleteJob, CommitDies, ReadForCancel, Cancel

LEMMA ImportTypedStep ==
  ASSUME ImportAssumption, ImportTyped, [ImportNext]_importVars PROVE ImportTyped'
<1>1. rows = <<>> \/ rows \in [Rows -> ImportRow]
  BY DEF ImportTyped
<1>2. /\ rows' = <<>> \/ rows' \in [Rows -> ImportRow]
      /\ rows \in [Rows -> ImportRow] => rows' \in [Rows -> ImportRow]
  BY <1>1, RowsStayTyped
<1>3. commit' \in [Commits -> RequestSlot] /\ \A b \in Commits : RequestTyped(b)'
  BY RequestTypedStep
<1>4. job' \in JobStatuses /\ editing' \in Rows \cup {NoSku} /\ raced' \in BOOLEAN
  <2>1. ASSUME NEW b \in Commits, ReadJob(b) PROVE raced' \in BOOLEAN
    BY <2>1, Zenon DEF ReadJob, ImportTyped
  <2> QED
    BY <2>1
       DEF ImportTyped, JobStatuses, ImportNext, importVars, PersistAndValidateRows, BeginEdit, UpdateRow,
           CreateProduct, ReadJob, ClaimJob, ClaimAs, CommitGroup, CommitRow, CompleteJob, CommitDies,
           ReadForCancel, Cancel
<1>5. nameOf' = nameOf /\ made' \in [Names -> Nat]
  <2>1. ASSUME NEW b \in Commits, CommitGroup(b) PROVE nameOf' = nameOf /\ made' \in [Names -> Nat]
    <3>1. PICK n \in {nameOf[r] : r \in commit[b].todo} : made' = made \/ made' = [made EXCEPT ![n] = @ + 1]
      BY <2>1 DEF CommitGroup
    <3>2. n \in Names /\ made \in [Names -> Nat]
      BY <3>1 DEF ImportTyped, RequestSlot
    <3>3. nameOf' = nameOf
      BY <2>1 DEF CommitGroup
    <3> QED
      BY <3>1, <3>2, <3>3
  <2> QED
    BY <2>1
       DEF ImportTyped, ImportNext, importVars, PersistAndValidateRows, BeginEdit, UpdateRow,
           CreateProduct, ReadJob, ClaimJob, ClaimAs, CommitRow, CompleteJob, CommitDies,
           ReadForCancel, Cancel
<1>6. known' \subseteq Skus
  <2>1. ASSUME NEW b \in Commits, CommitRow(b) PROVE known' \subseteq Skus
    BY <2>1, WrittenRow DEF ImportTyped
  <2> QED
    BY <2>1
       DEF ImportTyped, ImportNext, importVars, PersistAndValidateRows, BeginEdit, UpdateRow,
           CreateProduct, ReadJob, ClaimJob, ClaimAs, CommitGroup, CompleteJob, CommitDies,
           ReadForCancel, Cancel
<1>7. job' = "READY_FOR_REVIEW" \/ editing' # NoSku => rows' \in [Rows -> ImportRow]
  <2>1. CASE PersistAndValidateRows
    BY <2>1, ValidatedRows DEF PersistAndValidateRows, ImportAssumption
  <2>2. ASSUME NEW r \in Rows, UpdateRow(r) PROVE rows' \in [Rows -> ImportRow]
    BY <2>2, EditedRows
  <2> QED
    BY <1>2, <2>1, <2>2
       DEF ImportTyped, ImportNext, importVars, BeginEdit,
           CreateProduct, ReadJob, ClaimJob, ClaimAs, CommitGroup, CommitRow, CompleteJob, CommitDies,
           ReadForCancel, Cancel
<1> QED
  BY <1>2, <1>3, <1>4, <1>5, <1>6, <1>7 DEF ImportTyped

\* a step that neither makes nor writes anything, and starts or claims no commit
LEMMA QuietStep ==
  ASSUME ImportInv, commit' = commit, made' = made, nameOf' = nameOf, raced' = raced,
         job' \in Reviewing => job \in Reviewing,
         \/ rows' = rows
         \/ /\ rows \in [Rows -> ImportRow] /\ rows' \in [Rows -> ImportRow]
            /\ \A q \in Rows : rows'[q].times = rows[q].times
  PROVE  ReviewedFirst' /\ CommitsAlone' /\ CommitsOnce'
<1>1. Unmade' = Unmade /\ Unwritten' = Unwritten /\ WrittenOnce' = WrittenOnce
  BY DEF Unmade, Unwritten, WrittenOnce
<1>2. ASSUME NEW b \in Commits, commit[b].pc \in {"group", "rows"}, Outstanding(b) PROVE Outstanding(b)'
  <2>1. rows \in [Rows -> ImportRow] /\ commit[b].todo \subseteq Rows
    BY <1>2 DEF ImportInv, ImportTyped, RequestTyped, Committing, RequestSlot
  <2>2. \A q \in commit[b].todo : rows'[q].times = rows[q].times
    BY <2>1
  <2> QED
    BY <1>2, <2>2 DEF Outstanding
<1>3. ReviewedFirst'
  BY <1>1 DEF ReviewedFirst, ImportInv, Reviewing
<1>4. CommitsAlone'
  BY DEF CommitsAlone, ImportInv
<1>5. CommitsOnce'
  BY <1>1, <1>2 DEF CommitsOnce, ImportInv
<1> QED
  BY <1>3, <1>4, <1>5

\* once a request has claimed the job, no other is at work unless two of them raced
LEMMA OthersAreOut ==
  ASSUME ImportInv, ~raced, NEW b \in Commits, commit[b].pc \in Committing, NEW e \in Commits \ {b}
  PROVE  commit[e].pc \notin Committing
BY DEF ImportInv, CommitsAlone

\* a request that works on changes only its own slot, and what it may
LEMMA WorksOn ==
  ASSUME ImportInv, NEW b \in Commits, commit[b].pc \in Committing, raced' = raced,
         \A e \in Commits \ {b} : commit'[e] = commit[e],
         job' \notin Reviewing \/ (job' = job /\ UNCHANGED <<made, rows>> /\ commit'[b].pc = "done"),
         ~raced => WrittenOnce',
         ~raced /\ commit'[b].pc = "claim" => Unmade' /\ Unwritten',
         ~raced /\ commit'[b].pc \in {"group", "rows"} => Outstanding(b)'
  PROVE  ReviewedFirst' /\ CommitsAlone' /\ CommitsOnce'
<1>1. ~raced => \A e \in Commits \ {b} : commit'[e].pc \notin Committing
  BY OthersAreOut
<1>2. ReviewedFirst'
  BY DEF ReviewedFirst, ImportInv, Unmade, Unwritten
<1>3. CommitsAlone'
  BY <1>1 DEF CommitsAlone
<1>4. CommitsOnce'
  BY <1>1 DEF CommitsOnce, Committing
<1> QED
  BY <1>2, <1>3, <1>4

LEMMA ReadJobStep ==
  ASSUME ImportInv, NEW b \in Commits, ReadJob(b)
  PROVE  ReviewedFirst' /\ CommitsAlone' /\ CommitsOnce'
<1>1. job = "READY_FOR_REVIEW" /\ commit[b].pc = "idle" /\ UNCHANGED <<job, rows, made, nameOf>>
  BY DEF ReadJob
<1>2. Unmade /\ Unwritten /\ \A e \in Commits : commit[e].pc \notin {"group", "rows"}
  BY <1>1 DEF ImportInv, ReviewedFirst, Reviewing
<1>3. Unmade' /\ Unwritten'
  BY <1>1, <1>2 DEF Unmade, Unwritten
<1>4. /\ \A e \in Commits \ {b} : commit'[e] = commit[e]
      /\ commit'[b].pc = "claim"
  BY DEF ReadJob, ImportInv, ImportTyped, RequestSlot
<1>5. \A e \in Commits : commit'[e].pc \notin {"group", "rows"}
  BY <1>2, <1>4
<1>6. ~raced' => ~raced /\ \A e \in Commits \ {b} : commit[e].pc # "claim"
  BY DEF ReadJob
<1>7. ReviewedFirst'
  BY <1>3, <1>5 DEF ReviewedFirst
<1>8. CommitsAlone'
  BY <1>2, <1>4, <1>6 DEF CommitsAlone, Committing
<1>9. WrittenOnce'
  <2>1. /\ \A n \in Names : made'[n] = 0
        /\ rows' \in [Rows -> ImportRow] => \A r \in Rows : rows'[r].times = 0
    BY <1>3 DEF Unmade, Unwritten
  <2> QED
    BY <2>1 DEF WrittenOnce
<1> QED
  BY <1>3, <1>5, <1>7, <1>8, <1>9 DEF CommitsOnce

LEMMA ClaimJobStep ==
  ASSUME ImportInv, NEW b \in Commits, ClaimJob(b)
  PROVE  ReviewedFirst' /\ CommitsAlone' /\ CommitsOnce'
<1>1. /\ commit[b].pc = "claim" /\ job' = "COMMITTING" /\ UNCHANGED <<rows, made, nameOf, raced>>
      /\ \A e \in Commits \ {b} : commit'[e] = commit[e]
  BY DEF ClaimJob, ClaimAs, ImportInv, ImportTyped
<1>2. commit'[b].pc = "group" /\ commit'[b].todo \subseteq Rows
  BY PlansRead DEF ClaimJob, ClaimAs, ImportInv, ImportTyped, RequestSlot
<1>3. ~raced => WrittenOnce'
  BY <1>1 DEF ImportInv, CommitsOnce, WrittenOnce
<1>4. ~raced => Outstanding(b)'
  <2> SUFFICES ASSUME ~raced PROVE Outstanding(b)'
    OBVIOUS
  <2>1. Unmade /\ Unwritten /\ rows \in [Rows -> ImportRow] /\ nameOf \in [Rows -> Names]
    BY <1>1 DEF ImportInv, CommitsOnce, ImportTyped, RequestTyped, Committing
  <2>2. \A r \in commit'[b].todo : rows'[r].times = 0 /\ made'[nameOf'[r]] = 0
    BY <1>1, <1>2, <2>1 DEF Unmade, Unwritten
  <2> QED
    BY <2>2 DEF Outstanding
<1> QED
  BY <1>1, <1>2, <1>3, <1>4, WorksOn DEF Committing, Reviewing

LEMMA CommitGroupStep ==
  ASSUME ImportInv, NEW b \in Commits, CommitGroup(b)
  PROVE  ReviewedFirst' /\ CommitsAlone' /\ CommitsOnce'
<1>1. /\ commit[b].pc = "group" /\ UNCHANGED <<job, rows, nameOf, raced>>
      /\ \A e \in Commits \ {b} : commit'[e] = commit[e]
  BY DEF CommitGroup, ImportInv, ImportTyped
<1>2. PICK n \in {nameOf[r] : r \in commit[b].todo} :
        /\ commit' = [commit EXCEPT ![b].pc = "rows", ![b].group = n]
        /\ made' = made \/ made' = [made EXCEPT ![n] = @ + 1]
  BY DEF CommitGroup
<1>3. commit'[b].pc = "rows" /\ commit'[b].group = n /\ commit'[b].todo = commit[b].todo
  BY <1>2 DEF ImportInv, ImportTyped, RequestSlot
<1>4. /\ n \in Names /\ made \in [Names -> Nat] /\ nameOf \in [Rows -> Names]
      /\ commit[b].todo \subseteq Rows
  BY <1>2 DEF ImportInv, ImportTyped, RequestSlot
<1>5. ~raced => Outstanding(b) /\ WrittenOnce
  BY <1>1 DEF ImportInv, CommitsOnce
<1>6. ~raced => made[n] = 0
  BY <1>1, <1>2, <1>5 DEF Outstanding
<1>7. ~raced => WrittenOnce'
  BY <1>1, <1>2, <1>4, <1>5, <1>6 DEF WrittenOnce
<1>8. ~raced => Outstanding(b)'
  BY <1>1, <1>2, <1>3, <1>4, <1>5 DEF Outstanding
<1>9. job' \notin Reviewing
  BY <1>1 DEF ImportInv, ReviewedFirst
<1> QED
  BY <1>1, <1>3, <1>7, <1>8, <1>9, WorksOn DEF Committing

LEMMA CommitRowStep ==
  ASSUME ImportInv, NEW b \in Commits, CommitRow(b)
  PROVE  ReviewedFirst' /\ CommitsAlone' /\ CommitsOnce'
<1>1. /\ commit[b].pc = "rows" /\ UNCHANGED <<job, made, nameOf, raced>>
  BY DEF CommitRow
<1>2. /\ rows \in [Rows -> ImportRow] /\ commit \in [Commits -> RequestSlot]
      /\ commit[b].todo \subseteq Rows
  BY <1>1 DEF ImportInv, ImportTyped, RequestTyped, RequestSlot, Committing
<1>3. job' \notin Reviewing
  BY <1>1 DEF ImportInv, ReviewedFirst
<1>4. ~raced => Outstanding(b) /\ WrittenOnce
  BY <1>1 DEF ImportInv, CommitsOnce
<1>5. PICK r \in commit[b].todo :
        /\ r \in Rows /\ nameOf[r] = commit[b].group
        /\ \/ commit' = [commit EXCEPT ![b] = Request("done")] /\ rows' = rows /\ known' = known
           \/ /\ rows' = [rows EXCEPT ![r].times = @ + 1] /\ rows' \in [Rows -> ImportRow]
              /\ known' \subseteq Skus
              /\ \/ commit' = [commit EXCEPT ![b].todo = commit[b].todo \ {r}, ![b].pc = "rows"]
                 \/ /\ commit' = [commit EXCEPT ![b].todo = commit[b].todo \ {r}, ![b].pc = "group"]
                    /\ \A q \in commit[b].todo \ {r} : nameOf[q] # commit[b].group
  BY WrittenRow DEF ImportInv
<1>6. CASE commit' = [commit EXCEPT ![b] = Request("done")] /\ rows' = rows
  <2>1. commit'[b].pc = "done" /\ \A e \in Commits \ {b} : commit'[e] = commit[e]
    BY <1>2, <1>6, IdleRequest DEF RequestPcs
  <2>2. ~raced => WrittenOnce'
    BY <1>1, <1>4, <1>6 DEF WrittenOnce
  <2> QED
    BY <1>1, <1>3, <2>1, <2>2, WorksOn DEF Committing
<1>7. ASSUME NEW pc \in {"group", "rows"},
             commit' = [commit EXCEPT ![b].todo = commit[b].todo \ {r}, ![b].pc = pc],
             rows' = [rows EXCEPT ![r].times = @ + 1],
             pc = "group" => \A q \in commit[b].todo \ {r} : nameOf[q] # commit[b].group
      PROVE  ReviewedFirst' /\ CommitsAlone' /\ CommitsOnce'
  <2>1. /\ commit'[b].pc = pc /\ commit'[b].todo = commit[b].todo \ {r}
        /\ commit'[b].group = commit[b].group
        /\ \A e \in Commits \ {b} : commit'[e] = commit[e]
    BY <1>2, <1>7 DEF RequestSlot
  <2>2. rows'[r].times = rows[r].times + 1 /\ \A q \in Rows \ {r} : rows'[q].times = rows[q].times
    BY <1>2, <1>5, <1>7 DEF ImportRow
  <2>3. ~raced => rows[r].times = 0
    BY <1>4, <1>5 DEF Outstanding
  <2>4. ~raced => WrittenOnce'
    BY <1>1, <1>2, <1>4, <2>2, <2>3 DEF WrittenOnce
  <2>5. ~raced => Outstanding(b)'
    <3> SUFFICES ASSUME ~raced, NEW q \in commit[b].todo \ {r}
                 PROVE  /\ rows'[q].times = 0
                        /\ pc = "group" \/ nameOf[q] # commit[b].group => made[nameOf[q]] = 0
      BY <1>1, <2>1 DEF Outstanding
    <3>1. rows[q].times = 0 /\ (nameOf[q] # commit[b].group => made[nameOf[q]] = 0)
      BY <1>4 DEF Outstanding
    <3> QED
      BY <1>2, <1>7, <2>2, <3>1
  <2> QED
    BY <1>1, <1>3, <2>1, <2>4, <2>5, WorksOn DEF Committing
<1> QED
  BY <1>5, <1>6, <1>7

LEMMA ImportStep ==
  ASSUME ImportAssumption, ImportInv, [ImportNext]_importVars PROVE ImportInv'
<1>1. ImportTyped /\ ImportTyped'
  BY ImportTypedStep DEF ImportInv
<1> SUFFICES ReviewedFirst' /\ CommitsAlone' /\ CommitsOnce'
  BY <1>1 DEF ImportInv
<1>2. CASE UNCHANGED importVars
  BY <1>2, QuietStep DEF importVars
<1>3. CASE PersistAndValidateRows
  <2>1. job \in Reviewing /\ UNCHANGED <<commit, made, nameOf, raced>>
    BY <1>3 DEF PersistAndValidateRows, Reviewing
  <2>2. Unmade /\ \A b \in Commits : commit[b].pc \notin {"group", "rows"}
    BY <2>1 DEF ImportInv, ReviewedFirst
  <2>3. rows' \in [Rows -> ImportRow] /\ \A r \in Rows : rows'[r].times = 0
    BY <1>3, ValidatedRows DEF PersistAndValidateRows, ImportAssumption
  <2>4. Unmade' /\ Unwritten'
    BY <2>1, <2>2, <2>3 DEF Unmade, Unwritten
  <2>5. WrittenOnce'
    <3>1. \A n \in Names : made'[n] = 0
      BY <2>4 DEF Unmade
    <3> QED
      BY <2>3, <3>1 DEF WrittenOnce
  <2>6. ReviewedFirst'
    BY <2>1, <2>2, <2>4 DEF ReviewedFirst
  <2>7. CommitsAlone'
    BY <2>1 DEF ImportInv, CommitsAlone
  <2> QED
    BY <2>1, <2>2, <2>4, <2>5, <2>6, <2>7 DEF CommitsOnce
<1>4. ASSUME NEW r \in Rows, BeginEdit(r) \/ UpdateRow(r) PROVE ReviewedFirst' /\ CommitsAlone' /\ CommitsOnce'
  <2>1. CASE BeginEdit(r)
    BY <2>1, QuietStep DEF BeginEdit
  <2>2. CASE UpdateRow(r)
    <3>1. UNCHANGED <<job, commit, made, nameOf, raced>>
      BY <2>2 DEF UpdateRow
    <3> QED
      BY <1>1, <2>2, <3>1, EditedRows, QuietStep
  <2> QED
    BY <1>4, <2>1, <2>2
<1>5. ASSUME NEW s \in Skus, CreateProduct(s) PROVE ReviewedFirst' /\ CommitsAlone' /\ CommitsOnce'
  BY <1>5, QuietStep DEF CreateProduct
<1>6. CASE ReadForCancel \/ Cancel
  BY <1>6, QuietStep DEF ReadForCancel, Cancel, Reviewing
<1>7. ASSUME NEW b \in Commits, CompleteJob(b) \/ CommitDies(b) PROVE ReviewedFirst' /\ CommitsAlone' /\ CommitsOnce'
  <2>1. /\ commit[b].pc \in Committing /\ commit' = [commit EXCEPT ![b] = Request("done")]
        /\ UNCHANGED <<made, rows, nameOf, raced>>
        /\ job' = job \/ job' = "COMPLETED"
    BY <1>1, <1>7 DEF CompleteJob, CommitDies, Committing, ImportTyped, RequestSlot, RequestPcs
  <2>2. commit'[b].pc = "done" /\ \A e \in Commits \ {b} : commit'[e] = commit[e]
    BY <1>1, <2>1, IdleRequest DEF ImportTyped, RequestPcs
  <2>3. ~raced => WrittenOnce'
    BY <2>1 DEF ImportInv, CommitsOnce, WrittenOnce
  <2> QED
    BY <2>1, <2>2, <2>3, WorksOn DEF Reviewing
<1> QED
  BY <1>2, <1>3, <1>4, <1>5, <1>6, <1>7, ReadJobStep, ClaimJobStep, CommitGroupStep, CommitRowStep
     DEF ImportNext

LEMMA ImportInvariant == ImportSpec => []ImportInv
BY ImportStarts, ImportStep, ImportAssumption, PTL DEF ImportSpec

(* The job, the rows and the requests have their types (ImportService).    *)
THEOREM ImportTypes == ImportSpec => []ImportTypeOK
<1>1. ASSUME ImportInv PROVE ImportTypeOK
  <2>1. ImportTyped
    BY <1>1 DEF ImportInv
  <2>2. rows # <<>> => \A r \in Rows : rows[r].action \in {"CREATE", "UPDATE", "SKIP"}
    BY <2>1 DEF ImportTyped, ImportRow
  <2>3. \A b \in Commits : commit[b].todo \subseteq Rows
    BY <2>1 DEF ImportTyped, RequestSlot
  <2> QED
    BY <2>1, <2>2, <2>3 DEF ImportTypeOK, ImportTyped, JobStatuses
<1> QED
  BY <1>1, ImportInvariant, PTL

(* No row of an import becomes two variants and no name two products,      *)
(* for any file, any number of requests to commit, and wherever they fail  *)
(* or die, unless two of them read the job before either claimed it        *)
(* (commitJob, commitGroup, commitRow).                                    *)
THEOREM RowsAreImportedOnce == ImportSpec => []RowsImportedOnce
<1>1. ASSUME ImportInv PROVE RowsImportedOnce
  <2>1. rows = <<>> \/ rows \in [Rows -> ImportRow]
    BY <1>1 DEF ImportInv, ImportTyped
  <2>2. ~raced => WrittenOnce
    BY <1>1 DEF ImportInv, CommitsOnce
  <2> QED
    BY <2>1, <2>2 DEF RowsImportedOnce, WrittenOnce
<1> QED
  BY <1>1, ImportInvariant, PTL

-----------------------------------------------------------------------------
(***************************************************************************)
(* The memory of a search: what it lists is in stock and within its        *)
(* ceiling, and "other options" were not listed before.                    *)
(***************************************************************************)
\* an item of one of the products ps, in stock and within the ceiling
Offer(it, ps, max) ==
  it \in Items /\ it.product \in ps /\ VariantOf(it).stocked /\ (max # None => VariantOf(it).price <= max)
Offered(items, ps, max) == \A it \in items : Offer(it, ps, max)
\* the results of queries about the topic t, among the products ps
Answers(found, t, ps) == \A q \in found : q.topic = t /\ \A it \in q.items : Offer(it, ps, t.max)

LEMMA FirstIsOne == ASSUME NEW T, T \subseteq Nat, T # {} PROVE First(T) \in T
BY LeastNumber DEF First

LEMMA EligibleFits ==
  ASSUME SearchAssumption, NEW p \in Products, NEW max
  PROVE  /\ Eligible(p, max) \subseteq Nat
         /\ \A i \in Eligible(p, max) :
              VariantsOf[p][i].stocked /\ (max # None => VariantsOf[p][i].price <= max)
<1>1. VariantsOf[p] \in Seq([price : Prices, stocked : BOOLEAN, colour : Colours \cup {None}])
  BY DEF SearchAssumption
<1>2. DOMAIN VariantsOf[p] \subseteq Nat
  BY <1>1
<1> QED
  BY <1>2 DEF Eligible

LEMMA ItemFits ==
  ASSUME SearchAssumption, NEW ps \in SUBSET Products, NEW p \in ps, NEW max,
         NEW T \in SUBSET Eligible(p, max), T # {}
  PROVE  Offer([product |-> p, variant |-> First(T)], ps, max)
<1>1. First(T) \in Eligible(p, max)
  BY EligibleFits, FirstIsOne
<1> DEFINE it == [product |-> p, variant |-> First(T)]
<1>2. it.product = p /\ VariantOf(it) = VariantsOf[p][First(T)]
  BY DEF VariantOf
<1>3. VariantsOf[p][First(T)].stocked /\ (max # None => VariantsOf[p][First(T)].price <= max)
  BY <1>1 DEF Eligible
<1>4. it \in Items
  <2>1. First(T) \in DOMAIN VariantsOf[p]
    BY <1>1 DEF Eligible
  <2> QED
    BY <2>1 DEF Items
<1> HIDE DEF it
<1>5. Offer(it, ps, max)
  BY <1>2, <1>3, <1>4 DEF Offer
<1> QED
  BY <1>5 DEF it

LEMMA HardConstraintsHold ==
  ASSUME SearchAssumption, NEW ps \in SUBSET Products, NEW max
  PROVE  \A it \in ApplyHardConstraints(ps, max) : Offer(it, ps, max)
<1>1. ASSUME NEW it \in ApplyHardConstraints(ps, max) PROVE Offer(it, ps, max)
  <2>1. PICK p \in ps : Eligible(p, max) # {} /\ it = [product |-> p, variant |-> First(Eligible(p, max))]
    BY <1>1 DEF ApplyHardConstraints
  <2> QED
    BY <2>1, ItemFits
<1> QED
  BY <1>1

LEMMA AttributesHold ==
  ASSUME SearchAssumption, NEW ps \in SUBSET Products, NEW max, NEW colour
  PROVE  \A it \in SplitByAttributes(ps, max, colour) : Offer(it, ps, max)
<1>1. ASSUME NEW it \in SplitByAttributes(ps, max, colour) PROVE Offer(it, ps, max)
  <2>1. PICK p \in ps : InColour(p, max, colour) # {} /\ it = [product |-> p, variant |-> First(InColour(p, max, colour))]
    BY <1>1 DEF SplitByAttributes
  <2>2. InColour(p, max, colour) \subseteq Eligible(p, max)
    BY DEF InColour
  <2> QED
    BY <2>1, <2>2, ItemFits
<1> QED
  BY <1>1

LEMMA ResultAnswers ==
  ASSUME NEW ps, NEW t, NEW items, NEW unmet, \A it \in items : Offer(it, ps, t.max)
  PROVE  Answers(Result(t, items, unmet), t, ps) /\ Answers(Unless(items, t, unmet), t, ps)
<1>1. ASSUME NEW q \in Result(t, items, unmet) PROVE q.topic = t /\ \A it \in q.items : Offer(it, ps, t.max)
  <2>1. PICK S \in SUBSET items : q = [topic |-> t, items |-> S, unmet |-> unmet]
    BY <1>1 DEF Result, Curate
  <2> QED
    BY <2>1
<1> QED
  BY <1>1 DEF Answers, Unless

LEMMA NoneAnswers == ASSUME NEW t, NEW ps PROVE Answers({}, t, ps)
BY DEF Answers

\* constraints on any of these products answer a query that leaves some out
LEMMA HardAnswers ==
  ASSUME SearchAssumption, NEW ps \in SUBSET Products, NEW qs \in SUBSET ps, NEW t, NEW unmet
  PROVE  Answers(Unless(ApplyHardConstraints(qs, t.max), t, unmet), t, ps)
<1>1. \A it \in ApplyHardConstraints(qs, t.max) : Offer(it, ps, t.max)
  <2>1. qs \in SUBSET Products
    OBVIOUS
  <2>2. \A it \in ApplyHardConstraints(qs, t.max) : Offer(it, qs, t.max)
    BY <2>1, HardConstraintsHold
  <2> QED
    BY <2>2 DEF Offer
<1> QED
  BY <1>1, ResultAnswers

LEMMA AttributesAnswer ==
  ASSUME SearchAssumption, NEW ps \in SUBSET Products, NEW qs \in SUBSET ps, NEW t, NEW unmet
  PROVE  /\ Answers(Unless(SplitByAttributes(qs, t.max, t.colour), t, unmet), t, ps)
         /\ Answers(Result(t, SplitByAttributes(qs, t.max, t.colour), unmet), t, ps)
<1>1. \A it \in SplitByAttributes(qs, t.max, t.colour) : Offer(it, ps, t.max)
  <2>1. qs \in SUBSET Products
    OBVIOUS
  <2>2. \A it \in SplitByAttributes(qs, t.max, t.colour) : Offer(it, qs, t.max)
    BY <2>1, AttributesHold
  <2> QED
    BY <2>2 DEF Offer
<1> QED
  BY <1>1, ResultAnswers

LEMMA QueriesAnswer ==
  ASSUME SearchAssumption, NEW t, NEW exclude
  PROVE  /\ Answers(QueryExact(t, exclude), t, Products \ exclude)
         /\ Answers(QueryColour(t, exclude), t, Products \ exclude)
         /\ Answers(QueryPrimary(t, exclude), t, Products \ exclude)
         /\ Answers(QueryAnyWord(t), t, Products)
         /\ Answers(QueryBudget(t), t, Products)
<1>1. \A ks : Matching(ks, exclude) \subseteq Products \ exclude
  BY DEF Matching
<1>2. \A ks : Touching(ks, {}) \subseteq Products
  BY DEF Touching
<1>3. Answers(QueryExact(t, exclude), t, Products \ exclude)
  <2>1. Products \ exclude \in SUBSET Products /\ Matching(SlotWords(t), exclude) \in SUBSET (Products \ exclude)
    BY <1>1
  <2> QED
    BY <2>1, HardAnswers DEF QueryExact
<1>4. Answers(QueryColour(t, exclude), t, Products \ exclude)
  <2> DEFINE ps == Matching(t.words, exclude)
  <2>1. Products \ exclude \in SUBSET Products /\ ps \in SUBSET (Products \ exclude)
    BY <1>1
  <2>2. Answers(Result(t, SplitByAttributes(ps, t.max, t.colour), FALSE), t, Products \ exclude)
    BY <2>1, AttributesAnswer
  <2>3. Answers(Unless(ApplyHardConstraints(ps, t.max), t, TRUE), t, Products \ exclude)
    BY <2>1, HardAnswers
  <2> QED
    BY <2>2, <2>3, NoneAnswers DEF QueryColour
<1>5. Answers(QueryPrimary(t, exclude), t, Products \ exclude)
  BY <1>3, <1>4 DEF QueryPrimary
<1>6. Answers(QueryAnyWord(t), t, Products)
  <2>1. Products \in SUBSET Products /\ Touching(t.words \cup t.extra, {}) \in SUBSET Products
    BY <1>2
  <2> QED
    BY <2>1, HardAnswers, NoneAnswers DEF QueryAnyWord
<1>7. Answers(QueryBudget(t), t, Products)
  <2>1. Products \in SUBSET Products
    OBVIOUS
  <2> QED
    BY <2>1, HardAnswers, NoneAnswers DEF QueryBudget
<1> QED
  BY <1>3, <1>4, <1>5, <1>6, <1>7

LEMMA LadderStops ==
  ASSUME NEW rungs, DOMAIN rungs \subseteq Nat, NEW q \in Ladder(rungs) PROVE \E i \in DOMAIN rungs : q \in rungs[i]
<1> DEFINE found == {i \in DOMAIN rungs : rungs[i] # {}}
<1>1. found # {} /\ q \in rungs[First(found)]
  BY DEF Ladder
<1>2. First(found) \in found
  BY <1>1, FirstIsOne
<1> QED
  BY <1>1, <1>2

LEMMA TwoRungs == ASSUME NEW A, NEW B, NEW q \in Ladder(<<A, B>>) PROVE q \in A \/ q \in B
<1> DEFINE rungs == <<A, B>>
<1>0. q \in Ladder(rungs)
  OBVIOUS
<1>1. DOMAIN rungs = 1..2 /\ DOMAIN rungs \subseteq Nat
  OBVIOUS
<1>2. PICK i \in 1..2 : q \in rungs[i]
  <2> HIDE DEF rungs
  <2> QED
    BY <1>0, <1>1, LadderStops
<1> QED
  BY <1>2

LEMMA FourRungs ==
  ASSUME NEW A, NEW B, NEW C, NEW D, NEW q \in Ladder(<<A, B, C, D>>) PROVE q \in A \/ q \in B \/ q \in C \/ q \in D
<1> DEFINE rungs == <<A, B, C, D>>
<1>0. q \in Ladder(rungs)
  OBVIOUS
<1>1. DOMAIN rungs = 1..4 /\ DOMAIN rungs \subseteq Nat
  OBVIOUS
<1>2. PICK i \in 1..4 : q \in rungs[i]
  <2> HIDE DEF rungs
  <2> QED
    BY <1>0, <1>1, LadderStops
<1> QED
  BY <1>2

\* whatever rung it stops at, and for whichever topic
LEMMA RetrievedFits ==
  ASSUME SearchAssumption, NEW t, NEW recover, NEW q \in Retrieve(t, recover)
  PROVE  q.topic \in recover \cup {t} /\ \A it \in q.items : Offer(it, Products, q.topic.max)
<1> DEFINE rungs == <<QueryPrimary(t, {}), UNION {QueryPrimary(u, {}) : u \in recover},
                      IF IsColourOnly(t) THEN {} ELSE QueryColour(t, {}), QueryAnyWord(t), QueryBudget(t)>>
<1>1. Products \ {} = Products
  OBVIOUS
<1>2. \A u : Answers(QueryPrimary(u, {}), u, Products) /\ Answers(QueryColour(u, {}), u, Products)
  BY <1>1, QueriesAnswer
<1>3. CASE Ladder(rungs) = {}
  <2>1. q = [topic |-> t, items |-> {}, unmet |-> FALSE]
    BY <1>3 DEF Retrieve
  <2> QED
    BY <2>1
<1>4. CASE Ladder(rungs) # {}
  <2>1. q \in Ladder(rungs)
    BY <1>4 DEF Retrieve
  <2>2. DOMAIN rungs = 1..5
    OBVIOUS
  <2>3. PICK i \in 1..5 : q \in rungs[i]
    <3> HIDE DEF rungs
    <3>1. DOMAIN rungs \subseteq Nat
      BY <2>2
    <3> QED
      BY <2>1, <2>2, <3>1, LadderStops
  <2>4. CASE i = 2
    <3>1. PICK u \in recover : q \in QueryPrimary(u, {})
      BY <2>3, <2>4
    <3> QED
      BY <1>2, <3>1 DEF Answers
  <2>5. CASE i # 2
    <3>1. \/ q \in QueryPrimary(t, {}) \/ q \in QueryColour(t, {})
          \/ q \in QueryAnyWord(t) \/ q \in QueryBudget(t)
      BY <2>3, <2>5
    <3> QED
      BY <1>2, <3>1, QueriesAnswer DEF Answers
  <2> QED
    BY <2>4, <2>5
<1> QED
  BY <1>3, <1>4

IsContext(c) ==
  c \in [words : {c.words}, colour : {c.colour}, max : {c.max}, extra : {c.extra},
         results : {c.results}, shown : {c.shown}, via : {c.via}]
IsReading(r) ==
  r \in [said : {r.said}, intent : {r.intent}, new : {r.new}, ambiguous : {r.ambiguous}, extra : {r.extra}]

\* what a search lists is on offer, within the ceiling remembered with it
ListsOffers(c) ==
  c.via \in {"search", "other"} =>
    \A it \in c.results : VariantOf(it).stocked /\ (c.max # None => VariantOf(it).price <= c.max)

\* what was listed and the conversation should know of
Kept == listed \ paged

LEMMA KeptIs ==
  ASSUME NEW c, NEW items, NEW fresh, Remember(c, items, fresh)
  PROVE  Kept' = IF fresh THEN ProductsOf(items) ELSE Kept \cup ProductsOf(items)
BY DEF Kept, Remember

\* what one handler may remember, and, on the search it read, that nothing listed is forgotten or offered as new
Recalled(from) ==
  /\ IsContext(ctx') /\ ListsOffers(ctx')
  /\ from.ctx = ctx /\ Kept \subseteq ctx.shown =>
       /\ Kept' \subseteq ctx'.shown
       /\ ctx'.via = "other" /\ ctx' # ctx => ProductsOf(ctx'.results) \cap Kept = {}

SearchInv ==
  /\ IsContext(ctx) /\ ListsOffers(ctx)
  /\ searching # None => IsContext(searching.ctx) /\ ListsOffers(searching.ctx)
  /\ ~overlapped => Kept \subseteq ctx.shown /\ searching \in {None, SearchReading}

LEMMA ContextIs ==
  ASSUME NEW c, NEW t, NEW items, NEW unmet, NEW via
  PROVE  LET d == ContextFor(c, t, items, unmet, via)
         IN  /\ IsContext(d) /\ d.results = items /\ d.via = via /\ d.max = t.max
             /\ d.shown = Accumulate(IF t.reset THEN Empty ELSE c, items)
BY DEF ContextFor, IsContext

LEMMA NextContextIs ==
  ASSUME NEW c, IsContext(c), NEW items, NEW via
  PROVE  LET d == NextContext(c, items, via)
         IN  /\ IsContext(d) /\ d.results = items /\ d.via = via /\ d.max = c.max
             /\ d.shown = c.shown \cup ProductsOf(items)
<1> DEFINE d == [c EXCEPT !.results = items, !.shown = Accumulate(c, items), !.via = via]
<1>1. d \in [words : {c.words}, colour : {c.colour}, max : {c.max}, extra : {c.extra},
             results : {items}, shown : {Accumulate(c, items)}, via : {via}]
  BY DEF IsContext
<1>2. d = NextContext(c, items, via)
  BY DEF NextContext
<1> HIDE DEF d
<1>3. /\ IsContext(d) /\ d.results = items /\ d.via = via /\ d.max = c.max
      /\ d.shown = c.shown \cup ProductsOf(items)
  BY <1>1 DEF IsContext, Accumulate
<1> QED
  BY <1>2, <1>3

LEMMA UnreadRecalled ==
  ASSUME IsContext(ctx), ListsOffers(ctx), NEW from, ctx' = ctx, UNCHANGED <<listed, paged>>
  PROVE  Recalled(from)
BY DEF Recalled, Kept

\* a handler lists what its query answered
LEMMA ListingRecalled ==
  ASSUME NEW from, NEW t, NEW items, NEW ps, Offered(items, ps, t.max), NEW unmet, NEW via,
         Remember(ContextFor(from.ctx, t, items, unmet, via), items, t.reset),
         via = "other" => ps \cap from.ctx.shown = {}
  PROVE  Recalled(from)
<1>1. /\ IsContext(ctx') /\ ctx'.results = items /\ ctx'.via = via /\ ctx'.max = t.max
      /\ ctx'.shown = Accumulate(IF t.reset THEN Empty ELSE from.ctx, items)
  BY ContextIs DEF Remember
<1>2. ListsOffers(ctx')
  BY <1>1 DEF ListsOffers, Offered, Offer
<1>3. Kept' = IF t.reset THEN ProductsOf(items) ELSE Kept \cup ProductsOf(items)
  BY KeptIs
<1>4. from.ctx = ctx /\ Kept \subseteq ctx.shown => Kept' \subseteq ctx'.shown
  BY <1>1, <1>3 DEF Accumulate
<1>5. from.ctx = ctx /\ Kept \subseteq ctx.shown /\ via = "other" => ProductsOf(items) \cap Kept = {}
  BY DEF ProductsOf, Offered, Offer
<1> QED
  BY <1>1, <1>2, <1>4, <1>5 DEF Recalled

\* a handler lists something else, or less of the same
LEMMA NextRecalled ==
  ASSUME NEW from, IsContext(from.ctx), NEW items, NEW via, via # "other",
         Remember(NextContext(from.ctx, items, via), items, FALSE),
         via = "search" => \A it \in items : VariantOf(it).stocked /\ (from.ctx.max # None => VariantOf(it).price <= from.ctx.max)
  PROVE  Recalled(from)
<1>1. /\ IsContext(ctx') /\ ctx'.results = items /\ ctx'.via = via /\ ctx'.max = from.ctx.max
      /\ ctx'.shown = from.ctx.shown \cup ProductsOf(items)
  BY NextContextIs DEF Remember
<1>2. ListsOffers(ctx')
  BY <1>1 DEF ListsOffers
<1>3. Kept' = Kept \cup ProductsOf(items)
  BY KeptIs
<1> QED
  BY <1>1, <1>2, <1>3 DEF Recalled

LEMMA PlainListRecalled ==
  ASSUME NEW from, IsContext(from.ctx), NEW ps, PlainList(from, ps) PROVE Recalled(from)
<1> DEFINE items == {[product |-> p, variant |-> 1] : p \in ps}
<1>1. Remember(NextContext(from.ctx, items, "list"), items, FALSE)
  BY DEF PlainList
<1>2. "list" # "other" /\ "list" # "search"
  OBVIOUS
<1> HIDE DEF items
<1> QED
  BY <1>1, <1>2, NextRecalled

LEMMA TopNRecalled ==
  ASSUME NEW from, IsContext(from.ctx), ListsOffers(from.ctx), TryTopN(from) PROVE Recalled(from)
<1> DEFINE via == IF from.ctx.via = "other" THEN "search" ELSE from.ctx.via
<1>1. PICK S \in SUBSET from.ctx.results : Remember(NextContext(from.ctx, S, via), S, FALSE)
  BY DEF TryTopN
<1>2. via # "other" /\ (via = "search" => from.ctx.via \in {"search", "other"})
  OBVIOUS
<1>3. via = "search" => \A it \in S : VariantOf(it).stocked /\ (from.ctx.max # None => VariantOf(it).price <= from.ctx.max)
  BY <1>2 DEF ListsOffers
<1> HIDE DEF via
<1> QED
  BY <1>1, <1>2, <1>3, NextRecalled

LEMMA SearchListRecalled ==
  ASSUME NEW from, NEW t, NEW items, Offered(items, Products, t.max), NEW unmet,
         Remember(ContextFor(from.ctx, t, items, unmet, "search"), items, t.reset)
  PROVE  Recalled(from)
<1> DEFINE via == "search"
<1>1. via = "other" => Products \cap from.ctx.shown = {}
  OBVIOUS
<1>2. Remember(ContextFor(from.ctx, t, items, unmet, via), items, t.reset)
  OBVIOUS
<1> HIDE DEF via
<1> QED
  BY <1>1, <1>2, ListingRecalled

\* a handler lists what answers the topic t, "other options" among what was not shown
Lists(from, t) ==
  \E items, ps, unmet, via :
    /\ Offered(items, ps, t.max) /\ via \in {"search", "other"}
    /\ via = "other" => ps \cap from.ctx.shown = {}
    /\ Remember(ContextFor(from.ctx, t, items, unmet, via), items, t.reset)

LEMMA ListsWhen ==
  ASSUME NEW from, NEW t, NEW items, NEW ps, Offered(items, ps, t.max), NEW unmet, NEW via \in {"search", "other"},
         via = "other" => ps \cap from.ctx.shown = {},
         Remember(ContextFor(from.ctx, t, items, unmet, via), items, t.reset)
  PROVE  Lists(from, t)
BY DEF Lists

LEMMA ListsRecalled == ASSUME NEW from, NEW t, Lists(from, t) PROVE Recalled(from)
<1>1. PICK items, ps, unmet, via :
        /\ Offered(items, ps, t.max)
        /\ via = "other" => ps \cap from.ctx.shown = {}
        /\ Remember(ContextFor(from.ctx, t, items, unmet, via), items, t.reset)
  BY DEF Lists
<1> QED
  BY <1>1, ListingRecalled

LEMMA ResultRecalled ==
  ASSUME IsContext(ctx), ListsOffers(ctx), NEW from, NEW q,
         Offered(q.items, Products, q.topic.max), PresentResult(from, q)
  PROVE  Recalled(from)
<1> DEFINE t == q.topic
<1>1. CASE q.items # {} \/ t.reset
  <2> DEFINE items == q.items
  <2>1. PICK unmet : Remember(ContextFor(from.ctx, t, items, unmet, "search"), items, t.reset)
    BY <1>1 DEF PresentResult, Remember
  <2>2. Offered(items, Products, t.max)
    OBVIOUS
  <2> HIDE DEF t, items
  <2> QED
    BY <2>1, <2>2, SearchListRecalled
<1>2. CASE q.items = {} /\ ~t.reset
  BY <1>2, UnreadRecalled DEF PresentResult
<1> QED
  BY <1>1, <1>2

LEMMA ReadingsAre ==
  ASSUME NEW s, NEW c, NEW r \in Interpret(s, c) PROVE IsReading(r)
<1> DEFINE base == InterpretDeterministically(s, c)
<1>1. IsReading(base)
  BY DEF InterpretDeterministically, IsReading
<1>2. r = base \/ r \in MergeInterpretations(base)
  BY DEF Interpret
<1> HIDE DEF base
<1>3. ASSUME NEW n, NEW x, NEW i
      PROVE  IsReading([base EXCEPT !.new = n, !.ambiguous = FALSE, !.extra = x, !.intent = i])
  <2> DEFINE y == [base EXCEPT !.new = n, !.ambiguous = FALSE, !.extra = x, !.intent = i]
  <2>1. y \in [said : {base.said}, intent : {i}, new : {n}, ambiguous : {FALSE}, extra : {x}]
    BY <1>1 DEF IsReading
  <2> HIDE DEF y
  <2>2. IsReading(y)
    BY <2>1 DEF IsReading
  <2> QED
    BY <2>2 DEF y
<1>4. CASE r \in MergeInterpretations(base)
  <2> DEFINE Merged(n, x, i) == [base EXCEPT !.new = n, !.ambiguous = FALSE, !.extra = x, !.intent = i]
  <2>1. MergeInterpretations(base)
          = {Merged(n, x, i) : n \in BOOLEAN, x \in SUBSET (Words \ base.said.words),
               i \in IF base.intent = "UNCLEAR" THEN {"UNCLEAR", "SEARCH", "ALTERNATIVES", "SIMILAR"}
                     ELSE {base.intent}}
    BY DEF MergeInterpretations
  <2>2. \A n, x, i : IsReading(Merged(n, x, i))
    BY <1>3
  <2> HIDE DEF Merged
  <2> QED
    BY <1>4, <2>1, <2>2
<1> QED
  BY <1>1, <1>2, <1>4

LEMMA TopicsAre ==
  ASSUME NEW c, NEW r
  PROVE  LET t == MergeTopic(c, r)
         IN  t \in [words : {t.words}, colour : {t.colour}, max : {t.max}, extra : {t.extra}, reset : {r.new}]
BY DEF MergeTopic

LEMMA SimilarAnswers ==
  ASSUME SearchAssumption, NEW p, NEW exclude, NEW t
  PROVE  Answers(Unless(SimilarTo(p, t.max, exclude), t, FALSE), t, Products \ exclude)
<1> DEFINE qs == {q \in Products \ (exclude \cup {p}) : Category[q] = Category[p]}
<1>1. qs \in SUBSET (Products \ exclude) /\ Products \ exclude \in SUBSET Products
  OBVIOUS
<1>2. SimilarTo(p, t.max, exclude) = ApplyHardConstraints(qs, t.max)
  BY DEF SimilarTo
<1> HIDE DEF qs
<1> QED
  BY <1>1, <1>2, HardAnswers

LEMMA AlternativesList ==
  ASSUME SearchAssumption, NEW from, NEW r, TryAlternatives(from, r)
  PROVE  LET t == [MergeTopic(from.ctx, [r EXCEPT !.new = FALSE]) EXCEPT !.reset = FALSE]
         IN  Unread \/ (Lists(from, t) /\ active' = None)
<1> DEFINE m == MergeTopic(from.ctx, [r EXCEPT !.new = FALSE])
           t == [m EXCEPT !.reset = FALSE]
           similar == r.intent = "SIMILAR"
           search == SlotWords(t) # {}
           via == IF similar THEN "search" ELSE "other"
           Shown(ref) == from.ctx.shown \cup ProductsOf(from.ctx.results) \cup ({ref} \ {None})
           Again(ref) == IF similar \/ ~search THEN {}
                         ELSE {q \in Ladder(<<QueryPrimary(t, Shown(ref)), QueryColour(t, Shown(ref))>>) : ~q.unmet}
           Nearby(ref) == IF ref = None \/ (search /\ ~similar /\ IsColourOnly(t)) THEN {}
                          ELSE Unless(SimilarTo(ref, t.max, IF similar THEN {} ELSE Shown(ref)), t, FALSE)
           Answered(ref) == Ladder(<<Again(ref), Nearby(ref)>>)
           Tell(q) == Remember(ContextFor(from.ctx, t, q.items, FALSE, via), q.items, FALSE) /\ active' = None
<1>1. Unread \/ \E ref : \E q \in Answered(ref) : Tell(q)
  BY DEF TryAlternatives
<1>3. ASSUME NEW ref, NEW q \in Answered(ref), Tell(q) PROVE Lists(from, t)
  <2> DEFINE ps == IF similar THEN Products ELSE Products \ Shown(ref)
  <2>1. t.reset = FALSE
    BY TopicsAre
  <2>2. Answers(Again(ref), t, ps)
    <3> DEFINE primary == QueryPrimary(t, Shown(ref))
               colour == QueryColour(t, Shown(ref))
    <3>1. CASE similar \/ ~search
      BY <3>1, NoneAnswers
    <3>2. ASSUME ~similar, NEW x \in Ladder(<<primary, colour>>)
          PROVE  x.topic = t /\ \A it \in x.items : Offer(it, ps, t.max)
      <4>3. x \in primary \/ x \in colour
        <5> HIDE DEF primary, colour
        <5> QED
          BY <3>2, TwoRungs
      <4>4. ps = Products \ Shown(ref)
        BY <3>2
      <4> HIDE DEF t, ps, Shown
      <4> QED
        BY <4>3, <4>4, QueriesAnswer DEF Answers
    <3> QED
      BY <3>1, <3>2 DEF Answers
  <2>3. Answers(Nearby(ref), t, ps)
    <3> DEFINE exclude == IF similar THEN {} ELSE Shown(ref)
    <3>1. ps = Products \ exclude
      OBVIOUS
    <3>2. Nearby(ref) = {} \/ Nearby(ref) = Unless(SimilarTo(ref, t.max, exclude), t, FALSE)
      OBVIOUS
    <3> HIDE DEF exclude, Nearby, t, ps
    <3>3. Answers(Unless(SimilarTo(ref, t.max, exclude), t, FALSE), t, Products \ exclude)
      BY SimilarAnswers
    <3> QED
      BY <3>1, <3>2, <3>3, NoneAnswers
  <2>4. q \in Again(ref) \/ q \in Nearby(ref)
    <3> HIDE DEF Again, Nearby
    <3> QED
      BY <1>3, TwoRungs
  <2>5. Offered(q.items, ps, t.max)
    <3> HIDE DEF Again, Nearby, t, ps
    <3> QED
      BY <2>2, <2>3, <2>4 DEF Offered, Answers
  <2>6. via \in {"search", "other"} /\ (via = "other" => ps \cap from.ctx.shown = {})
    OBVIOUS
  <2>7. Remember(ContextFor(from.ctx, t, q.items, FALSE, via), q.items, t.reset)
    <3> HIDE DEF t, via
    <3> QED
      BY <1>3, <2>1
  <2> DEFINE unmet == FALSE
  <2>8. Remember(ContextFor(from.ctx, t, q.items, unmet, via), q.items, t.reset)
    BY <2>7
  <2> HIDE DEF t, via, ps, unmet
  <2> QED
    BY <2>5, <2>6, <2>8, ListsWhen
<1>4. ASSUME NEW q, Tell(q) PROVE active' = None
  BY <1>4
<1> HIDE DEF Answered, Tell, t
<1>5. Unread \/ (Lists(from, t) /\ active' = None)
  BY <1>1, <1>3, <1>4
<1> QED
  BY <1>5 DEF t

LEMMA AlternativesRecalled ==
  ASSUME SearchAssumption, IsContext(ctx), ListsOffers(ctx), NEW from, NEW r, TryAlternatives(from, r)
  PROVE  Recalled(from)
<1>1. Unread \/ \E t : Lists(from, t)
  BY AlternativesList
<1> QED
  BY <1>1, UnreadRecalled, ListsRecalled DEF Unread

LEMMA RetrievalRecalled ==
  ASSUME SearchAssumption, IsContext(ctx), ListsOffers(ctx), NEW from, NEW t, NEW recover,
         \E q \in Retrieve(t, recover) : PresentResult(from, q)
  PROVE  Recalled(from)
<1>1. PICK q \in Retrieve(t, recover) : PresentResult(from, q)
  OBVIOUS
<1>2. Offered(q.items, Products, q.topic.max)
  BY RetrievedFits DEF Offered
<1> QED
  BY <1>1, <1>2, ResultRecalled

LEMMA CheaperList ==
  ASSUME SearchAssumption, NEW from, NEW r, IsReading(r), TryCheaper(from, r)
  PROVE  LET t == CheaperTopic(from, r, AnchorsOf(from))
         IN  \/ Unread
             \/ /\ AnchorsOf(from) # {} /\ t.max # 0
                /\ \/ \E q \in Retrieve(t, {}) : PresentResult(from, q)
                   \/ Lists(from, t) /\ active' = None
<1> DEFINE t == CheaperTopic(from, r, AnchorsOf(from))
           nearby == Unless(SimilarTo(from.active, t.max, {}), t, FALSE)
<1>1. t.reset = FALSE
  <2> DEFINE ceiling == CheaperCeiling(AnchorsOf(from), [p \in AnchorsOf(from) |-> CheapestStocked(p)], from.ctx.max)
             reading == [r EXCEPT !.new = FALSE, !.said.max = ceiling]
  <2>1. reading.new = FALSE
    <3> HIDE DEF ceiling
    <3> QED
      BY DEF IsReading
  <2>2. t = MergeTopic(from.ctx, reading)
    BY DEF CheaperTopic
  <2> HIDE DEF t, reading
  <2> QED
    BY <2>1, <2>2 DEF MergeTopic
<1>2. \/ Unread
      \/ /\ AnchorsOf(from) # {} /\ t.max # 0
         /\ \/ \E q \in Retrieve(t, {}) : PresentResult(from, q)
            \/ \E q \in nearby : /\ Remember(ContextFor(from.ctx, t, q.items, FALSE, "search"), q.items, FALSE)
                                 /\ active' = None
  BY DEF TryCheaper
<1> HIDE DEF t
<1>5. ASSUME NEW q \in nearby, Remember(ContextFor(from.ctx, t, q.items, FALSE, "search"), q.items, FALSE)
      PROVE  Lists(from, t)
  <2> DEFINE items == q.items
             unmet == FALSE
  <2>1. Answers(nearby, t, Products)
    <3>1. Answers(nearby, t, Products \ {})
      BY SimilarAnswers
    <3>2. Products \ {} = Products
      OBVIOUS
    <3> QED
      BY <3>1, <3>2
  <2>2. Offered(items, Products, t.max)
    <3> HIDE DEF nearby
    <3> QED
      BY <1>5, <2>1 DEF Answers, Offered
  <2>3. Remember(ContextFor(from.ctx, t, items, unmet, "search"), items, t.reset)
    BY <1>1, <1>5
  <2> DEFINE via == "search"
  <2>4. via \in {"search", "other"} /\ (via = "other" => Products \cap from.ctx.shown = {})
    OBVIOUS
  <2>5. Remember(ContextFor(from.ctx, t, items, unmet, via), items, t.reset)
    BY <2>3
  <2> HIDE DEF nearby, items, unmet, via
  <2> QED
    BY <2>2, <2>4, <2>5, ListsWhen
<1> HIDE DEF nearby
<1>6. \/ Unread
      \/ /\ AnchorsOf(from) # {} /\ t.max # 0
         /\ \/ \E q \in Retrieve(t, {}) : PresentResult(from, q)
            \/ Lists(from, t) /\ active' = None
  BY <1>2, <1>5
<1> QED
  BY <1>6 DEF t

LEMMA CheaperRecalled ==
  ASSUME SearchAssumption, IsContext(ctx), ListsOffers(ctx), NEW from, NEW r, IsReading(r), TryCheaper(from, r)
  PROVE  Recalled(from)
<1>1. Unread \/ (\E t : Lists(from, t)) \/ (\E t : \E q \in Retrieve(t, {}) : PresentResult(from, q))
  BY CheaperList
<1> QED
  BY <1>1, UnreadRecalled, ListsRecalled, RetrievalRecalled DEF Unread

LEMMA RecommendList ==
  ASSUME SearchAssumption, NEW from, NEW s, TryRecommend(from, s)
  PROVE  LET shownItems == {p \in ProductsOf(from.ctx.results) : Eligible(p, None) # {}}
             cheaper == s.ask = "cheaper" /\ s.words = {} /\ shownItems # {}
             Topic(r) == IF cheaper THEN CheaperTopic([from EXCEPT !.active = None], r, shownItems)
                         ELSE MergeTopic(from.ctx, r)
         IN  \E r \in Interpret(s, from.ctx) : Topic(r).max # 0 /\ Lists(from, Topic(r)) /\ UNCHANGED active
<1> DEFINE shownItems == {p \in ProductsOf(from.ctx.results) : Eligible(p, None) # {}}
           cheaper == s.ask = "cheaper" /\ s.words = {} /\ shownItems # {}
           Topic(r) == IF cheaper THEN CheaperTopic([from EXCEPT !.active = None], r, shownItems)
                       ELSE MergeTopic(from.ctx, r)
           Exclude(r) == IF r.intent = "ALTERNATIVES"
                         THEN from.ctx.shown \cup ProductsOf(from.ctx.results) ELSE {}
           Near(t, exclude) == Matching(t.words, exclude)
           Coloured(t, exclude) == {p \in Near(t, exclude) : InColour(p, t.max, t.colour) # {}}
           ByColour(t, exclude) ==
             IF t.colour = None \/ t.words = {} THEN {}
             ELSE IF Coloured(t, exclude) # {}
                  THEN Unless(SplitByAttributes(Coloured(t, exclude), t.max, t.colour), t, FALSE)
             ELSE Unless(ApplyHardConstraints(Near(t, exclude), t.max), t, TRUE)
           AnyWord(t, exclude) ==
             IF Cardinality(t.words) < 2 THEN {}
             ELSE Unless(ApplyHardConstraints(Touching(t.words, exclude), t.max), t, FALSE)
           InBudget(t, exclude) ==
             IF t.max = None \/ CoreTerms(t.words) # {} THEN {}
             ELSE Unless(ApplyHardConstraints(Products \ exclude, t.max), t, FALSE)
           Via(r) == IF r.intent = "ALTERNATIVES" THEN "other" ELSE "search"
           Answered(t, exclude) ==
             Ladder(<<QueryExact(t, exclude), ByColour(t, exclude), AnyWord(t, exclude), InBudget(t, exclude)>>)
<1>1. PICK r \in Interpret(s, from.ctx) :
        /\ Topic(r).max # 0 /\ UNCHANGED active
        /\ \E q \in Answered(Topic(r), Exclude(r)) :
                 Remember(ContextFor(from.ctx, Topic(r), q.items, q.unmet, Via(r)), q.items, Topic(r).reset)
  BY DEF TryRecommend
<1>2. PICK q \in Answered(Topic(r), Exclude(r)) :
        Remember(ContextFor(from.ctx, Topic(r), q.items, q.unmet, Via(r)), q.items, Topic(r).reset)
  BY <1>1
<1>3. ASSUME NEW t, NEW exclude, NEW x \in Answered(t, exclude) PROVE Offered(x.items, Products \ exclude, t.max)
  <2> DEFINE ps == Products \ exclude
  <2>1. x \in QueryExact(t, exclude) \/ x \in ByColour(t, exclude) \/ x \in AnyWord(t, exclude) \/ x \in InBudget(t, exclude)
    <3> HIDE DEF ByColour, AnyWord, InBudget
    <3> QED
      BY <1>3, FourRungs
  <2>2. ps \in SUBSET Products /\ ps \in SUBSET ps
    OBVIOUS
  <2>3. /\ Near(t, exclude) \in SUBSET ps /\ Coloured(t, exclude) \in SUBSET ps
        /\ Touching(t.words, exclude) \in SUBSET ps
    BY DEF Matching, Touching
  <2>4. Answers(QueryExact(t, exclude), t, ps)
    BY QueriesAnswer
  <2>5. Answers(ByColour(t, exclude), t, ps)
    <3>1. Answers(Unless(SplitByAttributes(Coloured(t, exclude), t.max, t.colour), t, FALSE), t, ps)
      <4> HIDE DEF Coloured, ps
      <4> QED
        BY <2>2, <2>3, AttributesAnswer
    <3>2. Answers(Unless(ApplyHardConstraints(Near(t, exclude), t.max), t, TRUE), t, ps)
      <4> HIDE DEF Near, ps
      <4> QED
        BY <2>2, <2>3, HardAnswers
    <3> HIDE DEF Coloured, Near, ps
    <3> QED
      BY <3>1, <3>2, NoneAnswers
  <2>6. Answers(AnyWord(t, exclude), t, ps)
    <3> HIDE DEF ps
    <3> QED
      BY <2>2, <2>3, HardAnswers, NoneAnswers
  <2>7. Answers(InBudget(t, exclude), t, ps)
    BY <2>2, HardAnswers, NoneAnswers
  <2> HIDE DEF ps, ByColour, AnyWord, InBudget
  <2>8. Offered(x.items, ps, t.max)
    BY <2>1, <2>4, <2>5, <2>6, <2>7 DEF Answers, Offered
  <2> QED
    BY <2>8 DEF ps
<1> DEFINE t == Topic(r)
           ps == Products \ Exclude(r)
           via == Via(r)
           items == q.items
           unmet == q.unmet
<1>4. Offered(items, ps, t.max)
  <2> HIDE DEF Answered, Topic, Exclude
  <2> QED
    BY <1>2, <1>3
<1>5. via \in {"search", "other"} /\ (via = "other" => ps \cap from.ctx.shown = {})
  OBVIOUS
<1>6. Remember(ContextFor(from.ctx, t, items, unmet, via), items, t.reset)
  BY <1>2
<1>7. Lists(from, t)
  <2> HIDE DEF t, ps, via, items, unmet
  <2> QED
    BY <1>4, <1>5, <1>6, ListsWhen
<1> HIDE DEF Topic
<1>8. \E x \in Interpret(s, from.ctx) : Topic(x).max # 0 /\ Lists(from, Topic(x)) /\ UNCHANGED active
  BY <1>1, <1>7
<1> QED
  BY <1>8 DEF Topic

LEMMA RecommendRecalled ==
  ASSUME SearchAssumption, NEW from, NEW s, TryRecommend(from, s)
  PROVE  Recalled(from)
<1>1. \E t : Lists(from, t)
  BY RecommendList
<1> QED
  BY <1>1, ListsRecalled

LEMMA BudgetRecalled ==
  ASSUME NEW from, IsContext(from.ctx), NEW s, TrackBudget(from, s) PROVE Recalled(from)
<1>1. PICK max : ctx' = [from.ctx EXCEPT !.max = max, !.via = "agent"] /\ UNCHANGED <<listed, paged>>
  BY DEF TrackBudget
<1> DEFINE c == from.ctx
           d == [c EXCEPT !.max = max, !.via = "agent"]
<1>2. d \in [words : {c.words}, colour : {c.colour}, max : {max}, extra : {c.extra},
             results : {c.results}, shown : {c.shown}, via : {"agent"}]
  BY DEF IsContext
<1>3. ctx' = d /\ Kept' = Kept
  BY <1>1 DEF Kept
<1> HIDE DEF d
<1>4. IsContext(d) /\ ListsOffers(d) /\ d.shown = c.shown /\ d.via # "other"
  BY <1>2 DEF IsContext, ListsOffers
<1> QED
  BY <1>3, <1>4 DEF Recalled

LEMMA SearchRecalled ==
  ASSUME SearchAssumption, IsContext(ctx), ListsOffers(ctx), NEW from, NEW s, InterpretAndSearch(from, s)
  PROVE  Recalled(from)
<1>1. CASE AnswerAboutVariant(from)
  BY <1>1, UnreadRecalled DEF AnswerAboutVariant
<1>2. ASSUME NEW r \in Interpret(s, from.ctx), TryAlternatives(from, r) PROVE Recalled(from)
  BY <1>2, AlternativesRecalled
<1>3. ASSUME NEW r \in Interpret(s, from.ctx), TryCheaper(from, r) PROVE Recalled(from)
  BY <1>3, ReadingsAre, CheaperRecalled
<1>4. CASE Unread
  BY <1>4, UnreadRecalled DEF Unread
<1>5. ASSUME NEW t, NEW recover, \E q \in Retrieve(t, recover) : PresentResult(from, q) PROVE Recalled(from)
  BY <1>5, RetrievalRecalled
<1> QED
  BY <1>1, <1>2, <1>3, <1>4, <1>5 DEF InterpretAndSearch

LEMMA AnswerRecalled ==
  ASSUME SearchAssumption, IsContext(ctx), ListsOffers(ctx),
         NEW from, IsContext(from.ctx), ListsOffers(from.ctx), Answer(from)
  PROVE  Recalled(from)
<1>1. ASSUME NEW s \in Sayings, InterpretAndSearch(from, s) PROVE Recalled(from)
  BY <1>1, SearchRecalled
<1>2. ASSUME NEW s \in Sayings, AssistedBuying(from, s) PROVE Recalled(from)
  <2>1. CASE Unread
    BY <2>1, UnreadRecalled DEF Unread
  <2>2. CASE TryRecommend(from, s)
    BY <2>2, RecommendRecalled
  <2> QED
    BY <1>2, <2>1, <2>2 DEF AssistedBuying, TryStoreDiscovery, TryCompare
<1>3. ASSUME NEW s \in Sayings, TrackBudget(from, s) PROVE Recalled(from)
  BY <1>3, BudgetRecalled
<1>4. CASE MutateCartItemInView(from)
  <2>1. ctx' = from.ctx /\ Kept' = Kept
    BY <1>4 DEF MutateCartItemInView, Kept
  <2> QED
    BY <2>1 DEF Recalled
<1>5. CASE \E ps : PlainList(from, ps)
  BY <1>5, PlainListRecalled
<1>6. CASE TryTopN(from)
  BY <1>6, TopNRecalled
<1>7. \/ TrySimilarButCheaper(from) \/ TryMorePremium(from) \/ TryCrossSell(from)
      \/ ListSimilarProducts(from) \/ TryCompareProducts(from)
      => \E ps : PlainList(from, ps)
  BY Zenon DEF TrySimilarButCheaper, TryMorePremium, TryCrossSell, ListSimilarProducts, TryCompareProducts
<1> QED
  BY <1>1, <1>2, <1>3, <1>4, <1>5, <1>6, <1>7 DEF Answer

LEMMA TapRecalled ==
  ASSUME IsContext(ctx), ListsOffers(ctx), Tap
  PROVE  /\ IsContext(ctx') /\ ListsOffers(ctx')
         /\ Kept \subseteq ctx.shown => Kept' \subseteq ctx'.shown
         /\ ctx'.via = "other" => ctx' = ctx
<1>1. CASE StartTopic \/ (ctx' = Empty /\ listed' = paged')
  <2>1. ctx' = Empty /\ Kept' = {}
    BY <1>1, KeptIs DEF StartTopic, Remember, ProductsOf, Kept
  <2>2. IsContext(Empty) /\ ListsOffers(Empty) /\ Empty.via # "other"
    BY DEF Empty, IsContext, ListsOffers
  <2>3. IsContext(ctx') /\ ListsOffers(ctx') /\ ctx'.via # "other"
    BY <2>1, <2>2
  <2> QED
    BY <2>1, <2>3
<1>2. CASE UNCHANGED <<ctx, listed, paged>>
  BY <1>2 DEF Kept
<1> QED
  BY <1>1, <1>2 DEF Tap, Browse, ShowPage, Unread, OpenProduct, OrderPlaced

LEMMA SearchStart == ASSUME SearchInit PROVE SearchInv
<1>1. IsContext(Empty) /\ ListsOffers(Empty) /\ Empty.shown = {}
  BY DEF Empty, IsContext, ListsOffers
<1> QED
  BY <1>1 DEF SearchInit, SearchInv, Kept

LEMMA ReadingIs == SearchReading.ctx = ctx
BY DEF SearchReading

LEMMA SearchStep ==
  ASSUME SearchAssumption, SearchInv, [SearchNext]_searchVars
  PROVE  /\ SearchInv'
         /\ ctx'.via = "other" /\ ctx' # ctx /\ ~overlapped' => ProductsOf(ctx'.results) \cap Kept = {}
<1>0. IsContext(ctx) /\ ListsOffers(ctx) /\ (~overlapped => Kept \subseteq ctx.shown)
  BY DEF SearchInv
<1>1. CASE SearchAtOnce
  <2>1. Recalled(SearchReading)
    BY <1>0, <1>1, ReadingIs, AnswerRecalled DEF SearchAtOnce
  <2>2. UNCHANGED searching /\ overlapped' = (overlapped \/ searching # None)
    BY <1>1 DEF SearchAtOnce, Meanwhile
  <2>3. IsContext(ctx') /\ ListsOffers(ctx')
    BY <2>1 DEF Recalled
  <2>4. ~overlapped' => /\ ~overlapped /\ searching = None
                        /\ Kept' \subseteq ctx'.shown
                        /\ ctx'.via = "other" /\ ctx' # ctx => ProductsOf(ctx'.results) \cap Kept = {}
    BY <1>0, <2>1, <2>2, ReadingIs DEF Recalled
  <2>5. searching' # None => IsContext(searching'.ctx) /\ ListsOffers(searching'.ctx)
    BY <2>2 DEF SearchInv
  <2> QED
    BY <2>2, <2>3, <2>4, <2>5 DEF SearchInv
<1>2. CASE StartSearch
  <2>1. searching' = SearchReading /\ Kept' = Kept /\ UNCHANGED <<ctx, active, overlapped>>
    BY <1>2 DEF StartSearch, Kept
  <2>2. SearchReading' = SearchReading
    BY <2>1 DEF SearchReading
  <2>3. searching'.ctx = ctx
    BY <2>1, ReadingIs
  <2> QED
    BY <1>0, <2>1, <2>2, <2>3 DEF SearchInv
<1>3. CASE FinishSearch
  <2>1. searching # None /\ Answer(searching) /\ searching' = None /\ UNCHANGED overlapped
    BY <1>3 DEF FinishSearch
  <2>2. IsContext(searching.ctx) /\ ListsOffers(searching.ctx)
    BY <2>1 DEF SearchInv
  <2>3. Recalled(searching)
    BY <1>0, <2>1, <2>2, AnswerRecalled
  <2>4. ~overlapped => searching.ctx = ctx
    BY <2>1, ReadingIs DEF SearchInv
  <2>5. IsContext(ctx') /\ ListsOffers(ctx')
    BY <2>3 DEF Recalled
  <2>6. ~overlapped' => /\ Kept' \subseteq ctx'.shown
                        /\ ctx'.via = "other" /\ ctx' # ctx => ProductsOf(ctx'.results) \cap Kept = {}
    BY <1>0, <2>1, <2>3, <2>4 DEF Recalled
  <2> QED
    BY <2>1, <2>5, <2>6 DEF SearchInv
<1>4. CASE Tap
  <2>1. /\ IsContext(ctx') /\ ListsOffers(ctx')
        /\ Kept \subseteq ctx.shown => Kept' \subseteq ctx'.shown
        /\ ctx'.via = "other" => ctx' = ctx
    BY <1>0, <1>4, TapRecalled
  <2>2. UNCHANGED searching /\ overlapped' = (overlapped \/ searching # None)
    BY <1>4 DEF Tap, Meanwhile
  <2>3. searching' # None => IsContext(searching'.ctx) /\ ListsOffers(searching'.ctx)
    BY <2>2 DEF SearchInv
  <2>4. ~overlapped' => ~overlapped /\ searching' = None
    BY <2>2
  <2> QED
    BY <1>0, <2>1, <2>3, <2>4 DEF SearchInv
<1>5. CASE UNCHANGED searchVars
  <2>1. Kept' = Kept /\ UNCHANGED <<ctx, active, searching, overlapped>>
    BY <1>5 DEF searchVars, Kept
  <2>2. SearchReading' = SearchReading
    BY <2>1 DEF SearchReading
  <2> QED
    BY <2>1, <2>2 DEF SearchInv
<1> QED
  BY <1>1, <1>2, <1>3, <1>4, <1>5 DEF SearchNext

THEOREM SearchInvariant == SearchSpec => []SearchInv
<1>1. SearchInit => SearchInv
  BY SearchStart
<1>2. SearchInv /\ [SearchNext]_searchVars => SearchInv'
  BY SearchAssumption, SearchStep
<1> QED
  BY <1>1, <1>2, PTL DEF SearchSpec

\* Whichever rung of the ladder answered, whichever handler wrote last and however late, a list is in stock and
\* within the ceiling remembered with it.
THEOREM ListsStayWithinBudget == SearchSpec => []WithinBudget
<1>1. SearchInv => WithinBudget
  BY DEF SearchInv, ListsOffers, WithinBudget
<1> QED
  BY <1>1, SearchInvariant, PTL

\* "Other options" repeats nothing that was listed since the topic began and not only on the page of a category, as
\* long as messages do not overlap.
THEOREM OthersAreNew == SearchSpec => AlternativesAreNew
<1>1. SearchInv /\ [SearchNext]_searchVars
        => [(ctx'.via = "other" /\ ctx' # ctx /\ ~overlapped') => ProductsOf(ctx'.results) \cap (listed \ paged) = {}]_searchVars
  BY SearchAssumption, SearchStep DEF Kept
<1> QED
  BY <1>1, SearchInvariant, PTL DEF SearchSpec, AlternativesAreNew

(***************************************************************************)
(* The types of a search: every ceiling is a price, a cheaper one included *)
(***************************************************************************)
Intents == {"SEARCH", "ALTERNATIVES", "SIMILAR", "UNCLEAR"}
Interpreted == [said : Said, intent : Intents, new : BOOLEAN, ambiguous : BOOLEAN, extra : SUBSET Words]
Topics == [words : SUBSET Words, colour : Colours \cup {None}, max : Prices \cup {None},
           extra : SUBSET Words, reset : BOOLEAN]
Vias == {"none", "search", "other", "list", "agent"}
Seen == [ctx : Contexts, active : Products \cup {None}]

\* what a handler may leave behind
Written ==
  /\ ctx' \in Contexts /\ active' \in Products \cup {None}
  /\ listed' \subseteq Products /\ paged' \subseteq listed'

LEMMA PricesAre == ASSUME SearchAssumption PROVE Prices \subseteq Nat /\ Prices = {n \in Nat : 1 <= n /\ n <= Cardinality(Prices)}
<1>1. Cardinality(Prices) \in Nat
  BY FS_CardinalityType DEF SearchAssumption
<1> QED
  BY <1>1 DEF SearchAssumption

\* a price below a price is a price, or none
LEMMA LowerPrice ==
  ASSUME SearchAssumption, NEW x \in Prices PROVE x - 1 \in Prices \cup {0}
<1>1. Cardinality(Prices) \in Nat
  BY FS_CardinalityType DEF SearchAssumption
<1> QED
  BY <1>1, PricesAre

\* the lower median of prices is one of them
LEMMA MedianIs ==
  ASSUME SearchAssumption, NEW ps \in SUBSET Products, ps # {}, NEW priceOf \in [ps -> Prices]
  PROVE  LET middle == (Cardinality(ps) - 1) \div 2
             xs == {priceOf[p] : p \in ps}
         IN  \E x \in xs : /\ Cardinality({p \in ps : priceOf[p] < x}) <= middle
                           /\ Cardinality({p \in ps : priceOf[p] <= x}) > middle
<1> DEFINE middle == (Cardinality(ps) - 1) \div 2
           xs == {priceOf[p] : p \in ps}
           Below(x) == {p \in ps : priceOf[p] < x}
           UpTo(x) == {p \in ps : priceOf[p] <= x}
           late == {x \in xs : Cardinality(UpTo(x)) > middle}
<1>1. IsFiniteSet(ps) /\ Cardinality(ps) \in Nat /\ Cardinality(ps) > 0
  <2>1. IsFiniteSet(ps)
    BY FS_Subset DEF SearchAssumption
  <2>2. Cardinality(ps) \in Nat /\ Cardinality(ps) # 0
    BY <2>1, FS_CardinalityType, FS_EmptySet
  <2> QED
    BY <2>1, <2>2
<1>2. middle \in Nat /\ middle < Cardinality(ps)
  <2> DEFINE n == Cardinality(ps)
  <2>1. n \in Nat /\ n > 0
    BY <1>1
  <2> HIDE DEF n
  <2>2. (n - 1) \div 2 \in Nat /\ (n - 1) \div 2 < n
    BY <2>1
  <2> QED
    BY <2>2 DEF n
<1> HIDE DEF middle
<1>3. xs \subseteq Nat /\ xs # {}
  BY PricesAre
<1>4. \A x : /\ UpTo(x) \subseteq ps /\ Below(x) \subseteq ps
             /\ Cardinality(UpTo(x)) \in Nat /\ Cardinality(Below(x)) \in Nat
  <2>1. ASSUME NEW S, S \subseteq ps PROVE Cardinality(S) \in Nat
    BY <1>1, <2>1, FS_Subset, FS_CardinalityType
  <2>2. \A x : UpTo(x) \subseteq ps /\ Below(x) \subseteq ps
    OBVIOUS
  <2> HIDE DEF UpTo, Below
  <2> QED
    BY <2>1, <2>2
<1>5. late # {}
  <2>1. PICK n \in Nat : \A x \in xs : x <= n
    <3>1. Cardinality(Prices) \in Nat
      BY FS_CardinalityType DEF SearchAssumption
    <3> QED
      BY <3>1, PricesAre
  <2>2. PICK x \in xs : \A y \in xs : y <= x
    <3>1. xs \subseteq 0..n
      BY <1>3, <2>1
    <3> HIDE DEF xs
    <3> QED
      BY <1>3, <3>1, GreatestNumber
  <2>3. UpTo(x) = ps
    BY <2>2
  <2> QED
    BY <1>2, <2>2, <2>3
<1>6. PICK x \in late : \A y \in late : x <= y
  <2>1. late \subseteq Nat
    BY <1>3
  <2> HIDE DEF late
  <2> QED
    BY <1>5, <2>1, LeastNumber
<1>7. Cardinality(Below(x)) <= middle
  <2> SUFFICES ASSUME ~(Cardinality(Below(x)) <= middle) PROVE FALSE
    OBVIOUS
  <2>1. Cardinality(Below(x)) > middle /\ Cardinality(Below(x)) # 0
    <3> DEFINE c == Cardinality(Below(x))
    <3>1. c \in Nat /\ ~(c <= middle)
      BY <1>4
    <3> HIDE DEF c
    <3>2. c > middle /\ c # 0
      BY <1>2, <3>1
    <3> QED
      BY <3>2 DEF c
  <2>2. Below(x) # {}
    <3> HIDE DEF Below
    <3> QED
      BY <2>1, FS_EmptySet
  <2> DEFINE earlier == {priceOf[p] : p \in Below(x)}
  <2>4. x \in Nat
    BY <1>3, <1>6
  <2>3. earlier \subseteq xs /\ earlier # {} /\ \A y \in earlier : y < x
    <3>1. \A p \in Below(x) : priceOf[p] \in xs /\ priceOf[p] < x
      BY <1>4
    <3> HIDE DEF Below, xs
    <3> QED
      BY <2>2, <3>1
  <2>5. PICK y \in earlier : \A z \in earlier : z <= y
    <3> HIDE DEF earlier, xs
    <3>1. earlier \subseteq 0..x
      BY <1>3, <2>3, <2>4
    <3> QED
      BY <2>3, <2>4, <3>1, GreatestNumber
  <2>6. y \in Nat /\ y < x
    <3> HIDE DEF earlier, xs
    <3> QED
      BY <1>3, <2>3, <2>5
  <2>7. UpTo(y) = Below(x)
    <3>1. \A p \in ps : priceOf[p] \in Nat
      BY PricesAre
    <3>2. \A p \in ps : priceOf[p] < x => priceOf[p] <= y
      BY <2>5
    <3> QED
      BY <2>4, <2>6, <3>1, <3>2
  <2>8. y \in late
    <3>1. y \in xs
      BY <2>3, <2>5
    <3> QED
      BY <2>1, <2>7, <3>1
  <2> HIDE DEF late
  <2> QED
    BY <1>6, <2>4, <2>6, <2>8
<1>8. x \in xs /\ Cardinality(UpTo(x)) > middle
  BY <1>6
<1> QED
  BY <1>7, <1>8 DEF middle

LEMMA CeilingIsPrice ==
  ASSUME SearchAssumption, NEW ps \in SUBSET Products, ps # {}, NEW priceOf \in [ps -> Prices],
         NEW max \in Prices \cup {None}
  PROVE  CheaperCeiling(ps, priceOf, max) \in Prices \cup {0, None}
<1> DEFINE middle == (Cardinality(ps) - 1) \div 2
           xs == {priceOf[p] : p \in ps}
           reference == CHOOSE x \in xs : /\ Cardinality({p \in ps : priceOf[p] < x}) <= middle
                                          /\ Cardinality({p \in ps : priceOf[p] <= x}) > middle
<1>1. reference \in xs
  BY MedianIs, Zenon
<1>2. reference \in Prices
  <2> HIDE DEF reference
  <2> QED
    BY <1>1
<1>3. reference - 1 \in Prices \cup {0}
  <2> HIDE DEF reference
  <2> QED
    BY <1>2, LowerPrice
<1>4. CheaperCeiling(ps, priceOf, max) = IF max # None /\ max < reference THEN max ELSE reference - 1
  BY DEF CheaperCeiling
<1> HIDE DEF reference
<1> QED
  BY <1>3, <1>4

LEMMA MembersOf == ASSUME NEW R, NEW q \in Seq(R) PROVE \A i \in DOMAIN q : q[i] \in R
OBVIOUS

LEMMA VariantsAre ==
  ASSUME SearchAssumption, NEW p \in Products
  PROVE  /\ VariantsOf[p] # <<>> /\ 1 \in DOMAIN VariantsOf[p]
         /\ \A i \in DOMAIN VariantsOf[p] : VariantsOf[p][i].price \in Prices
<1> DEFINE R == [price : Prices, stocked : BOOLEAN, colour : Colours \cup {None}]
           q == VariantsOf[p]
<1>1. q \in Seq(R) /\ q # <<>>
  BY DEF SearchAssumption
<1>2. \A v \in R : v.price \in Prices
  OBVIOUS
<1> HIDE DEF R, q
<1>3. \A i \in DOMAIN q : q[i] \in R
  BY <1>1, MembersOf
<1>4. 1 \in DOMAIN q
  BY <1>1
<1> QED
  BY <1>1, <1>2, <1>3, <1>4 DEF q

LEMMA CheapestIsPrice ==
  ASSUME SearchAssumption, NEW p \in Products, Eligible(p, None) # {} PROVE CheapestStocked(p) \in Prices
<1> DEFINE prices == {VariantsOf[p][i].price : i \in Eligible(p, None)}
<1>1. prices \subseteq Prices /\ prices # {}
  <2>1. \A i \in Eligible(p, None) : VariantsOf[p][i].price \in Prices
    BY VariantsAre DEF Eligible
  <2> QED
    BY <2>1
<1>2. CheapestStocked(p) = CHOOSE x \in prices : \A y \in prices : x <= y
  BY DEF CheapestStocked
<1> HIDE DEF prices
<1>3. \E x \in prices : \A y \in prices : x <= y
  BY <1>1, PricesAre, LeastNumber
<1> QED
  BY <1>1, <1>2, <1>3

LEMMA ReadingsTyped == ASSUME NEW s \in Said, NEW c, NEW r \in Interpret(s, c) PROVE r \in Interpreted
<1> DEFINE base == InterpretDeterministically(s, c)
<1>1. base \in Interpreted
  <2>1. Relation(s, c).new \in BOOLEAN /\ Relation(s, c).ambiguous \in BOOLEAN
    BY DEF Relation
  <2>2. Intent(s) \in Intents
    BY DEF Intent, Intents
  <2> QED
    BY <2>1, <2>2 DEF InterpretDeterministically, Interpreted
<1>2. r = base \/ r \in MergeInterpretations(base)
  BY DEF Interpret
<1> HIDE DEF base
<1>3. CASE r \in MergeInterpretations(base)
  <2> DEFINE Merged(n, x, i) == [base EXCEPT !.new = n, !.ambiguous = FALSE, !.extra = x, !.intent = i]
             Open == IF base.intent = "UNCLEAR" THEN {"UNCLEAR", "SEARCH", "ALTERNATIVES", "SIMILAR"}
                     ELSE {base.intent}
  <2>1. MergeInterpretations(base)
          = {Merged(n, x, i) : n \in BOOLEAN, x \in SUBSET (Words \ base.said.words), i \in Open}
    BY DEF MergeInterpretations
  <2>2. Open \subseteq Intents /\ FALSE \in BOOLEAN
    BY <1>1 DEF Interpreted, Intents
  <2>3. ASSUME NEW n \in BOOLEAN, NEW x \in SUBSET Words, NEW i \in Intents PROVE Merged(n, x, i) \in Interpreted
    BY <1>1, <2>2 DEF Interpreted
  <2> HIDE DEF Merged, Open
  <2> QED
    BY <1>3, <2>1, <2>2, <2>3
<1> QED
  BY <1>1, <1>2, <1>3

LEMMA TopicsTyped ==
  ASSUME NEW c \in Contexts, NEW r, r.new \in BOOLEAN, r.extra \in SUBSET Words,
         r.said.words \in SUBSET Words, r.said.colour \in Colours \cup {None}
  PROVE  LET t == MergeTopic(c, r)
         IN  /\ t \in [words : SUBSET Words, colour : Colours \cup {None}, max : {t.max},
                       extra : SUBSET Words, reset : BOOLEAN]
             /\ t.max \in {r.said.max} \cup Prices \cup {None} /\ t.reset = r.new
<1> DEFINE base == IF r.new THEN Empty ELSE c
<1>1. /\ base.words \in SUBSET Words /\ base.colour \in Colours \cup {None}
      /\ base.max \in Prices \cup {None} /\ base.extra \in SUBSET Words
  BY DEF Empty, Contexts
<1> DEFINE words == base.words \cup r.said.words
           colour == IF r.said.colour # None THEN r.said.colour ELSE base.colour
           max == IF r.said.max # None THEN r.said.max ELSE base.max
           extra == IF r.extra # {} THEN r.extra ELSE base.extra
<1>2. /\ words \in SUBSET Words /\ colour \in Colours \cup {None} /\ extra \in SUBSET Words
      /\ max \in {r.said.max} \cup Prices \cup {None}
  BY <1>1
<1>3. MergeTopic(c, r) = [words |-> words, colour |-> colour, max |-> max, extra |-> extra, reset |-> r.new]
  BY DEF MergeTopic
<1> HIDE DEF words, colour, max, extra
<1> QED
  BY <1>2, <1>3

LEMMA ReadTopic ==
  ASSUME NEW c \in Contexts, NEW r \in Interpreted
  PROVE  /\ MergeTopic(c, r) \in Topics
         /\ MergeTopic(c, [r EXCEPT !.new = FALSE]) \in Topics
         /\ MergeTopic(c, [r EXCEPT !.new = TRUE]) \in Topics
<1>1. ASSUME NEW x \in Interpreted PROVE MergeTopic(c, x) \in Topics
  <2>1. /\ x.new \in BOOLEAN /\ x.extra \in SUBSET Words /\ x.said.words \in SUBSET Words
        /\ x.said.colour \in Colours \cup {None} /\ x.said.max \in Prices \cup {None}
    BY DEF Interpreted, Said
  <2> DEFINE t == MergeTopic(c, x)
  <2>2. /\ t \in [words : SUBSET Words, colour : Colours \cup {None}, max : {t.max}, extra : SUBSET Words, reset : BOOLEAN]
        /\ t.max \in {x.said.max} \cup Prices \cup {None}
    BY <2>1, TopicsTyped
  <2> HIDE DEF t
  <2>3. t \in Topics
    BY <2>1, <2>2 DEF Topics
  <2> QED
    BY <2>3 DEF t
<1>2. \A n \in BOOLEAN : [r EXCEPT !.new = n] \in Interpreted
  BY DEF Interpreted
<1> QED
  BY <1>1, <1>2

\* "cheaper" asks for a ceiling that is a price, unless there is none below
LEMMA CheaperTopicTyped ==
  ASSUME SearchAssumption, NEW from, from.ctx \in Contexts, NEW r \in Interpreted,
         NEW anchors \in SUBSET Products, anchors # {}, \A p \in anchors : Eligible(p, None) # {}
  PROVE  LET t == CheaperTopic(from, r, anchors)
         IN  t.max # 0 => t \in Topics
<1> DEFINE priceOf == [p \in anchors |-> CheapestStocked(p)]
           ceiling == CheaperCeiling(anchors, priceOf, from.ctx.max)
           reading == [r EXCEPT !.new = FALSE, !.said.max = ceiling]
           t == MergeTopic(from.ctx, reading)
<1>1. priceOf \in [anchors -> Prices]
  BY CheapestIsPrice
<1>2. ceiling \in Prices \cup {0, None}
  <2>1. from.ctx.max \in Prices \cup {None}
    BY DEF Contexts
  <2> HIDE DEF priceOf
  <2> QED
    BY <1>1, <2>1, CeilingIsPrice
<1>3. CheaperTopic(from, r, anchors) = t
  BY DEF CheaperTopic
<1> HIDE DEF ceiling
<1>4. reading.new = FALSE /\ reading.extra = r.extra /\ reading.said = [r.said EXCEPT !.max = ceiling]
  BY DEF Interpreted
<1> HIDE DEF reading
<1>5. /\ reading.new \in BOOLEAN /\ reading.extra \in SUBSET Words
      /\ reading.said.words \in SUBSET Words /\ reading.said.colour \in Colours \cup {None}
      /\ reading.said.max = ceiling
  BY <1>4 DEF Interpreted, Said
<1>6. /\ t \in [words : SUBSET Words, colour : Colours \cup {None}, max : {t.max}, extra : SUBSET Words, reset : BOOLEAN]
      /\ t.max \in {ceiling} \cup Prices \cup {None}
  BY <1>5, TopicsTyped
<1> HIDE DEF t
<1>7. t.max # 0 => t \in Topics
  BY <1>2, <1>6 DEF Topics
<1> QED
  BY <1>3, <1>7

\* a context made of what a handler found is one
LEMMA ListingWritten ==
  ASSUME NEW c \in Contexts, NEW t \in Topics, NEW items, items \subseteq Items, NEW unmet,
         NEW via \in Vias, NEW fresh, Remember(ContextFor(c, t, items, unmet, via), items, fresh),
         listed \subseteq Products, paged \subseteq listed
  PROVE  ctx' \in Contexts /\ listed' \subseteq Products /\ paged' \subseteq listed'
<1> DEFINE colour == IF unmet THEN None ELSE t.colour
           shown == Accumulate(IF t.reset THEN Empty ELSE c, items)
<1>1. ProductsOf(items) \subseteq Products
  BY DEF ProductsOf, Items
<1>2. /\ t.words \in SUBSET Words /\ colour \in Colours \cup {None} /\ t.max \in Prices \cup {None}
      /\ t.extra \in SUBSET Words
  BY DEF Topics
<1>3. shown \in SUBSET Products
  <2>1. (IF t.reset THEN Empty ELSE c).shown \in SUBSET Products
    BY DEF Empty, Contexts
  <2> QED
    BY <1>1, <2>1 DEF Accumulate
<1>4. ctx' = [words |-> t.words, colour |-> colour, max |-> t.max, extra |-> t.extra,
              results |-> items, shown |-> shown, via |-> via]
  BY DEF Remember, ContextFor
<1> HIDE DEF colour, shown
<1>5. ctx' \in Contexts
  BY <1>2, <1>3, <1>4 DEF Contexts, Vias
<1> QED
  BY <1>1, <1>5 DEF Remember

LEMMA NextWritten ==
  ASSUME NEW c \in Contexts, NEW items, items \subseteq Items, NEW via \in Vias, NEW fresh,
         Remember(NextContext(c, items, via), items, fresh),
         listed \subseteq Products, paged \subseteq listed
  PROVE  ctx' \in Contexts /\ listed' \subseteq Products /\ paged' \subseteq listed'
<1> DEFINE shown == Accumulate(c, items)
           d == [c EXCEPT !.results = items, !.shown = shown, !.via = via]
<1>1. ProductsOf(items) \subseteq Products
  BY DEF ProductsOf, Items
<1>2. shown \in SUBSET Products
  BY <1>1 DEF Accumulate, Contexts
<1> HIDE DEF shown
<1>3. d \in Contexts
  BY <1>2 DEF Contexts, Vias
<1>4. ctx' = d
  BY DEF Remember, NextContext, shown
<1> QED
  BY <1>1, <1>3, <1>4 DEF Remember

LEMMA OfferedItems == ASSUME NEW items, NEW ps, NEW max, Offered(items, ps, max) PROVE items \subseteq Items
BY DEF Offered, Offer

LEMMA SeenTyped ==
  ASSUME NEW from \in Seen
  PROVE  /\ from.ctx \in Contexts /\ from.active \in Products \cup {None}
         /\ from.ctx.results \subseteq Items /\ from.ctx.shown \subseteq Products
         /\ ProductsOf(from.ctx.results) \subseteq Products /\ ReferencesOf(from) \subseteq Products
         /\ from.ctx.via \in Vias
<1>1. from.ctx \in Contexts /\ from.active \in Products \cup {None}
  BY DEF Seen
<1>2. from.ctx.results \subseteq Items /\ from.ctx.shown \subseteq Products /\ from.ctx.via \in Vias
  BY <1>1 DEF Contexts, Vias
<1>3. ProductsOf(from.ctx.results) \subseteq Products
  BY <1>2 DEF ProductsOf, Items
<1> QED
  BY <1>1, <1>2, <1>3 DEF ReferencesOf

\* what is typed and stays so
StillTyped ==
  /\ ctx \in Contexts /\ active \in Products \cup {None}
  /\ listed \subseteq Products /\ paged \subseteq listed

LEMMA UnreadWritten == ASSUME StillTyped, Unread PROVE Written
BY DEF StillTyped, Unread, Written

LEMMA ListsWritten ==
  ASSUME StillTyped, NEW from \in Seen, NEW t \in Topics, Lists(from, t), active' \in Products \cup {None}
  PROVE  Written
<1>1. PICK items, ps, unmet, via :
        /\ Offered(items, ps, t.max) /\ via \in {"search", "other"}
        /\ Remember(ContextFor(from.ctx, t, items, unmet, via), items, t.reset)
  BY DEF Lists
<1>2. items \subseteq Items /\ via \in Vias /\ listed \subseteq Products /\ paged \subseteq listed /\ from.ctx \in Contexts
  BY <1>1, OfferedItems, SeenTyped DEF Vias, StillTyped
<1> QED
  BY <1>1, <1>2, ListingWritten DEF Written

LEMMA ResultWritten ==
  ASSUME StillTyped, NEW from \in Seen, NEW q, q.topic \in Topics, Offered(q.items, Products, q.topic.max),
         PresentResult(from, q)
  PROVE  Written
<1> DEFINE t == q.topic
           items == q.items
<1>1. items \subseteq Items /\ "search" \in Vias /\ listed \subseteq Products /\ paged \subseteq listed /\ from.ctx \in Contexts
  BY OfferedItems, SeenTyped DEF Vias, StillTyped
<1>2. active' \in Products \cup {None}
  BY DEF PresentResult, StillTyped
<1>3. CASE q.items # {} \/ t.reset
  <2>1. PICK unmet : Remember(ContextFor(from.ctx, t, items, unmet, "search"), items, t.reset)
    BY <1>3 DEF PresentResult, Remember
  <2> DEFINE via == "search"
  <2>2. Remember(ContextFor(from.ctx, t, items, unmet, via), items, t.reset) /\ via \in Vias /\ t \in Topics
    BY <1>1, <2>1
  <2> HIDE DEF t, items, via
  <2> QED
    BY <1>1, <1>2, <2>2, ListingWritten DEF Written
<1>4. CASE q.items = {} /\ ~t.reset
  <2>1. UNCHANGED <<ctx, listed, paged>>
    BY <1>4 DEF PresentResult
  <2> QED
    BY <1>2, <2>1 DEF StillTyped, Written
<1> QED
  BY <1>3, <1>4

LEMMA RetrievalWritten ==
  ASSUME SearchAssumption, StillTyped, NEW from \in Seen, NEW t \in Topics, NEW recover \in SUBSET Topics,
         \E q \in Retrieve(t, recover) : PresentResult(from, q)
  PROVE  Written
<1>1. PICK q \in Retrieve(t, recover) : PresentResult(from, q)
  OBVIOUS
<1>2. q.topic \in Topics /\ Offered(q.items, Products, q.topic.max)
  BY RetrievedFits DEF Offered
<1> QED
  BY <1>1, <1>2, ResultWritten

LEMMA AlternativesWritten ==
  ASSUME SearchAssumption, StillTyped, NEW from \in Seen, NEW r \in Interpreted, TryAlternatives(from, r)
  PROVE  Written
<1> DEFINE m == MergeTopic(from.ctx, [r EXCEPT !.new = FALSE])
           t == [m EXCEPT !.reset = FALSE]
<1>1. Unread \/ (Lists(from, t) /\ active' = None)
  BY AlternativesList
<1>2. m \in Topics
  BY SeenTyped, ReadTopic
<1> HIDE DEF m
<1>3. t \in Topics
  BY <1>2 DEF Topics
<1> HIDE DEF t
<1> QED
  BY <1>1, <1>3, UnreadWritten, ListsWritten

LEMMA CheaperWritten ==
  ASSUME SearchAssumption, StillTyped, NEW from \in Seen, NEW r \in Interpreted, TryCheaper(from, r)
  PROVE  Written
<1> DEFINE t == CheaperTopic(from, r, AnchorsOf(from))
<1>1. IsReading(r)
  BY DEF Interpreted, IsReading
<1>2. \/ Unread
      \/ /\ AnchorsOf(from) # {} /\ t.max # 0
         /\ \/ \E q \in Retrieve(t, {}) : PresentResult(from, q)
            \/ Lists(from, t) /\ active' = None
  BY <1>1, CheaperList
<1>3. AnchorsOf(from) \in SUBSET Products /\ \A p \in AnchorsOf(from) : Eligible(p, None) # {}
  BY SeenTyped DEF AnchorsOf
<1>4. AnchorsOf(from) # {} /\ t.max # 0 => t \in Topics
  BY <1>3, SeenTyped, CheaperTopicTyped
<1> HIDE DEF t
<1>5. {} \in SUBSET Topics
  OBVIOUS
<1> QED
  BY <1>2, <1>4, <1>5, UnreadWritten, ListsWritten, RetrievalWritten

LEMMA RecommendWritten ==
  ASSUME SearchAssumption, StillTyped, NEW from \in Seen, NEW s \in Said, TryRecommend(from, s)
  PROVE  Written
<1> DEFINE shownItems == {p \in ProductsOf(from.ctx.results) : Eligible(p, None) # {}}
           cheaper == s.ask = "cheaper" /\ s.words = {} /\ shownItems # {}
           away == [from EXCEPT !.active = None]
           Topic(r) == IF cheaper THEN CheaperTopic(away, r, shownItems) ELSE MergeTopic(from.ctx, r)
<1>1. PICK r \in Interpret(s, from.ctx) : Topic(r).max # 0 /\ Lists(from, Topic(r)) /\ UNCHANGED active
  BY RecommendList
<1>2. r \in Interpreted /\ from.ctx \in Contexts
  BY ReadingsTyped, SeenTyped
<1>3. away.ctx = from.ctx
  BY DEF Seen
<1>4. shownItems \in SUBSET Products /\ \A p \in shownItems : Eligible(p, None) # {}
  BY SeenTyped
<1> HIDE DEF away, shownItems
<1>5. Topic(r) \in Topics
  <2>1. CASE cheaper
    <3>1. CheaperTopic(away, r, shownItems).max # 0
      BY <1>1, <2>1
    <3>2. CheaperTopic(away, r, shownItems) \in Topics
      BY <1>2, <1>3, <1>4, <2>1, <3>1, CheaperTopicTyped
    <3> QED
      BY <2>1, <3>2
  <2>2. CASE ~cheaper
    BY <1>2, <2>2, ReadTopic
  <2> QED
    BY <2>1, <2>2
<1>6. active' \in Products \cup {None}
  BY <1>1 DEF StillTyped
<1> HIDE DEF Topic
<1> QED
  BY <1>1, <1>5, <1>6, ListsWritten

LEMMA SearchWritten ==
  ASSUME SearchAssumption, StillTyped, NEW from \in Seen, NEW s \in Said, InterpretAndSearch(from, s)
  PROVE  Written
<1>1. CASE AnswerAboutVariant(from)
  BY <1>1, SeenTyped DEF AnswerAboutVariant, StillTyped, Written
<1>2. CASE Unread
  BY <1>2, UnreadWritten
<1>3. ASSUME NEW r \in Interpret(s, from.ctx), TryAlternatives(from, r) PROVE Written
  BY <1>3, ReadingsTyped, AlternativesWritten
<1>4. ASSUME NEW r \in Interpret(s, from.ctx), TryCheaper(from, r) PROVE Written
  BY <1>4, ReadingsTyped, CheaperWritten
<1>5. ASSUME NEW r \in Interpret(s, from.ctx),
             LET recover == IF r.ambiguous THEN {MergeTopic(from.ctx, [r EXCEPT !.new = TRUE])} ELSE {}
             IN  \E q \in Retrieve(MergeTopic(from.ctx, r), recover) : PresentResult(from, q)
      PROVE  Written
  <2> DEFINE recover == IF r.ambiguous THEN {MergeTopic(from.ctx, [r EXCEPT !.new = TRUE])} ELSE {}
             t == MergeTopic(from.ctx, r)
  <2>1. t \in Topics /\ recover \in SUBSET Topics
    BY ReadingsTyped, SeenTyped, ReadTopic
  <2>2. \E q \in Retrieve(t, recover) : PresentResult(from, q)
    BY <1>5
  <2> HIDE DEF t, recover
  <2> QED
    BY <2>1, <2>2, RetrievalWritten
<1> QED
  BY <1>1, <1>2, <1>3, <1>4, <1>5 DEF InterpretAndSearch

LEMMA BudgetWritten ==
  ASSUME StillTyped, NEW from \in Seen, NEW s \in Said, TrackBudget(from, s) PROVE Written
<1> DEFINE max == ResolveEffectiveBudgetMax(s, IF Relation(s, from.ctx).new THEN None ELSE from.ctx.max)
<1>1. max \in Prices \cup {None}
  <2>1. s.max \in Prices \cup {None} /\ from.ctx.max \in Prices \cup {None}
    BY SeenTyped DEF Said, Contexts
  <2> QED
    BY <2>1 DEF ResolveEffectiveBudgetMax
<1>2. ctx' = [from.ctx EXCEPT !.max = max, !.via = "agent"] /\ UNCHANGED <<active, listed, paged>>
  BY DEF TrackBudget
<1> HIDE DEF max
<1>3. from.ctx \in Contexts /\ "agent" \in {"none", "search", "other", "list", "agent"}
  BY SeenTyped
<1>4. [from.ctx EXCEPT !.max = max, !.via = "agent"] \in Contexts
  BY <1>1, <1>3 DEF Contexts
<1> QED
  BY <1>2, <1>4 DEF StillTyped, Written

LEMMA PlainListWritten ==
  ASSUME SearchAssumption, StillTyped, NEW from \in Seen, NEW ps \in SUBSET Products, PlainList(from, ps)
  PROVE  Written
<1> DEFINE items == {[product |-> p, variant |-> 1] : p \in ps}
           via == "list"
<1>1. items \subseteq Items
  BY VariantsAre DEF Items
<1>2. Remember(NextContext(from.ctx, items, via), items, FALSE) /\ UNCHANGED active
  BY DEF PlainList
<1>3. via \in Vias /\ from.ctx \in Contexts /\ listed \subseteq Products /\ paged \subseteq listed
  BY SeenTyped DEF Vias, StillTyped
<1> DEFINE fresh == FALSE
<1>4. Remember(NextContext(from.ctx, items, via), items, fresh)
  BY <1>2
<1> HIDE DEF items, via, fresh
<1>5. ctx' \in Contexts /\ listed' \subseteq Products /\ paged' \subseteq listed'
  BY <1>1, <1>3, <1>4, NextWritten
<1> QED
  BY <1>2, <1>5 DEF StillTyped, Written

LEMMA TopNWritten ==
  ASSUME StillTyped, NEW from \in Seen, TryTopN(from) PROVE Written
<1> DEFINE via == IF from.ctx.via = "other" THEN "search" ELSE from.ctx.via
           fresh == FALSE
<1>1. PICK S \in SUBSET from.ctx.results : Remember(NextContext(from.ctx, S, via), S, fresh) /\ UNCHANGED active
  BY DEF TryTopN
<1>2. /\ via \in Vias /\ from.ctx \in Contexts /\ S \subseteq Items
      /\ listed \subseteq Products /\ paged \subseteq listed
  BY SeenTyped DEF Vias, StillTyped
<1> HIDE DEF via, fresh
<1>3. ctx' \in Contexts /\ listed' \subseteq Products /\ paged' \subseteq listed'
  BY <1>1, <1>2, NextWritten
<1> QED
  BY <1>1, <1>3 DEF StillTyped, Written

LEMMA AnswerWritten ==
  ASSUME SearchAssumption, StillTyped, NEW from \in Seen, Answer(from) PROVE Written
<1>0. Sayings \subseteq Said
  BY DEF SearchAssumption
<1>1. ASSUME NEW s \in Sayings, InterpretAndSearch(from, s) PROVE Written
  BY <1>0, <1>1, SearchWritten
<1>2. ASSUME NEW s \in Sayings, AssistedBuying(from, s) PROVE Written
  <2>1. CASE Unread
    BY <2>1, UnreadWritten
  <2>2. CASE TryRecommend(from, s)
    BY <1>0, <2>2, RecommendWritten
  <2> QED
    BY <1>2, <2>1, <2>2 DEF AssistedBuying, TryStoreDiscovery, TryCompare
<1>3. ASSUME NEW s \in Sayings, TrackBudget(from, s) PROVE Written
  BY <1>0, <1>3, BudgetWritten
<1>4. CASE MutateCartItemInView(from)
  BY <1>4, SeenTyped DEF MutateCartItemInView, StillTyped, Written
<1>5. ASSUME NEW ps \in SUBSET Products, PlainList(from, ps) PROVE Written
  BY <1>5, PlainListWritten
<1>6. CASE TrySimilarButCheaper(from)
  <2> DEFINE ps == {q \in SameCategory(from.active) : CheapestActive(q) < CheapestActive(from.active)}
  <2>1. PlainList(from, ps)
    BY <1>6 DEF TrySimilarButCheaper
  <2>2. ps \in SUBSET Products
    BY DEF SameCategory
  <2> HIDE DEF ps
  <2> QED
    BY <1>5, <2>1, <2>2
<1>7. CASE TryMorePremium(from)
  <2> DEFINE Dearer(p) == {q \in SameCategory(p) : \E i \in DOMAIN VariantsOf[q] : VariantsOf[q][i].price > CheapestActive(p)}
  <2>1. PICK p : PlainList(from, Dearer(p))
    BY <1>7 DEF TryMorePremium
  <2>2. Dearer(p) \in SUBSET Products
    BY DEF SameCategory
  <2> HIDE DEF Dearer
  <2> QED
    BY <1>5, <2>1, <2>2
<1>8. CASE TryCrossSell(from)
  <2>1. PlainList(from, Related[from.active]) /\ from.active \in Products
    BY <1>8, SeenTyped DEF TryCrossSell
  <2>2. Related[from.active] \in SUBSET Products
    BY <2>1 DEF SearchAssumption
  <2> QED
    BY <1>5, <2>1, <2>2
<1>9. CASE ListSimilarProducts(from)
  <2>1. PICK p \in Products : PlainList(from, SameCategory(p))
    BY <1>9 DEF ListSimilarProducts
  <2>2. SameCategory(p) \in SUBSET Products
    BY DEF SameCategory
  <2> QED
    BY <1>5, <2>1, <2>2
<1>10. CASE TryCompareProducts(from)
  <2>1. PICK p \in Products, q \in Products : PlainList(from, {p, q})
    BY <1>10 DEF TryCompareProducts
  <2>2. {p, q} \in SUBSET Products
    OBVIOUS
  <2> QED
    BY <1>5, <2>1, <2>2
<1>11. CASE TryTopN(from)
  BY <1>11, TopNWritten
<1> QED
  BY <1>1, <1>2, <1>3, <1>4, <1>6, <1>7, <1>8, <1>9, <1>10, <1>11 DEF Answer

LEMMA ReadingSeen == ASSUME StillTyped PROVE SearchReading \in Seen
BY DEF StillTyped, SearchReading, Seen

LEMMA SearchTypesStart == ASSUME SearchAssumption, SearchInit PROVE SearchTypeOK
<1>1. Empty \in Contexts
  BY DEF Empty, Contexts
<1>2. 0 \in 0..MaxTurns
  BY DEF SearchAssumption
<1> QED
  BY <1>1, <1>2 DEF SearchInit, SearchTypeOK

LEMMA SearchTypesStep ==
  ASSUME SearchAssumption, SearchTypeOK, [SearchNext]_searchVars PROVE SearchTypeOK'
<1>0. StillTyped /\ searching \in {None} \cup Seen /\ overlapped \in BOOLEAN /\ turns \in 0..MaxTurns
  BY DEF SearchTypeOK, StillTyped, Seen
<1>1. Written /\ searching' \in {None} \cup Seen /\ overlapped' \in BOOLEAN /\ turns' \in 0..MaxTurns => SearchTypeOK'
  BY DEF Written, SearchTypeOK, Seen
<1>2. Counted => turns' \in 0..MaxTurns
  BY <1>0 DEF Counted, SearchAssumption
<1>3. Meanwhile => searching' \in {None} \cup Seen /\ overlapped' \in BOOLEAN
  BY <1>0 DEF Meanwhile
<1>4. CASE SearchAtOnce
  BY <1>0, <1>1, <1>2, <1>3, <1>4, ReadingSeen, AnswerWritten DEF SearchAtOnce
<1>5. CASE StartSearch
  BY <1>0, <1>1, <1>5, ReadingSeen DEF StartSearch, StillTyped, Written
<1>6. CASE FinishSearch
  <2>1. searching \in Seen /\ Answer(searching)
    BY <1>0, <1>6 DEF FinishSearch
  <2>2. Written
    BY <1>0, <2>1, AnswerWritten
  <2> QED
    BY <1>0, <1>1, <1>2, <1>6, <2>2 DEF FinishSearch
<1>7. CASE Tap
  <2>1. CASE Browse
    <3>1. Empty \in Contexts /\ ProductsOf({}) \subseteq Products
      BY DEF Empty, Contexts, ProductsOf
    <3>2. \A page \in Pages : page \subseteq Products
      BY DEF Pages
    <3>3. Written
      BY <1>0, <2>1, <3>1, <3>2
         DEF Browse, StartTopic, ShowPage, Unread, Remember, StillTyped, Written
    <3> QED
      BY <1>1, <1>2, <1>3, <1>7, <3>3 DEF Tap
  <2>2. CASE OpenProduct \/ OrderPlaced
    <3>1. Written
      BY <1>0, <2>2 DEF OpenProduct, OrderPlaced, StillTyped, Written
    <3> QED
      BY <1>1, <1>2, <1>3, <1>7, <3>1 DEF Tap
  <2> QED
    BY <1>7, <2>1, <2>2 DEF Tap
<1>8. CASE UNCHANGED searchVars
  BY <1>0, <1>1, <1>8 DEF searchVars, StillTyped, Written
<1> QED
  BY <1>4, <1>5, <1>6, <1>7, <1>8 DEF SearchNext

\* Every search variable has its type: a ceiling, the ones a "cheaper" derived included, is a price of the catalogue.
THEOREM SearchTypes == SearchSpec => []SearchTypeOK
<1>1. SearchInit => SearchTypeOK
  BY SearchAssumption, SearchTypesStart
<1>2. SearchTypeOK /\ [SearchNext]_searchVars => SearchTypeOK'
  BY SearchAssumption, SearchTypesStep
<1> QED
  BY <1>1, <1>2, PTL DEF SearchSpec
=============================================================================
