-------------------------- MODULE CatalogueImport --------------------------
(***************************************************************************)
(* One catalogue import: the file's rows, their validation, the merchant's *)
(* review of them and the commit that makes products and variants of them  *)
(* (import.service.ts, validate-row.ts), next to a merchant who edits the  *)
(* catalogue by hand. A commit runs row by row, outside any transaction,   *)
(* and may be asked for twice, fail or die midway.                         *)
(*                                                                         *)
(* Of a row's fields the SKU and whether the others are valid matter. The  *)
(* stock an updated variant gets is a change of module StockAlerts.        *)
(***************************************************************************)
EXTENDS Naturals, FiniteSets

CONSTANTS
  Rows, Names, Skus,
  NoSku,       \* the row has no SKU
  Files,       \* the contents a file may have, edited or not: a subset of [Rows -> Data]
  Commits,     \* requests to commit
  MaxEdits     \* bound: edits of rows

Data == [sku : Skus \cup {NoSku}, valid : BOOLEAN]

ASSUME ImportAssumption ==
  /\ MaxEdits \in Nat /\ NoSku \notin Rows \cup Skus
  /\ Files \subseteq [Rows -> Data]

VARIABLES
  job,         \* ImportJob.status
  nameOf,      \* the product name of each row
  rows,        \* the ImportRow rows; times: how often a variant was made or updated from it
  known,       \* SKUs of the catalogue's variants
  made,        \* products created under each name
  editing,     \* the row an edit in flight is about, or NoSku
  edits,       \* edits begun, up to MaxEdits
  cancelling,  \* the cancel: "no", in flight after it saw a job that was not completed ("yes"), or "done"
  commit,      \* the commit requests; seen is what they read of the eligible rows
  raced        \* history: two requests read the job before either claimed it

importVars == <<job, nameOf, rows, known, made, editing, edits, cancelling, commit, raced>>

DuplicateSku(data, r) == data[r].sku # NoSku /\ \E q \in Rows \ {r} : data[q].sku = data[r].sku

\* an error skips the row; a SKU of the catalogue means an update
ValidateRow(data, r) ==
  IF ~data[r].valid \/ DuplicateSku(data, r) THEN [status |-> "ERROR", action |-> "SKIP", matched |-> FALSE]
  ELSE IF data[r].sku \in known THEN [status |-> "WARNING", action |-> "UPDATE", matched |-> TRUE]
  ELSE [status |-> "READY", action |-> "CREATE", matched |-> FALSE]

Validated(data, times) ==
  [r \in Rows |->
     LET outcome == ValidateRow(data, r)
     IN  [data |-> data[r], times |-> times[r], status |-> outcome.status,
          action |-> outcome.action, matched |-> outcome.matched]]

Request(pc) == [pc |-> pc, seen |-> <<>>, todo |-> {}, group |-> NoSku]

ImportInit ==
  /\ job = "PENDING" /\ nameOf \in [Rows -> Names]
  /\ rows = <<>> /\ known \in SUBSET Skus /\ made = [n \in Names |-> 0]
  /\ editing = NoSku /\ edits = 0 /\ cancelling = "no" /\ raced = FALSE
  /\ commit = [b \in Commits |-> Request("idle")]

\* create(): the rows of the file, validated; then the job is up for review
PersistAndValidateRows ==
  /\ job = "PENDING" /\ rows = <<>>
  /\ \E data \in Files : rows' = Validated(data, [r \in Rows |-> 0])
  /\ job' = "READY_FOR_REVIEW"
  /\ UNCHANGED <<nameOf, known, made, editing, edits, cancelling, commit, raced>>

\* the merchant corrects or resolves one row; every row is validated anew and loses an earlier resolution
BeginEdit(r) ==
  /\ job = "READY_FOR_REVIEW" /\ editing = NoSku /\ edits < MaxEdits
  /\ editing' = r /\ edits' = edits + 1
  /\ UNCHANGED <<job, nameOf, rows, known, made, cancelling, commit, raced>>

UpdateRow(r) ==
  /\ editing = r
  /\ \E d \in {data[r] : data \in Files} :
       LET again == Validated([q \in Rows |-> IF q = r THEN d ELSE rows[q].data], [q \in Rows |-> rows[q].times])
       IN \E a \in {again[r].action, "SKIP", "CREATE", "UPDATE"} : rows' = [again EXCEPT ![r].action = a]
  /\ editing' = NoSku
  /\ UNCHANGED <<job, nameOf, known, made, edits, cancelling, commit, raced>>

\* a product made by hand
CreateProduct(s) ==
  /\ s \notin known /\ known' = known \cup {s}
  /\ UNCHANGED <<job, nameOf, rows, made, editing, edits, cancelling, commit, raced>>

-----------------------------------------------------------------------------
EligibleRows == {r \in Rows : rows[r].status # "ERROR" /\ rows[r].action # "SKIP"}

\* what a request needs of the rows it read
Plan == [r \in EligibleRows |-> [sku |-> rows[r].data.sku, update |-> rows[r].action = "UPDATE" /\ rows[r].matched]]

ReadJob(b) ==
  /\ commit[b].pc = "idle" /\ job = "READY_FOR_REVIEW"
  /\ commit' = [commit EXCEPT ![b].pc = "claim", ![b].seen = Plan]
  /\ raced' = (raced \/ \E e \in Commits \ {b} : commit[e].pc = "claim")
  /\ UNCHANGED <<job, nameOf, rows, known, made, editing, edits, cancelling>>

ClaimAs(b, status) ==
  /\ commit[b].pc = "claim"
  /\ job' = status
  /\ commit' = [commit EXCEPT ![b].pc = "group", ![b].todo = DOMAIN commit[b].seen]
  /\ UNCHANGED <<nameOf, rows, known, made, editing, edits, cancelling, raced>>
ClaimInName(b) == ClaimAs(b, job)
ClaimJob(b) == ClaimAs(b, "COMMITTING")

\* rows of one name make one product: the one a row matched, or a new draft
CommitGroup(b) ==
  /\ commit[b].pc = "group"
  /\ \E n \in {nameOf[r] : r \in commit[b].todo} :
       /\ commit' = [commit EXCEPT ![b].pc = "rows", ![b].group = n]
       /\ made' = IF \E r \in commit[b].todo : nameOf[r] = n /\ commit[b].seen[r].update
                  THEN made ELSE [made EXCEPT ![n] = @ + 1]
  /\ UNCHANGED <<job, nameOf, rows, known, editing, edits, cancelling, raced>>

\* a row updates the first variant of the product it matched, or makes a variant, whose SKU the database keeps unique
CommitRow(b) ==
  /\ commit[b].pc = "rows"
  /\ \E r \in commit[b].todo :
       LET row == commit[b].seen[r]
           left == commit[b].todo \ {r}
       IN /\ nameOf[r] = commit[b].group
          /\ IF ~row.update /\ row.sku \in known
             THEN commit' = [commit EXCEPT ![b] = Request("done")] /\ UNCHANGED <<rows, known>>
             ELSE /\ rows' = [rows EXCEPT ![r].times = @ + 1]
                  /\ known' = known \cup ({row.sku} \ {NoSku})
                  /\ commit' = [commit EXCEPT ![b].todo = left,
                       ![b].pc = IF \E q \in left : nameOf[q] = commit[b].group THEN "rows" ELSE "group"]
  /\ UNCHANGED <<job, nameOf, made, editing, edits, cancelling, raced>>

CompleteJob(b) ==
  /\ commit[b].pc = "group" /\ commit[b].todo = {}
  /\ job' = "COMPLETED"
  /\ commit' = [commit EXCEPT ![b] = Request("done")]
  /\ UNCHANGED <<nameOf, rows, known, made, editing, edits, cancelling, raced>>

\* an error or a crash leaves the job as it is
CommitDies(b) ==
  /\ commit[b].pc \notin {"idle", "done"}
  /\ commit' = [commit EXCEPT ![b] = Request("done")]
  /\ UNCHANGED <<job, nameOf, rows, known, made, editing, edits, cancelling, raced>>

\* cancel() looks at the status, then writes it
ReadForCancel ==
  /\ job # "COMPLETED" /\ cancelling = "no" /\ cancelling' = "yes"
  /\ UNCHANGED <<job, nameOf, rows, known, made, editing, edits, commit, raced>>
Cancel ==
  /\ cancelling = "yes" /\ cancelling' = "done" /\ job' = "CANCELLED"
  /\ UNCHANGED <<nameOf, rows, known, made, editing, edits, commit, raced>>

ImportNext ==
  \/ PersistAndValidateRows
  \/ \E r \in Rows : BeginEdit(r) \/ UpdateRow(r)
  \/ \E s \in Skus : CreateProduct(s)
  \/ \E b \in Commits :
       ReadJob(b) \/ ClaimJob(b) \/ CommitGroup(b) \/ CommitRow(b) \/ CompleteJob(b) \/ CommitDies(b)
  \/ ReadForCancel \/ Cancel

ImportSpec == ImportInit /\ [][ImportNext]_importVars

ImportTypeOK ==
  /\ job \in {"PENDING", "READY_FOR_REVIEW", "COMMITTING", "COMPLETED", "CANCELLED"}
  /\ known \subseteq Skus /\ editing \in Rows \cup {NoSku}
  /\ rows # <<>> => \A r \in Rows : rows[r].action \in {"CREATE", "UPDATE", "SKIP"}
  /\ \A b \in Commits : commit[b].todo \subseteq Rows

\* No row becomes two variants and no name two products of one import, though a commit may be repeated after it failed
\* or died, a row may have no SKU and names are not unique: unless two requests read the job before either claimed it
\* (import.service.ts 176-181).
RowsImportedOnce ==
  ~raced => (\A n \in Names : made[n] <= 1) /\ (rows # <<>> => \A r \in Rows : rows[r].times <= 1)
=============================================================================
