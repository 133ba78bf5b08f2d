--------------------------- MODULE StorefrontProofs ---------------------------
(***************************************************************************)
(* The conversation's side of the storefront, for every value of the       *)
(* constants: proactive messages, the button-driven shop and the intake of *)
(* messages, one section each; the last section carries these theorems and *)
(* those of CatalogueProofs to the specification the runs check.           *)
(***************************************************************************)
EXTENDS MCStorefront, CatalogueProofs

(***************************************************************************)
(* Proactive messages: what counts as sent was sent, and the cart's job    *)
(* keeps to one suggestion however often it runs.                          *)
(***************************************************************************)
MakerKinds == Sources \cup ApiKinds
MakerPcs == {"idle", "check", "find", "create", "autoSend", "mark", "nudge", "record", "done"}
OppRow == [kind : MakerKinds, status : OppStatuses, told : BOOLEAN, order : BOOLEAN, kept : BOOLEAN]
MakerSlot == [kind : MakerKinds, pc : MakerPcs, opp : Nat, tries : 0..MaxTries]
SenderSlot == [pc : {"idle", "send", "mark", "done"}, opp : Nat]
CreditSlot == [pc : {"idle", "write", "done"}, opp : Nat]

\* every run that works on a row has one
OutreachTyped ==
  /\ cart \in {"ACTIVE", "CHECKED_OUT"} /\ nudges \in Nat
  /\ rule \in [proactive : BOOLEAN, autoSend : BOOLEAN]
  /\ opps \in Seq(OppRow) /\ Len(opps) <= MaxOpps
  /\ maker \in [Makers -> MakerSlot]
  /\ sender \in [Senders -> SenderSlot]
  /\ credit \in [Orders -> CreditSlot]
  /\ \A k \in Makers : maker[k].opp \in 0..Len(opps)
  /\ \A k \in Makers : maker[k].pc \in {"autoSend", "mark"} => maker[k].opp \in DOMAIN opps
  /\ \A s \in Senders : sender[s].pc \in {"send", "mark"} => sender[s].opp \in DOMAIN opps
  /\ \A o \in Orders : credit[o].pc = "write" => credit[o].opp \in DOMAIN opps

\* who is about to mark or credit a row has seen its message go out
ToldBefore ==
  /\ FunnelIsTrue
  /\ \A k \in Makers : maker[k].pc = "mark" => opps[maker[k].opp].told
  /\ \A s \in Senders : sender[s].pc = "mark" => opps[sender[s].opp].told
  /\ \A o \in Orders : credit[o].pc = "write" => opps[credit[o].opp].told

\* the cart has one job, which looks for a live suggestion before it makes one
OneCartJob == \A k, l \in Makers : maker[k].kind = "cartJob" /\ maker[l].kind = "cartJob" => k = l
NudgedOnce ==
  cart = "ACTIVE" =>
    /\ \A i \in Nudges : opps[i].status \in LiveStatuses
    /\ \A i, j \in Nudges : i = j
    /\ \A k \in Makers : maker[k].kind = "cartJob" /\ maker[k].pc = "create" => Nudges = {}

\* each attempt of the cart's job sends one message at most
SlotCounted(slot, sent) ==
  /\ slot.pc \in {"nudge", "record"} => slot.kind = "cartJob"
  /\ slot.kind = "cartJob" /\ slot.pc = "idle" => sent <= MaxTries - slot.tries
  /\ slot.kind = "cartJob" /\ slot.pc \notin {"idle", "done"} =>
       slot.tries > 0 /\ sent <= MaxTries - slot.tries + (IF slot.pc = "record" THEN 1 ELSE 0)
NudgesCounted == nudges <= MaxTries /\ \A k \in Makers : SlotCounted(maker[k], nudges)

OutreachInv == OutreachTyped /\ ToldBefore /\ OneCartJob /\ NudgedOnce /\ NudgesCounted

LEMMA RowReplaced ==
  ASSUME NEW S, NEW s \in Seq(S), NEW i \in DOMAIN s, NEW x \in S, NEW t, t = [s EXCEPT ![i] = x]
  PROVE  /\ t \in Seq(S) /\ Len(t) = Len(s) /\ DOMAIN t = DOMAIN s
         /\ t[i] = x /\ \A j \in DOMAIN s \ {i} : t[j] = s[j]
OBVIOUS

LEMMA RowsMapped ==
  ASSUME NEW S, NEW s \in Seq(S), NEW t \in [DOMAIN s -> S]
  PROVE  t \in Seq(S) /\ Len(t) = Len(s) /\ DOMAIN t = DOMAIN s
<1>1. DOMAIN s = 1..Len(s) /\ Len(s) \in Nat
  OBVIOUS
<1>2. t \in [1..Len(s) -> S]
  BY <1>1
<1> QED
  BY <1>1, <1>2

LEMMA RowAppended ==
  ASSUME NEW S, NEW s \in Seq(S), NEW x \in S, NEW t, t = Append(s, x)
  PROVE  /\ t \in Seq(S) /\ Len(t) = Len(s) + 1 /\ DOMAIN t = DOMAIN s \cup {Len(s) + 1}
         /\ t[Len(s) + 1] = x /\ \A j \in DOMAIN s : t[j] = s[j]
OBVIOUS

LEMMA OutreachStarts == ASSUME OutreachAssumption, OutreachInit PROVE OutreachInv
<1> USE DEF OutreachInit
<1>1. PICK kinds \in Kinds :
        maker = [k \in Makers |-> [kind |-> kinds[k], pc |-> "idle", opp |-> 0, tries |-> MaxTries]]
  OBVIOUS
<1>2. kinds \in [Makers -> Sources] /\ MaxTries \in Nat /\ MaxOpps \in Nat
  BY <1>1 DEF OutreachAssumption
<1>3. maker \in [Makers -> MakerSlot] /\ \A k \in Makers : maker[k].pc = "idle" /\ maker[k].opp = 0 /\ maker[k].tries = MaxTries
  BY <1>1, <1>2 DEF MakerSlot, MakerKinds, MakerPcs
<1>4. sender \in [Senders -> SenderSlot] /\ \A s \in Senders : sender[s].pc = "idle"
  BY DEF SenderSlot
<1>5. credit \in [Orders -> CreditSlot] /\ \A o \in Orders : credit[o].pc = "idle"
  BY DEF CreditSlot
<1>6. opps \in Seq(OppRow) /\ Len(opps) = 0 /\ DOMAIN opps = {}
  OBVIOUS
<1>7. OutreachTyped
  BY <1>2, <1>3, <1>4, <1>5, <1>6 DEF OutreachTyped
<1>8. ToldBefore
  BY <1>3, <1>4, <1>5, <1>6 DEF ToldBefore, FunnelIsTrue
<1>9. OneCartJob
  BY <1>1, <1>2 DEF OneCartJob, OutreachAssumption
<1>10. NudgedOnce
  BY <1>6 DEF NudgedOnce, Nudges
<1>11. NudgesCounted
  BY <1>2, <1>3 DEF NudgesCounted, SlotCounted
<1> QED
  BY <1>7, <1>8, <1>9, <1>10, <1>11 DEF OutreachInv

\* what a step may make of a row: what was told, credited or overruled stays so, what counts as sent was
\* sent, and while the cart is open nothing but the merchant and an order ends a nudge
RowLater(old, new) ==
  /\ new \in OppRow
  /\ new.kind = old.kind /\ (old.told => new.told) /\ (old.order => new.order)
  /\ old.kind = "cartJob" /\ new.kept => old.kept
  /\ new.status \in {"SENT", "CONVERTED"} => new.told
  /\ cart = "ACTIVE" /\ new.kind = "cartJob" /\ new.kept /\ ~new.order /\ old.status \in LiveStatuses =>
       new.status \in LiveStatuses
RowsGrow ==
  /\ opps' \in Seq(OppRow) /\ Len(opps') <= MaxOpps
  /\ Len(opps) \in Nat /\ Len(opps') \in Nat /\ Len(opps) <= Len(opps')
  /\ DOMAIN opps = 1..Len(opps) /\ DOMAIN opps' = 1..Len(opps')
  /\ \A i \in DOMAIN opps : RowLater(opps[i], opps'[i])
  /\ \A i \in DOMAIN opps' \ DOMAIN opps : opps'[i].status = "NEW"

LEMMA RowsStay ==
  ASSUME OutreachTyped, FunnelIsTrue, opps' = opps PROVE RowsGrow
<1>1. opps \in Seq(OppRow) /\ Len(opps) <= MaxOpps
  BY DEF OutreachTyped
<1>2. \A i \in DOMAIN opps : opps[i] \in OppRow
  BY <1>1
<1>3. \A i \in DOMAIN opps : RowLater(opps[i], opps[i])
  BY <1>2 DEF RowLater, FunnelIsTrue, CountedAsSent
<1>4. Len(opps) \in Nat /\ DOMAIN opps = 1..Len(opps)
  BY <1>1
<1> QED
  BY <1>1, <1>3, <1>4 DEF RowsGrow

LEMMA RowsChanged ==
  ASSUME OutreachTyped, opps' \in [DOMAIN opps -> OppRow],
         \A i \in DOMAIN opps : RowLater(opps[i], opps'[i])
  PROVE  RowsGrow
<1>1. opps \in Seq(OppRow) /\ Len(opps) <= MaxOpps
  BY DEF OutreachTyped
<1>2. opps' \in Seq(OppRow) /\ Len(opps') = Len(opps) /\ DOMAIN opps' = DOMAIN opps
  BY <1>1, RowsMapped
<1>3. Len(opps) \in Nat /\ DOMAIN opps = 1..Len(opps)
  BY <1>1
<1> QED
  BY <1>1, <1>2, <1>3 DEF RowsGrow

LEMMA RowUpdated ==
  ASSUME OutreachTyped, FunnelIsTrue, NEW i \in DOMAIN opps, NEW row, RowLater(opps[i], row),
         opps' = [opps EXCEPT ![i] = row]
  PROVE  RowsGrow
<1>1. opps \in Seq(OppRow)
  BY DEF OutreachTyped
<1>2. \A j \in DOMAIN opps : opps[j] \in OppRow
  BY <1>1
<1>3. row \in OppRow
  BY DEF RowLater
<1>4. opps' \in [DOMAIN opps -> OppRow]
  BY <1>1, <1>2, <1>3
<1>5. \A j \in DOMAIN opps : RowLater(opps[j], opps[j])
  BY <1>2 DEF RowLater, FunnelIsTrue, CountedAsSent
<1>6. \A j \in DOMAIN opps : RowLater(opps[j], opps'[j])
  BY <1>1, <1>5
<1> QED
  BY <1>4, <1>6, RowsChanged

\* the message of a row goes out
LEMMA RowTold ==
  ASSUME OutreachTyped, FunnelIsTrue, NEW i \in DOMAIN opps, opps' = [opps EXCEPT ![i].told = TRUE]
  PROVE  RowsGrow /\ opps'[i].told
<1>1. opps \in Seq(OppRow) /\ opps[i] \in OppRow
  BY DEF OutreachTyped
<1> DEFINE row == [opps[i] EXCEPT !.told = TRUE]
<1>2. row \in OppRow /\ row.kind = opps[i].kind /\ row.status = opps[i].status /\ row.told
  BY <1>1 DEF OppRow
<1>3. row.order = opps[i].order /\ row.kept = opps[i].kept
  BY <1>1 DEF OppRow
<1>4. opps' = [opps EXCEPT ![i] = row]
  OBVIOUS
<1> HIDE DEF row
<1>5. RowLater(opps[i], row)
  BY <1>2, <1>3 DEF RowLater
<1>6. opps'[i] = row
  BY <1>1, <1>4
<1> QED
  BY <1>2, <1>4, <1>5, <1>6, RowUpdated

\* a row gets a live status that it may have
LEMMA RowMarked ==
  ASSUME OutreachTyped, FunnelIsTrue, NEW i \in DOMAIN opps, NEW status \in LiveStatuses,
         opps' = [opps EXCEPT ![i].status = status], status = "SENT" => opps[i].told
  PROVE  RowsGrow
<1>1. opps \in Seq(OppRow) /\ opps[i] \in OppRow
  BY DEF OutreachTyped
<1> DEFINE row == [opps[i] EXCEPT !.status = status]
<1>2. row \in OppRow /\ row.kind = opps[i].kind /\ row.status = status
  BY <1>1 DEF OppRow, OppStatuses
<1>3. row.told = opps[i].told /\ row.order = opps[i].order /\ row.kept = opps[i].kept
  BY <1>1 DEF OppRow
<1>4. opps' = [opps EXCEPT ![i] = row]
  OBVIOUS
<1> HIDE DEF row
<1>5. RowLater(opps[i], row)
  BY <1>2, <1>3 DEF RowLater, LiveStatuses
<1> QED
  BY <1>4, <1>5, RowUpdated

LEMMA RowOverruled ==
  ASSUME OutreachTyped, FunnelIsTrue, NEW i \in DOMAIN opps, NEW status \in {"DISMISSED", "SNOOZED"},
         Overrule(i, status)
  PROVE  RowsGrow
<1>1. opps \in Seq(OppRow) /\ opps[i] \in OppRow
  BY DEF OutreachTyped
<1> DEFINE row == [opps[i] EXCEPT !.status = status, !.kept = opps[i].kind # "cartJob"]
<1>2. row \in OppRow /\ row.kind = opps[i].kind /\ row.status = status
  BY <1>1 DEF OppRow, OppStatuses, LiveStatuses
<1>3. row.told = opps[i].told /\ row.order = opps[i].order
  BY <1>1 DEF OppRow
<1>4. row.kept = (opps[i].kind # "cartJob")
  BY <1>1 DEF OppRow
<1>5. opps' = [opps EXCEPT ![i] = row]
  BY DEF Overrule
<1> HIDE DEF row
<1>6. RowLater(opps[i], row)
  BY <1>2, <1>3, <1>4 DEF RowLater, LiveStatuses
<1> QED
  BY <1>5, <1>6, RowUpdated

\* an order is credited to a row whose message went out
LEMMA RowCredited ==
  ASSUME OutreachTyped, FunnelIsTrue, NEW i \in DOMAIN opps, opps[i].told,
         opps' = [opps EXCEPT ![i].order = TRUE, ![i].status = "CONVERTED"]
  PROVE  RowsGrow
<1>1. opps \in Seq(OppRow) /\ opps[i] \in OppRow
  BY DEF OutreachTyped
<1> DEFINE row == [opps[i] EXCEPT !.order = TRUE, !.status = "CONVERTED"]
<1>2. row \in OppRow /\ row.kind = opps[i].kind /\ row.order
  BY <1>1 DEF OppRow, OppStatuses
<1>3. row.told = opps[i].told /\ row.kept = opps[i].kept
  BY <1>1 DEF OppRow
<1>4. opps' = [opps EXCEPT ![i] = row]
  OBVIOUS
<1> HIDE DEF row
<1>5. RowLater(opps[i], row)
  BY <1>2, <1>3 DEF RowLater
<1> QED
  BY <1>4, <1>5, RowUpdated

\* suggestions of one kind that end without a message
LEMMA RowsEnded ==
  ASSUME OutreachTyped, FunnelIsTrue, NEW T, NEW status \in {"DISMISSED", "EXPIRED"},
         opps' = [i \in DOMAIN opps |-> IF i \in T THEN [opps[i] EXCEPT !.status = status] ELSE opps[i]],
         cart = "ACTIVE" => \A i \in T : opps[i].kind # "cartJob"
  PROVE  RowsGrow
<1>1. opps \in Seq(OppRow) /\ \A i \in DOMAIN opps : opps[i] \in OppRow
  BY DEF OutreachTyped
<1>2. ASSUME NEW i \in DOMAIN opps PROVE opps'[i] \in OppRow /\ RowLater(opps[i], opps'[i])
  <2>1. CASE i \notin T
    <3>1. opps'[i] = opps[i]
      BY <2>1
    <3> QED
      BY <1>1, <3>1 DEF RowLater, FunnelIsTrue, CountedAsSent
  <2>2. CASE i \in T
    <3> DEFINE row == [opps[i] EXCEPT !.status = status]
    <3>1. row \in OppRow /\ row.kind = opps[i].kind /\ row.status = status
      BY <1>1 DEF OppRow, OppStatuses, LiveStatuses
    <3>2. row.told = opps[i].told /\ row.order = opps[i].order /\ row.kept = opps[i].kept
      BY <1>1 DEF OppRow
    <3>3. opps'[i] = row
      BY <2>2
    <3> HIDE DEF row
    <3> QED
      BY <2>2, <3>1, <3>2, <3>3 DEF RowLater
  <2> QED
    BY <2>1, <2>2
<1>3. opps' \in [DOMAIN opps -> OppRow]
  BY <1>2
<1> QED
  BY <1>2, <1>3, RowsChanged

\* what a step may make of a run
MakerMay(k, x) ==
  /\ x \in MakerSlot
  /\ x.opp \in 0..Len(opps')
  /\ x.pc \in {"autoSend", "mark"} => x.opp \in DOMAIN opps'
  /\ x.pc = "mark" => opps'[x.opp].told
  /\ x.kind = "cartJob" <=> maker[k].kind = "cartJob"

LEMMA FunnelStaysTrue ==
  ASSUME OutreachTyped, RowsGrow PROVE FunnelIsTrue'
<1>1. ASSUME NEW i \in DOMAIN opps', CountedAsSent(i)' PROVE opps'[i].told
  <2>1. i \in DOMAIN opps
    BY <1>1 DEF RowsGrow, CountedAsSent
  <2>2. RowLater(opps[i], opps'[i])
    BY <2>1 DEF RowsGrow
  <2> QED
    BY <1>1, <2>2 DEF RowLater, CountedAsSent
<1> QED
  BY <1>1 DEF FunnelIsTrue, CountedAsSent

\* the rows that runs work on are there and stay told
LEMMA TellingStays ==
  ASSUME OutreachTyped, ToldBefore, RowsGrow
  PROVE  /\ \A k \in Makers : MakerMay(k, maker[k])
         /\ \A s \in Senders : /\ sender[s].pc \in {"send", "mark"} => sender[s].opp \in DOMAIN opps'
                               /\ sender[s].pc = "mark" => opps'[sender[s].opp].told
         /\ \A o \in Orders : credit[o].pc = "write" => /\ credit[o].opp \in DOMAIN opps'
                                                         /\ opps'[credit[o].opp].told
<1>1. DOMAIN opps \subseteq DOMAIN opps' /\ Len(opps) <= Len(opps') /\ Len(opps) \in Nat /\ Len(opps') \in Nat
  BY DEF RowsGrow
<1>2. \A i \in DOMAIN opps : opps[i].told => opps'[i].told
  BY DEF RowsGrow, RowLater
<1>3. ASSUME NEW k \in Makers PROVE MakerMay(k, maker[k])
  <2>1. maker[k] \in MakerSlot /\ maker[k].opp \in 0..Len(opps)
    BY DEF OutreachTyped
  <2>2. maker[k].pc \in {"autoSend", "mark"} => maker[k].opp \in DOMAIN opps
    BY DEF OutreachTyped
  <2>3. maker[k].pc = "mark" => opps[maker[k].opp].told
    BY DEF ToldBefore
  <2> QED
    BY <1>1, <1>2, <2>1, <2>2, <2>3 DEF MakerMay
<1>4. \A s \in Senders : /\ sender[s].pc \in {"send", "mark"} => sender[s].opp \in DOMAIN opps'
                         /\ sender[s].pc = "mark" => opps'[sender[s].opp].told
  BY <1>1, <1>2 DEF OutreachTyped, ToldBefore
<1>5. \A o \in Orders : credit[o].pc = "write" => /\ credit[o].opp \in DOMAIN opps'
                                                   /\ opps'[credit[o].opp].told
  BY <1>1, <1>2 DEF OutreachTyped, ToldBefore
<1> QED
  BY <1>3, <1>4, <1>5

LEMMA MakerMoves ==
  ASSUME OutreachInv, RowsGrow, NEW k \in Makers, NEW x, MakerMay(k, x),
         maker' = [maker EXCEPT ![k] = x], UNCHANGED <<rule, cart, sender, credit>>,
         nudges' \in Nat, nudges' <= MaxTries, SlotCounted(x, nudges'),
         nudges' = nudges \/ maker[k].kind = "cartJob"
  PROVE  OutreachTyped' /\ ToldBefore' /\ OneCartJob' /\ NudgesCounted'
<1>1. OutreachTyped /\ ToldBefore /\ OneCartJob /\ NudgesCounted
  BY DEF OutreachInv
<1>2. /\ maker \in [Makers -> MakerSlot] /\ x \in MakerSlot
      /\ maker' \in [Makers -> MakerSlot]
      /\ maker'[k] = x /\ \A l \in Makers \ {k} : maker'[l] = maker[l]
  BY <1>1 DEF OutreachTyped, MakerMay
<1>3. \A l \in Makers : MakerMay(l, maker'[l])
  BY <1>1, <1>2, TellingStays
<1>4. OutreachTyped'
  <2>1. opps' \in Seq(OppRow) /\ Len(opps') <= MaxOpps
    BY DEF RowsGrow
  <2>2. /\ \A l \in Makers : maker'[l].opp \in 0..Len(opps')
        /\ \A l \in Makers : maker'[l].pc \in {"autoSend", "mark"} => maker'[l].opp \in DOMAIN opps'
    BY <1>3 DEF MakerMay
  <2>3. /\ \A s \in Senders : sender'[s].pc \in {"send", "mark"} => sender'[s].opp \in DOMAIN opps'
        /\ \A o \in Orders : credit'[o].pc = "write" => credit'[o].opp \in DOMAIN opps'
    BY <1>1, TellingStays
  <2>4. /\ cart' \in {"ACTIVE", "CHECKED_OUT"} /\ rule' \in [proactive : BOOLEAN, autoSend : BOOLEAN]
        /\ sender' \in [Senders -> SenderSlot] /\ credit' \in [Orders -> CreditSlot]
    BY <1>1 DEF OutreachTyped
  <2> QED
    BY <1>2, <2>1, <2>2, <2>3, <2>4 DEF OutreachTyped
<1>5. ToldBefore'
  <2>1. \A l \in Makers : maker'[l].pc = "mark" => opps'[maker'[l].opp].told
    BY <1>3 DEF MakerMay
  <2>2. /\ \A s \in Senders : sender'[s].pc = "mark" => opps'[sender'[s].opp].told
        /\ \A o \in Orders : credit'[o].pc = "write" => opps'[credit'[o].opp].told
    BY <1>1, TellingStays
  <2>3. FunnelIsTrue'
    BY <1>1, FunnelStaysTrue
  <2> QED
    BY <2>1, <2>2, <2>3 DEF ToldBefore
<1>6. OneCartJob'
  <2>1. \A l \in Makers : maker'[l].kind = "cartJob" <=> maker[l].kind = "cartJob"
    BY <1>3 DEF MakerMay
  <2> QED
    BY <1>1, <2>1 DEF OneCartJob
<1>7. NudgesCounted'
  <2>1. ASSUME NEW l \in Makers \ {k} PROVE SlotCounted(maker[l], nudges')
    <3>1. SlotCounted(maker[l], nudges)
      BY <1>1 DEF NudgesCounted
    <3>2. CASE nudges' = nudges
      BY <3>1, <3>2
    <3>3. CASE maker[k].kind = "cartJob"
      <4>1. maker[l].kind # "cartJob"
        BY <1>1, <3>3 DEF OneCartJob
      <4> QED
        BY <3>1, <4>1 DEF SlotCounted
    <3> QED
      BY <3>2, <3>3
  <2>2. \A l \in Makers : SlotCounted(maker'[l], nudges')
    BY <1>2, <2>1
  <2> QED
    BY <2>2 DEF NudgesCounted
<1> QED
  BY <1>4, <1>5, <1>6, <1>7

\* the live suggestions about an open cart stay what they were
LEMMA NudgesStay ==
  ASSUME OutreachTyped, NudgedOnce, RowsGrow, cart = "ACTIVE", NEW i \in DOMAIN opps, i \in Nudges'
  PROVE  i \in Nudges /\ opps'[i].status \in LiveStatuses
<1>1. RowLater(opps[i], opps'[i])
  BY DEF RowsGrow
<1>2. opps'[i].kind = "cartJob" /\ opps'[i].kept /\ ~opps'[i].order
  BY DEF Nudges
<1>3. i \in Nudges
  BY <1>1, <1>2 DEF RowLater, Nudges
<1>4. opps[i].status \in LiveStatuses
  BY <1>3 DEF NudgedOnce
<1> QED
  BY <1>1, <1>2, <1>3, <1>4 DEF RowLater

LEMMA NudgedOnceStays ==
  ASSUME OutreachTyped, NudgedOnce, RowsGrow, DOMAIN opps' = DOMAIN opps, cart' = "ACTIVE" => cart = "ACTIVE",
         \A k \in Makers :
           cart' = "ACTIVE" /\ maker'[k].kind = "cartJob" /\ maker'[k].pc = "create" =>
             Nudges = {} \/ (maker[k].kind = "cartJob" /\ maker[k].pc = "create")
  PROVE  NudgedOnce'
<1> SUFFICES ASSUME cart' = "ACTIVE"
             PROVE  /\ \A i \in Nudges' : opps'[i].status \in LiveStatuses
                    /\ \A i, j \in Nudges' : i = j
                    /\ \A k \in Makers : maker'[k].kind = "cartJob" /\ maker'[k].pc = "create" => Nudges' = {}
  BY DEF NudgedOnce
<1>1. \A i \in Nudges' : i \in DOMAIN opps
  BY DEF Nudges
<1>2. \A i \in Nudges' : i \in Nudges /\ opps'[i].status \in LiveStatuses
  BY <1>1, NudgesStay
<1>3. \A i, j \in Nudges : i = j
  BY DEF NudgedOnce
<1>4. ASSUME NEW k \in Makers, maker'[k].kind = "cartJob", maker'[k].pc = "create" PROVE Nudges = {}
  BY <1>4 DEF NudgedOnce
<1> QED
  BY <1>2, <1>3, <1>4

LEMMA FinishedMaker ==
  ASSUME OutreachInv, NEW k \in Makers
  PROVE  /\ Finished(k) \in MakerSlot /\ Finished(k).pc = "done" /\ Finished(k).opp = 0
         /\ Finished(k).kind = "cartJob" <=> maker[k].kind = "cartJob"
<1>1. maker[k] \in MakerSlot
  BY DEF OutreachInv, OutreachTyped
<1> QED
  BY <1>1 DEF Finished, MakerSlot, MakerKinds, MakerPcs, ApiKinds, Sources

LEMMA MakerWorks ==
  ASSUME OutreachInv, RowsGrow, DOMAIN opps' = DOMAIN opps, NEW k \in Makers, NEW x, MakerMay(k, x),
         maker' = [maker EXCEPT ![k] = x], UNCHANGED <<rule, cart, sender, credit>>,
         nudges' \in Nat, nudges' <= MaxTries, SlotCounted(x, nudges'),
         nudges' = nudges \/ maker[k].kind = "cartJob",
         cart = "ACTIVE" /\ x.kind = "cartJob" /\ x.pc = "create" => Nudges = {}
  PROVE  OutreachInv'
<1>1. OutreachTyped /\ NudgedOnce
  BY DEF OutreachInv
<1>2. OutreachTyped' /\ ToldBefore' /\ OneCartJob' /\ NudgesCounted'
  BY MakerMoves
<1>3. maker'[k] = x /\ \A l \in Makers \ {k} : maker'[l] = maker[l]
  BY <1>1 DEF OutreachTyped
<1>4. ASSUME NEW l \in Makers, cart' = "ACTIVE", maker'[l].kind = "cartJob", maker'[l].pc = "create"
      PROVE  Nudges = {} \/ (maker[l].kind = "cartJob" /\ maker[l].pc = "create")
  <2>1. CASE l = k
    BY <1>3, <1>4, <2>1
  <2>2. CASE l # k
    BY <1>3, <1>4, <2>2
  <2> QED
    BY <2>1, <2>2
<1>5. cart' = "ACTIVE" => cart = "ACTIVE"
  OBVIOUS
<1>6. NudgedOnce'
  BY <1>1, <1>4, <1>5, NudgedOnceStays
<1> QED
  BY <1>2, <1>6 DEF OutreachInv

\* a run that does not touch the rows
LEMMA MakerAlone ==
  ASSUME OutreachInv, NEW k \in Makers, NEW x \in MakerSlot, maker' = [maker EXCEPT ![k] = x],
         UNCHANGED <<rule, cart, opps, sender, credit>>,
         x.opp = maker[k].opp \/ x.opp = 0, x.pc \notin {"autoSend", "mark"},
         x.kind = "cartJob" <=> maker[k].kind = "cartJob",
         nudges' \in Nat, nudges' <= MaxTries, SlotCounted(x, nudges'),
         nudges' = nudges \/ maker[k].kind = "cartJob",
         cart = "ACTIVE" /\ x.kind = "cartJob" /\ x.pc = "create" => Nudges = {}
  PROVE  OutreachInv'
<1>1. OutreachTyped /\ FunnelIsTrue
  BY DEF OutreachInv, ToldBefore
<1>2. RowsGrow
  BY <1>1, RowsStay
<1>3. maker[k].opp \in 0..Len(opps) /\ Len(opps) \in Nat
  BY <1>1, <1>2 DEF OutreachTyped, RowsGrow
<1>4. MakerMay(k, x)
  BY <1>3 DEF MakerMay
<1> QED
  BY <1>2, <1>4, MakerWorks

LEMMA MakerEnds ==
  ASSUME OutreachAssumption, OutreachInv, NEW k \in Makers, maker' = [maker EXCEPT ![k] = Finished(k)],
         UNCHANGED <<rule, cart, opps, nudges, sender, credit>>
  PROVE  OutreachInv'
<1>1. nudges \in Nat /\ nudges <= MaxTries
  BY DEF OutreachInv, OutreachTyped, NudgesCounted
<1>2. SlotCounted(Finished(k), nudges)
  BY FinishedMaker DEF SlotCounted
<1> QED
  BY <1>1, <1>2, FinishedMaker, MakerAlone

\* what is known of a run before it moves
LEMMA MakerNow ==
  ASSUME OutreachAssumption, OutreachInv, NEW k \in Makers
  PROVE  /\ maker \in [Makers -> MakerSlot] /\ maker[k] \in MakerSlot
         /\ nudges \in Nat /\ nudges <= MaxTries /\ MaxTries \in Nat /\ maker[k].tries \in 0..MaxTries
         /\ SlotCounted(maker[k], nudges)
BY DEF OutreachAssumption, OutreachInv, OutreachTyped, NudgesCounted, MakerSlot

\* a run goes on to another step, with the row it has
LEMMA MakerGoesOn ==
  ASSUME OutreachAssumption, OutreachInv, NEW k \in Makers, NEW pc \in {"check", "find", "nudge", "create"},
         NEW kind \in MakerKinds, maker' = [maker EXCEPT ![k].kind = kind, ![k].pc = pc],
         UNCHANGED <<rule, cart, opps, nudges, sender, credit>>,
         kind = "cartJob" <=> maker[k].kind = "cartJob",
         kind = "cartJob" => maker[k].pc # "record" /\ maker[k].pc # "done" /\ maker[k].tries > 0,
         pc = "nudge" => kind = "cartJob",
         cart = "ACTIVE" /\ kind = "cartJob" /\ pc = "create" => Nudges = {}
  PROVE  OutreachInv'
<1> USE MakerNow
<1> DEFINE x == [maker[k] EXCEPT !.kind = kind, !.pc = pc]
<1>1. x \in MakerSlot /\ x.kind = kind /\ x.pc = pc
  BY DEF MakerSlot, MakerPcs
<1>2. x.opp = maker[k].opp /\ x.tries = maker[k].tries
  BY DEF MakerSlot
<1>3. maker' = [maker EXCEPT ![k] = x]
  OBVIOUS
<1> HIDE DEF x
<1>4. SlotCounted(x, nudges)
  BY <1>1, <1>2 DEF SlotCounted
<1> QED
  BY <1>1, <1>2, <1>3, <1>4, MakerAlone

LEMMA ChecksStep ==
  ASSUME OutreachAssumption, OutreachInv, NEW k \in Makers,
         \/ AskAbout(k) \/ CheckRules(k) \/ CheckCart(k) \/ FindExisting(k)
         \/ \E scan \in {"healthScan", "repeatScan", "unansweredScan"} : ComeTo(k, scan)
  PROVE  OutreachInv'
<1> USE MakerNow
<1>1. CASE AskAbout(k)
  BY <1>1, MakerGoesOn DEF AskAbout, Ask, MakerKinds, Sources
<1>2. CASE CheckRules(k)
  <2>1. CASE maker' = [maker EXCEPT ![k] = Finished(k)]
    BY <1>2, <2>1, MakerEnds DEF CheckRules
  <2>2. CASE maker' = [maker EXCEPT ![k].pc = "find"]
    <3>1. maker' = [maker EXCEPT ![k].kind = maker[k].kind, ![k].pc = "find"] /\ maker[k].kind \in MakerKinds
      BY <2>2 DEF MakerSlot
    <3>2. maker[k].kind = "cartJob" => maker[k].tries > 0
      BY <1>2 DEF CheckRules, SlotCounted
    <3> QED
      BY <1>2, <3>1, <3>2, MakerGoesOn DEF CheckRules
  <2> QED
    BY <1>2, <2>1, <2>2 DEF CheckRules
<1>3. CASE CheckCart(k)
  <2>1. CASE maker' = [maker EXCEPT ![k] = Finished(k)]
    BY <1>3, <2>1, MakerEnds DEF CheckCart
  <2>2. ASSUME NEW pc \in {"find", "nudge"}, maker' = [maker EXCEPT ![k].pc = pc] PROVE OutreachInv'
    <3>1. maker' = [maker EXCEPT ![k].kind = maker[k].kind, ![k].pc = pc] /\ maker[k].kind \in MakerKinds
      BY <2>2 DEF MakerSlot
    <3> QED
      BY <1>3, <3>1, MakerGoesOn DEF CheckCart
  <2> QED
    BY <1>3, <2>1, <2>2 DEF CheckCart
<1>4. CASE FindExisting(k)
  <2>1. CASE maker' = [maker EXCEPT ![k] = Finished(k)]
    BY <1>4, <2>1, MakerEnds DEF FindExisting, FindExistingOf
  <2>2. CASE maker' # [maker EXCEPT ![k] = Finished(k)]
    <3>1. Found(maker[k].kind, LiveStatuses) = {} /\ maker' = [maker EXCEPT ![k] = [maker[k] EXCEPT !.pc = "create"]]
      BY <1>4, <2>2 DEF FindExisting, FindExistingOf
    <3>2. maker' = [maker EXCEPT ![k].kind = maker[k].kind, ![k].pc = "create"] /\ maker[k].kind \in MakerKinds
      BY <3>1 DEF MakerSlot
    <3>3. cart = "ACTIVE" /\ maker[k].kind = "cartJob" => Nudges = {}
      <4> SUFFICES ASSUME cart = "ACTIVE", maker[k].kind = "cartJob", NEW i \in Nudges PROVE FALSE
        OBVIOUS
      <4>1. i \in DOMAIN opps /\ opps[i].kind = "cartJob" /\ opps[i].status \in LiveStatuses
        BY DEF Nudges, OutreachInv, NudgedOnce
      <4> QED
        BY <3>1, <4>1 DEF Found
    <3>4. maker[k].kind = "cartJob" => maker[k].tries > 0
      BY <1>4 DEF FindExisting, FindExistingOf, SlotCounted
    <3> QED
      BY <1>4, <3>2, <3>3, <3>4, MakerGoesOn DEF FindExisting, FindExistingOf
  <2> QED
    BY <2>1, <2>2
<1>5. ASSUME NEW scan \in {"healthScan", "repeatScan", "unansweredScan"}, ComeTo(k, scan) PROVE OutreachInv'
  <2>1. maker' = [maker EXCEPT ![k].kind = maker[k].kind, ![k].pc = "find"] /\ maker[k].kind \in MakerKinds
    BY <1>5 DEF ComeTo, MakerSlot
  <2> QED
    BY <1>5, <2>1, MakerGoesOn DEF ComeTo
<1> QED
  BY <1>1, <1>2, <1>3, <1>4, <1>5

LEMMA MakerFinishes ==
  ASSUME OutreachAssumption, OutreachInv, RowsGrow, DOMAIN opps' = DOMAIN opps, NEW k \in Makers,
         maker' = [maker EXCEPT ![k] = Finished(k)], UNCHANGED <<rule, cart, nudges, sender, credit>>
  PROVE  OutreachInv'
<1>1. SlotCounted(Finished(k), nudges)
  BY FinishedMaker DEF SlotCounted
<1>2. Len(opps') \in Nat
  BY DEF RowsGrow
<1>3. MakerMay(k, Finished(k))
  BY <1>2, FinishedMaker DEF MakerMay
<1> QED
  BY <1>1, <1>3, MakerNow, FinishedMaker, MakerWorks

LEMMA NoticeStep ==
  ASSUME OutreachAssumption, OutreachInv, NEW k \in Makers, NoticeInterest(k) PROVE OutreachInv'
<1> USE MakerNow
<1>1. CASE Ask(k, "api") /\ opps' = opps
  <2>1. AskAbout(k)
    BY <1>1 DEF NoticeInterest, AskAbout
  <2> QED
    BY <2>1, ChecksStep
<1>2. CASE Ask(k, "highIntent") /\ Supersede("api")
  <2>1. OutreachTyped /\ FunnelIsTrue
    BY DEF OutreachInv, ToldBefore
  <2> DEFINE T == Found("api", LiveStatuses)
  <2>2. opps' = [i \in DOMAIN opps |-> IF i \in T THEN [opps[i] EXCEPT !.status = "DISMISSED"] ELSE opps[i]]
    BY <1>2 DEF Supersede
  <2>3. \A i \in T : opps[i].kind # "cartJob"
    BY DEF Found
  <2> HIDE DEF T
  <2>4. RowsGrow /\ DOMAIN opps' = DOMAIN opps
    BY <2>1, <2>2, <2>3, RowsEnded
  <2> DEFINE x == [maker[k] EXCEPT !.kind = "highIntent", !.pc = "check"]
  <2>5. x \in MakerSlot /\ x.kind = "highIntent" /\ x.pc = "check"
    BY DEF MakerSlot, MakerPcs, MakerKinds, ApiKinds
  <2>6. x.opp = maker[k].opp /\ maker[k].kind = "api"
    BY <1>2 DEF MakerSlot, NoticeInterest
  <2>7. maker' = [maker EXCEPT ![k] = x]
    BY <1>2 DEF Ask
  <2> HIDE DEF x
  <2>8. x.opp \in 0..Len(opps')
    BY <2>1, <2>4, <2>6 DEF OutreachTyped, RowsGrow
  <2>9. MakerMay(k, x)
    BY <2>5, <2>6, <2>8 DEF MakerMay
  <2>10. SlotCounted(x, nudges)
    BY <2>5 DEF SlotCounted
  <2>11. UNCHANGED <<rule, cart, nudges, sender, credit>>
    BY DEF NoticeInterest
  <2> QED
    BY <2>4, <2>5, <2>7, <2>9, <2>10, <2>11, MakerWorks
<1> QED
  BY <1>1, <1>2 DEF NoticeInterest

\* the message goes to the channel
LEMMA DeliverStep ==
  ASSUME OutreachAssumption, OutreachInv, NEW k \in Makers, maker[k].pc = "autoSend", Deliver(k),
         UNCHANGED <<rule, cart, nudges, sender, credit>>
  PROVE  OutreachInv'
<1> USE MakerNow
<1>1. OutreachTyped /\ FunnelIsTrue
  BY DEF OutreachInv, ToldBefore
<1>2. maker[k].opp \in DOMAIN opps
  BY <1>1 DEF OutreachTyped
<1>3. opps' = [opps EXCEPT ![maker[k].opp].told = TRUE] /\ maker' = [maker EXCEPT ![k].pc = "mark"]
  BY DEF Deliver
<1>4. RowsGrow /\ opps'[maker[k].opp].told /\ DOMAIN opps' = DOMAIN opps
  BY <1>1, <1>2, <1>3, RowTold
<1> DEFINE x == [maker[k] EXCEPT !.pc = "mark"]
<1>5. x \in MakerSlot /\ x.pc = "mark" /\ x.kind = maker[k].kind
  BY DEF MakerSlot, MakerPcs
<1>6. x.opp = maker[k].opp /\ x.tries = maker[k].tries
  BY DEF MakerSlot
<1>7. maker' = [maker EXCEPT ![k] = x]
  BY <1>3
<1> HIDE DEF x
<1>8. x.opp \in 0..Len(opps')
  BY <1>1, <1>4, <1>6 DEF OutreachTyped, RowsGrow
<1>9. MakerMay(k, x)
  BY <1>2, <1>4, <1>5, <1>6, <1>8 DEF MakerMay
<1>10. SlotCounted(x, nudges)
  BY <1>5, <1>6 DEF SlotCounted
<1> QED
  BY <1>4, <1>5, <1>7, <1>9, <1>10, MakerWorks

LEMMA SendsStep ==
  ASSUME OutreachAssumption, OutreachInv, NEW k \in Makers, AutoSend(k) \/ SendFromJob(k) \/ MarkSent(k)
  PROVE  OutreachInv'
<1>1. CASE AutoSend(k)
  <2>1. CASE opps[maker[k].opp].status \in {"SENT", "CONVERTED"}
    BY <1>1, <2>1, MakerEnds DEF AutoSend
  <2>2. CASE opps[maker[k].opp].status \notin {"SENT", "CONVERTED"}
    BY <1>1, <2>2, DeliverStep DEF AutoSend
  <2> QED
    BY <2>1, <2>2
<1>2. CASE SendFromJob(k)
  BY <1>2, DeliverStep DEF SendFromJob
<1>3. CASE MarkSent(k)
  <2>1. OutreachTyped /\ FunnelIsTrue
    BY DEF OutreachInv, ToldBefore
  <2>2. maker[k].opp \in DOMAIN opps
    BY <1>3, <2>1 DEF OutreachTyped, MarkSent
  <2>3. opps[maker[k].opp].told
    BY <1>3 DEF OutreachInv, ToldBefore, MarkSent
  <2>4. opps' = [opps EXCEPT ![maker[k].opp].status = "SENT"]
    BY <1>3 DEF MarkSent, SetStatus
  <2>5. RowsGrow
    BY <2>1, <2>2, <2>3, <2>4, RowMarked DEF LiveStatuses
  <2>6. DOMAIN opps' = DOMAIN opps
    BY <2>4
  <2> QED
    BY <1>3, <2>5, <2>6, MakerFinishes DEF MarkSent
<1> QED
  BY <1>1, <1>2, <1>3

LEMMA NudgeStep ==
  ASSUME OutreachAssumption, OutreachInv, NEW k \in Makers, SendNudge(k) \/ RecordNudge(k) \/ MakerFails(k)
  PROVE  OutreachInv'
<1> USE MakerNow
<1>1. CASE SendNudge(k)
  <2> DEFINE x == [maker[k] EXCEPT !.pc = "record"]
  <2>1. x \in MakerSlot /\ x.pc = "record" /\ x.kind = maker[k].kind
    BY DEF MakerSlot, MakerPcs
  <2>2. x.opp = maker[k].opp /\ x.tries = maker[k].tries
    BY DEF MakerSlot
  <2>3. maker' = [maker EXCEPT ![k] = x] /\ nudges' = nudges + 1
    BY <1>1 DEF SendNudge
  <2> HIDE DEF x
  <2>4. maker[k].kind = "cartJob" /\ maker[k].tries > 0 /\ nudges <= MaxTries - maker[k].tries
    BY <1>1 DEF SendNudge, SlotCounted
  <2>5. nudges' \in Nat /\ nudges' <= MaxTries
    BY <2>3, <2>4
  <2>6. SlotCounted(x, nudges')
    BY <2>1, <2>2, <2>3, <2>4 DEF SlotCounted
  <2>7. UNCHANGED <<rule, cart, opps, sender, credit>>
    BY <1>1 DEF SendNudge
  <2> QED
    BY <2>1, <2>2, <2>3, <2>4, <2>5, <2>6, <2>7, MakerAlone
<1>2. CASE RecordNudge(k)
  BY <1>2, MakerEnds DEF RecordNudge
<1>3. CASE MakerFails(k)
  <2>1. CASE maker[k].kind # "cartJob"
    BY <1>3, <2>1, MakerEnds DEF MakerFails
  <2>2. CASE maker[k].kind = "cartJob"
    <3> DEFINE x == [maker[k] EXCEPT !.pc = "idle", !.opp = 0, !.tries = maker[k].tries - 1]
    <3>1. maker[k].tries > 0 /\ nudges <= MaxTries - (maker[k].tries - 1)
      BY <1>3, <2>2 DEF MakerFails, SlotCounted
    <3>2. maker[k].tries - 1 \in 0..MaxTries
      BY <3>1
    <3>3. x \in MakerSlot /\ x.pc = "idle" /\ x.kind = "cartJob"
      BY <2>2, <3>2 DEF MakerSlot, MakerPcs
    <3>4. x.opp = 0 /\ x.tries = maker[k].tries - 1
      BY DEF MakerSlot
    <3>5. maker' = [maker EXCEPT ![k] = x]
      BY <1>3, <2>2 DEF MakerFails
    <3> HIDE DEF x
    <3>6. SlotCounted(x, nudges)
      BY <3>1, <3>3, <3>4 DEF SlotCounted
    <3>7. UNCHANGED <<rule, cart, opps, nudges, sender, credit>>
      BY <1>3 DEF MakerFails
    <3> QED
      BY <2>2, <3>3, <3>4, <3>5, <3>6, <3>7, MakerAlone
  <2> QED
    BY <2>1, <2>2
<1> QED
  BY <1>1, <1>2, <1>3

LEMMA CreateStep ==
  ASSUME OutreachAssumption, OutreachInv, NEW k \in Makers, CreateOpportunity(k) PROVE OutreachInv'
<1> USE MakerNow
<1>1. OutreachTyped /\ FunnelIsTrue /\ OneCartJob /\ NudgedOnce
  BY DEF OutreachInv, ToldBefore
<1>2. /\ maker[k].pc = "create" /\ Len(opps) < MaxOpps
      /\ UNCHANGED <<rule, cart, nudges, sender, credit>>
  BY DEF CreateOpportunity
<1> DEFINE row == [kind |-> maker[k].kind, status |-> "NEW", told |-> FALSE, order |-> FALSE, kept |-> TRUE]
<1>3. opps' = Append(opps, row)
  BY DEF CreateOpportunity
<1>4. row \in OppRow /\ row.status = "NEW" /\ row.kind = maker[k].kind
  BY DEF OppRow, OppStatuses, LiveStatuses, MakerSlot
<1> HIDE DEF row
<1>5. opps \in Seq(OppRow)
  BY <1>1 DEF OutreachTyped
<1>6. /\ opps' \in Seq(OppRow) /\ Len(opps') = Len(opps) + 1
      /\ DOMAIN opps' = DOMAIN opps \cup {Len(opps) + 1}
      /\ opps'[Len(opps) + 1] = row /\ \A j \in DOMAIN opps : opps'[j] = opps[j]
  BY <1>3, <1>4, <1>5, RowAppended
<1>7. Len(opps) \in Nat /\ MaxOpps \in Nat
  BY <1>5 DEF OutreachAssumption
<1>8. \A i \in DOMAIN opps : opps[i] \in OppRow
  BY <1>5
<1>9. RowsGrow
  <2>1. \A i \in DOMAIN opps : RowLater(opps[i], opps'[i])
    BY <1>1, <1>6, <1>8 DEF RowLater, FunnelIsTrue, CountedAsSent
  <2>2. DOMAIN opps = 1..Len(opps) /\ DOMAIN opps' = 1..Len(opps')
    BY <1>5, <1>6
  <2>3. \A i \in DOMAIN opps' \ DOMAIN opps : opps'[i].status = "NEW"
    BY <1>4, <1>6
  <2>4. Len(opps') <= MaxOpps /\ Len(opps') \in Nat /\ Len(opps) <= Len(opps')
    BY <1>2, <1>6, <1>7
  <2> QED
    BY <1>6, <1>7, <2>1, <2>2, <2>3, <2>4 DEF RowsGrow
<1>10. PICK x : /\ maker' = [maker EXCEPT ![k] = x] /\ x \in MakerSlot /\ x.pc \in {"autoSend", "done"}
                /\ x.opp \in {0, Len(opps) + 1} /\ (x.pc = "autoSend" => x.opp = Len(opps) + 1)
                /\ (x.kind = "cartJob" <=> maker[k].kind = "cartJob") /\ SlotCounted(x, nudges)
  <2>1. CASE maker' = [maker EXCEPT ![k] = Finished(k)]
    <3>1. SlotCounted(Finished(k), nudges)
      BY FinishedMaker DEF SlotCounted
    <3> QED
      BY <2>1, <3>1, FinishedMaker
  <2>2. CASE maker' # [maker EXCEPT ![k] = Finished(k)]
    <3> DEFINE y == [maker[k] EXCEPT !.pc = "autoSend", !.opp = Len(opps) + 1]
    <3>1. maker' = [maker EXCEPT ![k] = y]
      BY <2>2 DEF CreateOpportunity
    <3>2. y.pc = "autoSend" /\ y.kind = maker[k].kind
      BY DEF MakerSlot
    <3>3. y.opp = Len(opps) + 1 /\ y.tries = maker[k].tries
      BY DEF MakerSlot
    <3>4. "autoSend" \in MakerPcs /\ Len(opps) + 1 \in Nat
      BY <1>7 DEF MakerPcs
    <3>5. y \in MakerSlot
      BY <3>4 DEF MakerSlot
    <3> HIDE DEF y
    <3>6. SlotCounted(y, nudges)
      BY <1>2, <3>2, <3>3 DEF SlotCounted
    <3> QED
      BY <3>1, <3>2, <3>3, <3>5, <3>6
  <2> QED
    BY <2>1, <2>2
<1>11. MakerMay(k, x)
  <2>1. x.opp \in 0..Len(opps')
    BY <1>6, <1>7, <1>10
  <2>2. x.pc \in {"autoSend", "mark"} => x.opp \in DOMAIN opps'
    BY <1>6, <1>10
  <2> QED
    BY <1>10, <2>1, <2>2 DEF MakerMay
<1>12. OutreachTyped' /\ ToldBefore' /\ OneCartJob' /\ NudgesCounted'
  BY <1>2, <1>9, <1>10, <1>11, MakerMoves
<1>13. NudgedOnce'
  <2> SUFFICES ASSUME cart = "ACTIVE"
               PROVE  /\ \A i \in Nudges' : opps'[i].status \in LiveStatuses
                      /\ \A i, j \in Nudges' : i = j
                      /\ \A l \in Makers : maker'[l].kind = "cartJob" /\ maker'[l].pc = "create" => Nudges' = {}
    BY <1>2 DEF NudgedOnce
  <2>1. maker'[k] = x /\ \A l \in Makers \ {k} : maker'[l] = maker[l]
    BY <1>10
  <2>2. CASE maker[k].kind = "cartJob"
    <3>1. Nudges = {}
      BY <1>1, <1>2, <2>2 DEF NudgedOnce
    <3>2. \A i \in Nudges' : i = Len(opps) + 1
      BY <1>6, <3>1 DEF Nudges
    <3>3. \A l \in Makers : maker'[l].kind = "cartJob" => maker'[l].pc # "create"
      BY <1>1, <1>10, <2>1, <2>2 DEF OneCartJob
    <3> QED
      BY <1>4, <1>6, <3>2, <3>3 DEF LiveStatuses
  <2>3. CASE maker[k].kind # "cartJob"
    <3>1. Nudges' = Nudges
      BY <1>4, <1>6, <2>3 DEF Nudges
    <3>2. \A i \in Nudges : opps'[i] = opps[i]
      BY <1>6 DEF Nudges
    <3>3. ASSUME NEW l \in Makers, maker'[l].kind = "cartJob", maker'[l].pc = "create" PROVE Nudges = {}
      <4>1. l # k
        BY <1>10, <2>1, <2>3, <3>3
      <4> QED
        BY <1>1, <2>1, <3>3, <4>1 DEF NudgedOnce
    <3>4. /\ \A i \in Nudges : opps[i].status \in LiveStatuses
          /\ \A i, j \in Nudges : i = j
      BY <1>1 DEF NudgedOnce
    <3> QED
      BY <3>1, <3>2, <3>3, <3>4
  <2> QED
    BY <2>2, <2>3
<1> QED
  BY <1>12, <1>13 DEF OutreachInv

\* a step of the merchant, of an order or of the cart
LEMMA OthersMove ==
  ASSUME OutreachInv, RowsGrow, DOMAIN opps' = DOMAIN opps, UNCHANGED <<rule, nudges, maker>>,
         cart' \in {"ACTIVE", "CHECKED_OUT"}, cart' = "ACTIVE" => cart = "ACTIVE",
         sender' \in [Senders -> SenderSlot], credit' \in [Orders -> CreditSlot],
         \A s \in Senders : \/ sender'[s] = sender[s]
                            \/ sender'[s].pc = "send" /\ sender'[s].opp \in DOMAIN opps
                            \/ sender'[s].pc = "mark" /\ sender'[s].opp \in DOMAIN opps /\ opps'[sender'[s].opp].told
                            \/ sender'[s].pc = "done",
         \A o \in Orders : \/ credit'[o] = credit[o]
                           \/ credit'[o].pc = "write" /\ credit'[o].opp \in DOMAIN opps /\ opps'[credit'[o].opp].told
                           \/ credit'[o].pc = "done"
  PROVE  OutreachInv'
<1>1. OutreachTyped /\ ToldBefore /\ OneCartJob /\ NudgedOnce /\ NudgesCounted
  BY DEF OutreachInv
<1>2. /\ \A k \in Makers : MakerMay(k, maker[k])
      /\ \A s \in Senders : /\ sender[s].pc \in {"send", "mark"} => sender[s].opp \in DOMAIN opps'
                            /\ sender[s].pc = "mark" => opps'[sender[s].opp].told
      /\ \A o \in Orders : credit[o].pc = "write" => /\ credit[o].opp \in DOMAIN opps'
                                                      /\ opps'[credit[o].opp].told
  BY <1>1, TellingStays
<1>3. /\ \A s \in Senders : /\ sender'[s].pc \in {"send", "mark"} => sender'[s].opp \in DOMAIN opps'
                            /\ sender'[s].pc = "mark" => opps'[sender'[s].opp].told
  BY <1>2
<1>4. \A o \in Orders : credit'[o].pc = "write" => /\ credit'[o].opp \in DOMAIN opps'
                                                    /\ opps'[credit'[o].opp].told
  BY <1>2
<1>5. OutreachTyped'
  <2>1. opps' \in Seq(OppRow) /\ Len(opps') <= MaxOpps
    BY DEF RowsGrow
  <2>2. /\ nudges' \in Nat /\ rule' \in [proactive : BOOLEAN, autoSend : BOOLEAN]
        /\ maker' \in [Makers -> MakerSlot]
    BY <1>1 DEF OutreachTyped
  <2>3. /\ \A k \in Makers : maker'[k].opp \in 0..Len(opps')
        /\ \A k \in Makers : maker'[k].pc \in {"autoSend", "mark"} => maker'[k].opp \in DOMAIN opps'
    BY <1>2 DEF MakerMay
  <2> QED
    BY <1>3, <1>4, <2>1, <2>2, <2>3 DEF OutreachTyped
<1>6. ToldBefore'
  <2>1. FunnelIsTrue'
    BY <1>1, FunnelStaysTrue
  <2>2. \A k \in Makers : maker'[k].pc = "mark" => opps'[maker'[k].opp].told
    BY <1>2 DEF MakerMay
  <2> QED
    BY <1>3, <1>4, <2>1, <2>2 DEF ToldBefore
<1>7. OneCartJob' /\ NudgesCounted'
  BY <1>1 DEF OneCartJob, NudgesCounted
<1>8. NudgedOnce'
  <2>1. \A k \in Makers :
          cart' = "ACTIVE" /\ maker'[k].kind = "cartJob" /\ maker'[k].pc = "create" =>
            Nudges = {} \/ (maker[k].kind = "cartJob" /\ maker[k].pc = "create")
    OBVIOUS
  <2> QED
    BY <1>1, <2>1, NudgedOnceStays
<1> QED
  BY <1>5, <1>6, <1>7, <1>8 DEF OutreachInv

LEMMA SenderStep ==
  ASSUME OutreachInv, NEW s \in Senders, SendRead(s) \/ SendToChannel(s) \/ SendMark(s)
  PROVE  OutreachInv'
<1>1. OutreachTyped /\ FunnelIsTrue /\ ToldBefore
  BY DEF OutreachInv, ToldBefore
<1>2. sender \in [Senders -> SenderSlot] /\ credit \in [Orders -> CreditSlot] /\ cart \in {"ACTIVE", "CHECKED_OUT"}
  BY <1>1 DEF OutreachTyped
<1>3. \A i \in DOMAIN opps : i \in Nat
  BY <1>1 DEF OutreachTyped
<1>4. opps' = opps => RowsGrow
  BY <1>1, RowsStay
<1>5. Over \in SenderSlot /\ Over.pc = "done"
  BY DEF Over, SenderSlot
<1>6. CASE SendRead(s)
  <2>1. PICK i \in DOMAIN opps : sender' = [sender EXCEPT ![s] = [pc |-> "send", opp |-> i]]
    BY <1>6 DEF SendRead
  <2>2. [pc |-> "send", opp |-> i] \in SenderSlot
    BY <1>3 DEF SenderSlot
  <2>3. sender' \in [Senders -> SenderSlot] /\ sender'[s] = [pc |-> "send", opp |-> i]
        /\ \A t \in Senders \ {s} : sender'[t] = sender[t]
    BY <1>2, <2>1, <2>2
  <2>4. UNCHANGED <<rule, cart, opps, nudges, maker, credit>>
    BY <1>6 DEF SendRead
  <2> QED
    BY <1>2, <1>4, <2>3, <2>4, OthersMove
<1>7. CASE SendToChannel(s)
  <2>1. UNCHANGED <<rule, cart, nudges, maker, credit>> /\ sender[s].pc = "send"
    BY <1>7 DEF SendToChannel
  <2>2. CASE sender' = [sender EXCEPT ![s] = Over] /\ UNCHANGED opps
    <3>1. sender' \in [Senders -> SenderSlot] /\ sender'[s].pc = "done"
          /\ \A t \in Senders \ {s} : sender'[t] = sender[t]
      BY <1>2, <1>5, <2>2
    <3> QED
      BY <1>2, <1>4, <2>1, <2>2, <3>1, OthersMove
  <2>3. CASE opps' = [opps EXCEPT ![sender[s].opp].told = TRUE] /\ sender' = [sender EXCEPT ![s].pc = "mark"]
    <3>1. sender[s].opp \in DOMAIN opps
      BY <1>1, <2>1 DEF OutreachTyped
    <3>2. RowsGrow /\ opps'[sender[s].opp].told /\ DOMAIN opps' = DOMAIN opps
      BY <1>1, <2>3, <3>1, RowTold
    <3>3. sender' \in [Senders -> SenderSlot] /\ sender'[s].pc = "mark" /\ sender'[s].opp = sender[s].opp
          /\ \A t \in Senders \ {s} : sender'[t] = sender[t]
      BY <1>2, <2>3 DEF SenderSlot
    <3> QED
      BY <1>2, <2>1, <3>1, <3>2, <3>3, OthersMove
  <2> QED
    BY <1>7, <2>2, <2>3 DEF SendToChannel
<1>8. CASE SendMark(s)
  <2>1. UNCHANGED <<rule, cart, nudges, maker, credit>> /\ sender[s].pc = "mark" /\ sender' = [sender EXCEPT ![s] = Over]
    BY <1>8 DEF SendMark
  <2>2. sender' \in [Senders -> SenderSlot] /\ sender'[s].pc = "done"
        /\ \A t \in Senders \ {s} : sender'[t] = sender[t]
    BY <1>2, <1>5, <2>1
  <2>3. RowsGrow /\ DOMAIN opps' = DOMAIN opps
    <3>1. CASE opps' = opps
      BY <1>4, <3>1
    <3>2. CASE SetStatus(sender[s].opp, "SENT")
      <4>1. sender[s].opp \in DOMAIN opps /\ opps[sender[s].opp].told
        BY <1>1, <2>1 DEF OutreachTyped, ToldBefore
      <4>2. opps' = [opps EXCEPT ![sender[s].opp].status = "SENT"]
        BY <3>2 DEF SetStatus
      <4> QED
        BY <1>1, <4>1, <4>2, RowMarked DEF LiveStatuses
    <3> QED
      BY <1>8, <3>1, <3>2 DEF SendMark
  <2> QED
    BY <1>2, <2>1, <2>2, <2>3, OthersMove
<1> QED
  BY <1>6, <1>7, <1>8

LEMMA MerchantStep ==
  ASSUME OutreachInv, NEW i \in DOMAIN opps, Dismiss(i) \/ Snooze(i) \/ WakeSnoozed(i)
  PROVE  OutreachInv'
<1>1. OutreachTyped /\ FunnelIsTrue
  BY DEF OutreachInv, ToldBefore
<1>2. sender \in [Senders -> SenderSlot] /\ credit \in [Orders -> CreditSlot] /\ cart \in {"ACTIVE", "CHECKED_OUT"}
  BY <1>1 DEF OutreachTyped
<1>3. UNCHANGED <<rule, cart, nudges, maker, sender, credit>>
  BY DEF Dismiss, Snooze, WakeSnoozed
<1>4. RowsGrow /\ DOMAIN opps' = DOMAIN opps
  <2>1. ASSUME NEW status \in {"DISMISSED", "SNOOZED"}, Overrule(i, status)
        PROVE  RowsGrow /\ DOMAIN opps' = DOMAIN opps
    <3>1. DOMAIN opps' = DOMAIN opps
      BY <2>1 DEF Overrule
    <3> QED
      BY <1>1, <2>1, <3>1, RowOverruled
  <2>2. CASE WakeSnoozed(i)
    <3>1. opps' = [opps EXCEPT ![i].status = "NEW"]
      BY <2>2 DEF WakeSnoozed, SetStatus
    <3>2. RowsGrow
      BY <1>1, <3>1, RowMarked DEF LiveStatuses
    <3> QED
      BY <3>1, <3>2
  <2> QED
    BY <2>1, <2>2 DEF Dismiss, Snooze
<1> QED
  BY <1>2, <1>3, <1>4, OthersMove

LEMMA OrderStep ==
  ASSUME OutreachInv,
         \/ \E o \in Orders : AttachRead(o) \/ AttachWrite(o)
         \/ CheckOut \/ ExpireForCheckedOutCart
  PROVE  OutreachInv'
<1>1. OutreachTyped /\ FunnelIsTrue /\ ToldBefore
  BY DEF OutreachInv, ToldBefore
<1>2. sender \in [Senders -> SenderSlot] /\ credit \in [Orders -> CreditSlot] /\ cart \in {"ACTIVE", "CHECKED_OUT"}
  BY <1>1 DEF OutreachTyped
<1>3. \A i \in DOMAIN opps : i \in Nat
  BY <1>1 DEF OutreachTyped
<1>4. opps' = opps => RowsGrow
  BY <1>1, RowsStay
<1>5. Over \in CreditSlot /\ Over.pc = "done"
  BY DEF Over, CreditSlot
<1>6. ASSUME NEW o \in Orders, AttachRead(o) PROVE OutreachInv'
  <2>1. UNCHANGED <<rule, cart, opps, nudges, maker, sender>>
    BY <1>6 DEF AttachRead
  <2>2. CASE credit' = [credit EXCEPT ![o] = Over]
    <3>1. credit' \in [Orders -> CreditSlot] /\ credit'[o].pc = "done"
          /\ \A p \in Orders \ {o} : credit'[p] = credit[p]
      BY <1>2, <1>5, <2>2
    <3> QED
      BY <1>2, <1>4, <2>1, <3>1, OthersMove
  <2>3. ASSUME NEW i \in DOMAIN opps, opps[i].status = "SENT", credit' = [credit EXCEPT ![o] = [pc |-> "write", opp |-> i]]
        PROVE  OutreachInv'
    <3>1. opps[i].told
      BY <1>1, <2>3 DEF FunnelIsTrue, CountedAsSent
    <3>2. [pc |-> "write", opp |-> i] \in CreditSlot
      BY <1>3 DEF CreditSlot
    <3>3. credit' \in [Orders -> CreditSlot] /\ credit'[o] = [pc |-> "write", opp |-> i]
          /\ \A p \in Orders \ {o} : credit'[p] = credit[p]
      BY <1>2, <2>3, <3>2
    <3> QED
      BY <1>2, <1>4, <2>1, <3>1, <3>3, OthersMove
  <2> QED
    BY <1>6, <2>2, <2>3 DEF AttachRead
<1>7. ASSUME NEW o \in Orders, AttachWrite(o) PROVE OutreachInv'
  <2>1. /\ UNCHANGED <<rule, cart, nudges, maker, sender>> /\ credit[o].pc = "write"
        /\ credit' = [credit EXCEPT ![o] = Over]
        /\ opps' = [opps EXCEPT ![credit[o].opp].order = TRUE, ![credit[o].opp].status = "CONVERTED"]
    BY <1>7 DEF AttachWrite
  <2>2. credit[o].opp \in DOMAIN opps /\ opps[credit[o].opp].told
    BY <1>1, <2>1 DEF OutreachTyped, ToldBefore
  <2>3. RowsGrow
    BY <1>1, <2>1, <2>2, RowCredited
  <2>4. DOMAIN opps' = DOMAIN opps
    BY <2>1
  <2>5. credit' \in [Orders -> CreditSlot] /\ credit'[o].pc = "done"
        /\ \A p \in Orders \ {o} : credit'[p] = credit[p]
    BY <1>2, <1>5, <2>1
  <2> QED
    BY <1>2, <2>1, <2>3, <2>4, <2>5, OthersMove
<1>8. CASE CheckOut
  <2>1. UNCHANGED <<rule, opps, nudges, maker, sender, credit>> /\ cart' = "CHECKED_OUT"
    BY <1>8 DEF CheckOut
  <2> QED
    BY <1>2, <1>4, <2>1, OthersMove
<1>9. CASE ExpireForCheckedOutCart
  <2>1. cart = "CHECKED_OUT" /\ UNCHANGED <<rule, cart, nudges, maker, sender, credit>>
    BY <1>9 DEF ExpireForCheckedOutCart, ExpireTo
  <2> DEFINE T == Found("cartJob", {"NEW", "SNOOZED"})
  <2>2. opps' = [i \in DOMAIN opps |-> IF i \in T THEN [opps[i] EXCEPT !.status = "EXPIRED"] ELSE opps[i]]
    BY <1>9 DEF ExpireForCheckedOutCart, ExpireTo
  <2> HIDE DEF T
  <2>3. RowsGrow /\ DOMAIN opps' = DOMAIN opps
    BY <1>1, <2>1, <2>2, RowsEnded
  <2> QED
    BY <1>2, <2>1, <2>3, OthersMove
<1> QED
  BY <1>6, <1>7, <1>8, <1>9

LEMMA OutreachStep ==
  ASSUME OutreachAssumption, OutreachInv, [OutreachNext]_outreachVars PROVE OutreachInv'
<1>1. CASE UNCHANGED outreachVars
  BY <1>1 DEF outreachVars, OutreachInv, OutreachTyped, ToldBefore, FunnelIsTrue, CountedAsSent, OneCartJob,
     NudgedOnce, Nudges, NudgesCounted
<1>2. ASSUME NEW k \in Makers,
             \/ SuggestCrossSellUpsell(k) \/ NotifyNewProductMatch(k) \/ SuggestBackInStock(k) \/ Broadcast(k)
             \/ CustomerHealthScan(k) \/ RepeatPurchaseScan(k) \/ UnansweredConversationScan(k)
      PROVE  OutreachInv'
  BY <1>2, ChecksStep DEF SuggestCrossSellUpsell, NotifyNewProductMatch, SuggestBackInStock, Broadcast,
     CustomerHealthScan, RepeatPurchaseScan, UnansweredConversationScan
<1>3. ASSUME NEW k \in Makers, CheckRules(k) \/ CheckCart(k) \/ FindExisting(k) PROVE OutreachInv'
  BY <1>3, ChecksStep
<1>4. ASSUME NEW k \in Makers, AutoSend(k) \/ SendFromJob(k) \/ MarkSent(k) PROVE OutreachInv'
  BY <1>4, SendsStep
<1>5. ASSUME NEW k \in Makers, SendNudge(k) \/ RecordNudge(k) \/ MakerFails(k) PROVE OutreachInv'
  BY <1>5, NudgeStep
<1>6. ASSUME NEW k \in Makers, NoticeInterest(k) \/ CreateOpportunity(k) PROVE OutreachInv'
  BY <1>6, NoticeStep, CreateStep
<1>7. ASSUME NEW s \in Senders, SendRead(s) \/ SendToChannel(s) \/ SendMark(s) PROVE OutreachInv'
  BY <1>7, SenderStep
<1>8. ASSUME NEW i \in DOMAIN opps, Dismiss(i) \/ Snooze(i) \/ WakeSnoozed(i) PROVE OutreachInv'
  BY <1>8, MerchantStep
<1>9. CASE \/ \E o \in Orders : AttachRead(o) \/ AttachWrite(o)
           \/ CheckOut \/ ExpireForCheckedOutCart
  BY <1>9, OrderStep
<1> QED
  BY <1>1, <1>2, <1>3, <1>4, <1>5, <1>6, <1>7, <1>8, <1>9 DEF OutreachNext

LEMMA OutreachInvariant == OutreachSpec => []OutreachInv
<1>1. OutreachInit => OutreachInv
  BY OutreachAssumption, OutreachStarts
<1>2. OutreachInv /\ [OutreachNext]_outreachVars => OutreachInv'
  BY OutreachAssumption, OutreachStep
<1> QED
  BY <1>1, <1>2, PTL DEF OutreachSpec

(***************************************************************************)
(* However many suggestions, runs, requests and orders there are, every    *)
(* row has a known status and every run works on a row that exists within  *)
(* the attempts the queue gives it.                                        *)
(***************************************************************************)
THEOREM OutreachTypes == OutreachSpec => []OutreachTypeOK
<1>1. OutreachInv => OutreachTypeOK
  <2> SUFFICES ASSUME OutreachInv PROVE OutreachTypeOK
    OBVIOUS
  <2>1. OutreachTyped /\ nudges <= MaxTries /\ MaxTries \in Nat
    BY OutreachAssumption DEF OutreachInv, NudgesCounted, OutreachAssumption
  <2>2. \A i \in DOMAIN opps : opps[i] \in OppRow
    BY <2>1 DEF OutreachTyped
  <2>3. \A i \in DOMAIN opps : opps[i].status \in OppStatuses
    BY <2>2 DEF OppRow
  <2>4. \A k \in Makers : maker[k].tries \in 0..MaxTries
    BY <2>1 DEF OutreachTyped, MakerSlot
  <2>5. nudges \in 0..MaxTries
    BY <2>1 DEF OutreachTyped
  <2> QED
    BY <2>1, <2>3, <2>4, <2>5 DEF OutreachTyped, OutreachTypeOK
<1> QED
  BY <1>1, OutreachInvariant, PTL

(***************************************************************************)
(* "Never CONVERTED: that status implies the opportunity was actually      *)
(* sent", however runs, merchants and orders write over each other's       *)
(* statuses (opportunity.service.ts).                                      *)
(***************************************************************************)
THEOREM FunnelIsAlwaysTrue == OutreachSpec => []FunnelIsTrue
<1>1. OutreachInv => FunnelIsTrue
  BY DEF OutreachInv, ToldBefore
<1> QED
  BY <1>1, OutreachInvariant, PTL

(***************************************************************************)
(* The cart's job, retried after a failure of any of its steps, keeps to   *)
(* one live suggestion about a cart that is not ordered yet: it looks for  *)
(* one first, and the queue holds one job of a cart (abandoned-cart.ts).   *)
(***************************************************************************)
THEOREM OneNudgeIsLive == OutreachSpec => []OneLiveNudge
<1>1. OutreachInv => OneLiveNudge
  <2> SUFFICES ASSUME OutreachInv, cart = "ACTIVE"
               PROVE  Cardinality({i \in Nudges : opps[i].status \in LiveStatuses}) <= 1
    BY DEF OneLiveNudge
  <2> DEFINE live == {i \in Nudges : opps[i].status \in LiveStatuses}
  <2>1. \A i, j \in live : i = j
    BY DEF OutreachInv, NudgedOnce
  <2>2. live = {} \/ \E i \in live : live = {i}
    BY <2>1
  <2>3. Cardinality(live) = 0 \/ Cardinality(live) = 1
    BY <2>2, FS_EmptySet, FS_Singleton
  <2> QED
    BY <2>3
<1> QED
  BY <1>1, OutreachInvariant, PTL

-----------------------------------------------------------------------------
(***************************************************************************)
(* The button-driven shop: whatever tap or late handler wrote the          *)
(* conversation last, its prompt has what the answer is for.               *)
(***************************************************************************)
FlowShape ==
  /\ state \in States /\ pending \in Variants \cup {Absent}
  /\ address \in 0..MaxOrders \cup {Absent} /\ method \in BOOLEAN
  /\ basket \subseteq Variants /\ orders \in 0..MaxOrders
  /\ PromptHasItsItem

\* what one message may do: an address is kept, given now or dropped, and an order takes it
Turned(from) ==
  /\ FlowShape'
  /\ \/ orders' = orders /\ address' \in {address, Absent, orders}
     \/ from.ready /\ basket # {} /\ address' = Absent

\* an address in hand was given since the last order, if no two messages were handled at once
FreshlyGiven ==
  ~disturbed =>
    /\ handling = Absent => address \in {Absent, orders}
    /\ handling # Absent /\ ~handling.placed => /\ address \in {Absent, orders}
                                                /\ handling.ready => address # Absent
    /\ handling # Absent /\ handling.placed => basket = {}

FlowInv == FlowTypeOK /\ PromptHasItsItem /\ FreshlyGiven

NeedNothing == {"IDLE", "CART_REVIEW", "COLLECTING_ADDRESS"} \cup Browsing

LEMMA StayTurns == ASSUME FlowShape, NEW from, Stay PROVE Turned(from)
BY DEF Stay, Turned, FlowShape, PromptHasItsItem

LEMMA MoveTurns == ASSUME FlowShape, NEW from, NEW s \in NeedNothing, MoveTo(s) PROVE Turned(from)
BY DEF NeedNothing, MoveTo, Turned, FlowShape, PromptHasItsItem, States, Browsing

LEMMA PromptTurns ==
  ASSUME FlowShape, NEW from, NEW s, NEW v, Prompt(s, v),
         \/ s \in NeedNothing /\ v \in Variants \cup {Absent}
         \/ s = "AWAITING_QUANTITY" /\ v \in Variants,
         FlowAssumption
  PROVE  Turned(from)
BY DEF NeedNothing, Prompt, Turned, FlowShape, PromptHasItsItem, States, Browsing, FlowAssumption

LEMMA OnlyTheCartTurns ==
  ASSUME FlowShape, NEW from, NEW baskets \in SUBSET SUBSET Variants, OnlyTheCart(baskets) PROVE Turned(from)
BY DEF OnlyTheCart, Turned, FlowShape, PromptHasItsItem

LEMMA PagesTurn ==
  ASSUME FlowAssumption, FlowShape, NEW from,
         \/ SendMainMenu \/ ShowProducts \/ ShowShop \/ ShowProductDetail \/ AskQuantity
         \/ SimilarProductsShown \/ ShowCart \/ PromptForVariant \/ ListFound \/ BeginCheckout \/ Restart
  PROVE  Turned(from)
<1> USE StayTurns, MoveTurns, PromptTurns
<1>1. NeedNothing = {"IDLE", "CART_REVIEW", "COLLECTING_ADDRESS", "MAIN_MENU", "BROWSING_CATEGORIES",
                     "BROWSING_PRODUCTS", "VIEWING_PRODUCT"}
  BY DEF NeedNothing, Browsing
<1>2. CASE SendMainMenu
  BY <1>1, <1>2 DEF SendMainMenu
<1>3. CASE ShowProducts
  BY <1>1, <1>3 DEF ShowProducts
<1>4. CASE ShowShop
  BY <1>1, <1>4 DEF ShowShop, ShowProducts
<1>5. CASE ShowProductDetail
  <2>1. \A v \in Alone : v \in Variants
    BY DEF FlowAssumption
  <2>2. ASSUME NEW v \in Alone, Prompt("AWAITING_QUANTITY", v) PROVE Turned(from)
    BY <2>1, <2>2
  <2>3. CASE Prompt("VIEWING_PRODUCT", Absent)
    BY <1>1, <2>3
  <2>4. CASE Stay \/ MoveTo("VIEWING_PRODUCT")
    BY <1>1, <2>4
  <2> QED
    BY <1>5, <2>2, <2>3, <2>4 DEF ShowProductDetail
<1>6. CASE AskQuantity
  BY <1>6 DEF AskQuantity
<1>7. CASE SimilarProductsShown
  BY <1>1, <1>7 DEF SimilarProductsShown
<1>8. CASE ShowCart
  BY <1>1, <1>8 DEF ShowCart
<1>9. CASE PromptForVariant
  BY <1>1, <1>9 DEF PromptForVariant
<1>10. CASE ListFound
  BY <1>1, <1>10 DEF ListFound
<1>11. CASE BeginCheckout \/ Restart
  BY <1>1, <1>11 DEF BeginCheckout, Restart, ShowCart
<1> QED
  BY <1>2, <1>3, <1>4, <1>5, <1>6, <1>7, <1>8, <1>9, <1>10, <1>11

LEMMA CartTurns ==
  ASSUME FlowShape, NEW from, MutateCartItem \/ QuickAddToCart \/ ClearCart PROVE Turned(from)
<1>1. CASE MutateCartItem
  <2>1. PICK v \in Variants :
          LET baskets == {basket, basket \cup {v}, basket \ {v}}
          IN  \/ /\ state' = "BROWSING_PRODUCTS" /\ basket' \in baskets
                 /\ UNCHANGED <<pending, address, method, orders>>
              \/ OnlyTheCart(baskets)
    BY <1>1 DEF MutateCartItem
  <2> DEFINE baskets == {basket, basket \cup {v}, basket \ {v}}
  <2>2. baskets \in SUBSET SUBSET Variants
    BY DEF FlowShape
  <2>3. CASE OnlyTheCart(baskets)
    BY <2>2, <2>3, OnlyTheCartTurns
  <2>4. CASE ~OnlyTheCart(baskets)
    <3>1. state' = "BROWSING_PRODUCTS" /\ basket' \in baskets /\ UNCHANGED <<pending, address, method, orders>>
      BY <2>1, <2>4
    <3> QED
      BY <2>2, <3>1 DEF Turned, FlowShape, PromptHasItsItem, States
  <2> QED
    BY <2>3, <2>4
<1>2. CASE QuickAddToCart
  BY <1>2, StayTurns DEF QuickAddToCart, Turned, FlowShape, PromptHasItsItem, States
<1>3. CASE ClearCart
  BY <1>3 DEF ClearCart, Turned, FlowShape, PromptHasItsItem
<1> QED
  BY <1>1, <1>2, <1>3

LEMMA SearchTurns ==
  ASSUME FlowAssumption, FlowShape, NEW from, Search PROVE Turned(from)
BY StayTurns, PagesTurn, CartTurns
   DEF Search, TryOrdinalReference, TryCartAdd, TrySetCartQuantity, TryRemoveFromCart, TryViewCart,
       TryRecommendationPick, TryProductDetailsByName

\* only a prompt that has its item takes a text for a quantity
LEMMA QuantityNeedsItem ==
  ASSUME NEW item \in Variants \cup {Absent}, "quantity" \in QuantityReadings[item]
  PROVE  item \in Variants
<1>1. PICK reply \in Replies : ReadQuantityReply(reply, item) = "quantity"
  BY DEF QuantityReadings
<1>2. item # Absent
  BY <1>1 DEF ReadQuantityReply
<1> QED
  BY <1>2

LEMMA QuantityTurns ==
  ASSUME FlowAssumption, FlowShape, NEW from \in Snapshots, ReceiveQuantity(from) PROVE Turned(from)
<1>1. PICK reading \in QuantityReadings[from.item] :
        \/ reading = "request" /\ Search
        \/ reading = "unclear" /\ Stay
        \/ /\ reading = "quantity"
           /\ \/ Prompt("BROWSING_PRODUCTS", Absent)
              \/ OnlyTheCart({basket, basket \cup {from.item}})
              \/ /\ state' = "CART_REVIEW" /\ pending' = Absent
                 /\ basket' = basket \cup {from.item}
                 /\ UNCHANGED <<address, method, orders>>
  BY DEF ReceiveQuantity
<1>2. from.item \in Variants \cup {Absent}
  BY DEF Snapshots
<1>3. CASE reading # "quantity"
  BY <1>1, <1>3, SearchTurns, StayTurns
<1>4. CASE reading = "quantity"
  <2>1. from.item \in Variants
    BY <1>2, <1>4, QuantityNeedsItem
  <2>2. {basket, basket \cup {from.item}} \in SUBSET SUBSET Variants
    BY <2>1 DEF FlowShape
  <2>3. CASE Prompt("BROWSING_PRODUCTS", Absent)
    BY <2>3, PromptTurns DEF NeedNothing, Browsing
  <2>4. CASE OnlyTheCart({basket, basket \cup {from.item}})
    BY <2>2, <2>4, OnlyTheCartTurns
  <2>5. CASE /\ state' = "CART_REVIEW" /\ pending' = Absent
             /\ basket' = basket \cup {from.item} /\ UNCHANGED <<address, method, orders>>
    <3>1. basket' \subseteq Variants
      BY <2>1, <2>5 DEF FlowShape
    <3> QED
      BY <2>5, <3>1 DEF Turned, FlowShape, PromptHasItsItem, States
  <2> QED
    BY <1>1, <1>4, <2>3, <2>4, <2>5
<1> QED
  BY <1>3, <1>4

LEMMA CheckoutTurns ==
  ASSUME FlowAssumption, FlowShape, NEW from,
         ReceiveAddress \/ SetPaymentMethod \/ CancelCheckout \/ ConfirmOrder(from)
  PROVE  Turned(from)
<1>1. MaxOrders \in Nat /\ orders \in 0..MaxOrders /\ Absent \notin Nat
  BY DEF FlowShape, FlowAssumption
<1>2. CASE ReceiveAddress
  BY <1>1, <1>2, StayTurns DEF ReceiveAddress, Turned, FlowShape, PromptHasItsItem, States
<1>3. CASE SetPaymentMethod
  BY <1>3 DEF SetPaymentMethod, Turned, FlowShape, PromptHasItsItem, States
<1>4. CASE CancelCheckout
  BY <1>4 DEF CancelCheckout, Turned, FlowShape, PromptHasItsItem, States
<1>5. CASE ConfirmOrder(from)
  <2>1. CASE Restart \/ Stay
    BY <2>1, PagesTurn, StayTurns
  <2>2. CASE CanPlace(from) /\ orders' = orders + 1 /\ basket' = {} /\ AfterOrder
    <3>1. from.ready /\ basket # {} /\ orders' \in 0..MaxOrders
      BY <1>1, <2>2 DEF CanPlace
    <3> QED
      BY <2>2, <3>1 DEF AfterOrder, Cleared, Turned, FlowShape, PromptHasItsItem, States
  <2> QED
    BY <1>5, <2>1, <2>2 DEF ConfirmOrder
<1> QED
  BY <1>2, <1>3, <1>4, <1>5

LEMMA TurnsAreGood ==
  ASSUME FlowAssumption, FlowShape, NEW from \in Snapshots, HandleTurn(from) PROVE Turned(from)
<1>1. CASE SendMainMenu
  BY <1>1, PagesTurn
<1>2. CASE HandleInteractive(from)
  BY <1>2, PagesTurn, CartTurns, CheckoutTurns, StayTurns DEF HandleInteractive, ShowOrders, RetryPayment
<1>3. CASE HandleFreeText(from)
  <2>1. CASE TryResolveReference
    BY <2>1, PromptTurns DEF TryResolveReference
  <2> QED
    BY <1>3, <2>1, QuantityTurns, CheckoutTurns, SearchTurns, StayTurns DEF HandleFreeText
<1> QED
  BY <1>1, <1>2, <1>3 DEF HandleTurn

LEMMA ReadingTyped == ASSUME FlowTypeOK PROVE FlowReading \in Snapshots /\ ~FlowReading.placed
<1>1. Asks \in {"quantity", "address", "tap", "anything", "chat"}
  BY DEF Asks, FlowTypeOK, States, Browsing
<1> QED
  BY <1>1 DEF FlowReading, Snapshots, FlowTypeOK

LEMMA FlowStep == ASSUME FlowAssumption, FlowInv, [FlowNext]_flowVars PROVE FlowInv'
<1>1. FlowTypeOK /\ FlowShape /\ FreshlyGiven
  BY DEF FlowInv, FlowTypeOK, FlowShape
<1>2. FlowReading \in Snapshots /\ ~FlowReading.placed /\ FlowReading.ready = (address # Absent /\ method)
  BY <1>1, ReadingTyped DEF FlowReading
<1>3. Absent \notin Nat /\ Absent \notin Snapshots /\ MaxOrders \in Nat
  BY DEF FlowAssumption
<1>4. CASE UNCHANGED flowVars
  BY <1>4 DEF flowVars, FlowInv, FlowTypeOK, PromptHasItsItem, FreshlyGiven
<1>5. CASE FlowAtOnce
  <2>1. Turned(FlowReading) /\ handling' = handling /\ escalated' = escalated
    BY <1>1, <1>2, <1>5, TurnsAreGood DEF FlowAtOnce
  <2>2. disturbed' = (disturbed \/ handling # Absent)
    BY <1>5 DEF FlowAtOnce
  <2>3. FlowTypeOK' /\ PromptHasItsItem'
    BY <1>1, <2>1, <2>2 DEF Turned, FlowTypeOK, FlowShape
  <2>4. FreshlyGiven'
    BY <1>1, <2>1, <2>2 DEF Turned, FreshlyGiven
  <2> QED
    BY <2>3, <2>4 DEF FlowInv
<1>6. CASE StartFlow
  BY <1>1, <1>2, <1>6 DEF StartFlow, FlowInv, FlowTypeOK, PromptHasItsItem, FreshlyGiven
<1>7. CASE FinishFlow
  <2>1. handling \in Snapshots /\ handling # Absent /\ ~handling.placed /\ handling' = Absent
    BY <1>1, <1>7 DEF FinishFlow, FlowTypeOK
  <2>2. Turned(handling) /\ UNCHANGED <<escalated, disturbed>>
    BY <1>1, <1>7, <2>1, TurnsAreGood DEF FinishFlow
  <2>3. FlowTypeOK' /\ PromptHasItsItem'
    BY <1>1, <2>1, <2>2 DEF Turned, FlowTypeOK, FlowShape
  <2>4. FreshlyGiven'
    BY <1>1, <2>1, <2>2 DEF Turned, FreshlyGiven
  <2> QED
    BY <2>3, <2>4 DEF FlowInv
<1>8. CASE Place
  <2>1. /\ handling \in Snapshots /\ ~handling.placed /\ orders < MaxOrders
        /\ orders' = orders + 1 /\ basket' = {} /\ handling' = [handling EXCEPT !.placed = TRUE]
        /\ UNCHANGED <<state, pending, address, method, escalated, disturbed>>
    BY <1>1, <1>8 DEF Place, CanPlace, FlowTypeOK
  <2>2. handling' \in Snapshots /\ handling'.placed
    BY <2>1 DEF Snapshots
  <2>3. handling' # Absent
    BY <1>3, <2>2
  <2>4. orders' \in 0..MaxOrders
    BY <1>1, <1>3, <2>1 DEF FlowTypeOK
  <2>5. FlowTypeOK' /\ PromptHasItsItem'
    BY <1>1, <2>1, <2>2, <2>4 DEF FlowTypeOK, FlowShape, PromptHasItsItem
  <2>6. FreshlyGiven'
    BY <2>1, <2>2, <2>3 DEF FreshlyGiven
  <2> QED
    BY <2>5, <2>6 DEF FlowInv
<1>9. CASE RecordPlaced
  <2>1. FlowTypeOK' /\ PromptHasItsItem'
    BY <1>1, <1>9 DEF RecordPlaced, AfterOrder, Cleared, FlowTypeOK, PromptHasItsItem, States
  <2>2. FreshlyGiven'
    BY <1>9 DEF RecordPlaced, AfterOrder, Cleared, FreshlyGiven
  <2> QED
    BY <2>1, <2>2 DEF FlowInv
<1>10. CASE Die
  BY <1>1, <1>10 DEF Die, FlowInv, FlowTypeOK, FlowShape, PromptHasItsItem, FreshlyGiven
<1>11. CASE EscalateOrResume
  BY <1>1, <1>11 DEF EscalateOrResume, FlowInv, FlowTypeOK, FlowShape, PromptHasItsItem, FreshlyGiven
<1> QED
  BY <1>4, <1>5, <1>6, <1>7, <1>8, <1>9, <1>10, <1>11 DEF FlowNext

LEMMA FlowStarts == ASSUME FlowAssumption, FlowInit PROVE FlowInv
<1>1. 0 \in 0..MaxOrders
  BY DEF FlowAssumption
<1>2. FlowTypeOK
  BY <1>1 DEF FlowInit, FlowTypeOK, States
<1>3. PromptHasItsItem /\ FreshlyGiven
  BY DEF FlowInit, PromptHasItsItem, FreshlyGiven
<1> QED
  BY <1>2, <1>3 DEF FlowInv

LEMMA FlowInvariant == FlowSpec => []FlowInv
<1>1. FlowInit => FlowInv
  BY FlowAssumption, FlowStarts
<1>2. FlowInv /\ [FlowNext]_flowVars => FlowInv'
  BY FlowAssumption, FlowStep
<1> QED
  BY <1>1, <1>2, PTL DEF FlowSpec

(***************************************************************************)
(* Whatever tap arrives in whatever prompt, the variables of the           *)
(* conversation keep their types, for any catalogue and number of orders.  *)
(***************************************************************************)
THEOREM FlowTypes == FlowSpec => []FlowTypeOK
<1>1. FlowInv => FlowTypeOK
  BY DEF FlowInv
<1> QED
  BY <1>1, FlowInvariant, PTL

(***************************************************************************)
(* A number typed at "how many?" has an item, a payment choice an address  *)
(* and a confirmation a method, in every conversation                      *)
(* (shopping-flow.service.ts, receiveQuantity and confirmOrder).           *)
(***************************************************************************)
THEOREM PromptsHaveTheirItem == FlowSpec => []PromptHasItsItem
<1>1. FlowInv => PromptHasItsItem
  BY DEF FlowInv
<1> QED
  BY <1>1, FlowInvariant, PTL

\* an order that is placed takes the address in hand
LEMMA OrdersTakeTheAddress ==
  ASSUME FlowAssumption, FlowInv, [FlowNext]_flowVars, orders' # orders, ~disturbed PROVE address = orders
<1>1. FlowTypeOK /\ FlowShape /\ FreshlyGiven
  BY DEF FlowInv, FlowTypeOK, FlowShape
<1>2. FlowReading \in Snapshots /\ FlowReading.ready = (address # Absent /\ method)
  BY <1>1, ReadingTyped DEF FlowReading
<1>3. CASE FlowAtOnce
  <2>1. Turned(FlowReading)
    BY <1>1, <1>2, <1>3, TurnsAreGood DEF FlowAtOnce
  <2>2. address # Absent /\ basket # {}
    BY <1>2, <2>1 DEF Turned
  <2> QED
    BY <1>1, <2>2 DEF FreshlyGiven
<1>4. CASE FinishFlow
  <2>1. handling \in Snapshots /\ handling # Absent /\ ~handling.placed
    BY <1>1, <1>4 DEF FinishFlow, FlowTypeOK
  <2>2. Turned(handling)
    BY <1>1, <1>4, <2>1, TurnsAreGood DEF FinishFlow
  <2>3. handling.ready
    BY <2>2 DEF Turned
  <2> QED
    BY <1>1, <2>1, <2>3 DEF FreshlyGiven
<1>5. CASE Place
  <2>1. handling # Absent /\ ~handling.placed /\ handling.ready
    BY <1>5 DEF Place, CanPlace
  <2> QED
    BY <1>1, <2>1 DEF FreshlyGiven
<1>6. CASE StartFlow \/ RecordPlaced \/ Die \/ EscalateOrResume \/ UNCHANGED flowVars
  BY <1>6 DEF StartFlow, RecordPlaced, Die, EscalateOrResume, flowVars
<1> QED
  BY <1>3, <1>4, <1>5, <1>6 DEF FlowNext

(***************************************************************************)
(* An order goes to an address the customer gave after the previous order  *)
(* unless two messages were handled at once or a handler died between the  *)
(* order and the update of the conversation (confirmOrder).                *)
(***************************************************************************)
THEOREM AddressesAreFresh == FlowSpec => AddressIsFresh
<1>1. FlowInv /\ [FlowNext]_flowVars => [(orders' # orders /\ ~disturbed) => address = orders]_flowVars
  BY FlowAssumption, OrdersTakeTheAddress
<1> QED
  BY <1>1, FlowInvariant, PTL DEF FlowSpec, AddressIsFresh

-----------------------------------------------------------------------------
(***************************************************************************)
(* The messages of one sender: a WhatsApp message is handled once, by the  *)
(* handler whose create filed it.                                          *)
(***************************************************************************)
HookPcs == {"idle", "newCustomer", "conv", "newConv", "schedule", "file", "upsert", "route", "think",
            "record", "send", "done"}
Keys == OrderKeys \cup {NoKey}
ConvRow == [customer : Nat, escalated : BOOLEAN, lastKey : Keys, active : Nat,
            job : {"none", "waiting", "draft", "done"}, replied : BOOLEAN, draft : BOOLEAN]
AgentOrder == [key : Keys, status : {"unpaid", "paid", "cancelled"}]
HookSlot == [pc : HookPcs, msg : Messages, cust : Nat, conv : Nat, dup : BOOLEAN, key : Keys,
             seen : [lastKey : Keys, active : Nat]]

\* c customers, n conversations and k orders there are
HookFits(x, c, n, k) ==
  /\ x \in HookSlot
  /\ x.cust \in 0..c /\ x.conv \in 0..n /\ x.seen.active \in 0..k
  /\ x.pc \in {"conv", "newConv"} => x.cust # 0
  /\ x.pc \in {"schedule", "file", "upsert", "route", "think", "record", "send"} => x.conv # 0
ConvFits(v, c, k) == v \in ConvRow /\ v.customer \in 1..c /\ v.active \in 0..k

IntakeTyped ==
  /\ channel \in {"WHATSAPP", "UPSERT"}
  /\ customers \in 0..MaxConvs /\ faults \in 0..MaxFaults
  /\ convs \in Seq(ConvRow) /\ Len(convs) <= MaxConvs
  /\ agentOrders \in Seq(AgentOrder) /\ Len(agentOrders) <= MaxAgentOrders
  /\ hook \in [Deliveries -> HookSlot]
  /\ filed \in [Messages -> 0..Len(convs)] /\ handled \in [Messages -> Nat]
  /\ \A i \in DOMAIN convs : ConvFits(convs[i], customers, Len(agentOrders))
  /\ \A d \in Deliveries : HookFits(hook[d], customers, Len(convs), Len(agentOrders))

\* a WhatsApp message goes from its filing to its handler in one step
FiledThenHandled ==
  channel = "WHATSAPP" =>
    /\ \A d \in Deliveries : hook[d].pc # "upsert"
    /\ \A m \in Messages : handled[m] <= 1 /\ (filed[m] = 0 => handled[m] = 0)

IntakeInv == IntakeTyped /\ FiledThenHandled

LEMMA IntakeNow ==
  ASSUME IntakeAssumption, IntakeInv
  PROVE  /\ Len(convs) \in Nat /\ Len(agentOrders) \in Nat /\ customers \in Nat /\ faults \in Nat
         /\ DOMAIN convs = 1..Len(convs) /\ DOMAIN agentOrders = 1..Len(agentOrders)
         /\ MaxConvs \in Nat /\ MaxAgentOrders \in Nat /\ MaxFaults \in Nat
         /\ \A i \in DOMAIN convs : convs[i] \in ConvRow
         /\ \A o \in DOMAIN agentOrders : agentOrders[o] \in AgentOrder
BY DEF IntakeAssumption, IntakeInv, IntakeTyped

\* what a step may make of the customers, the conversations, the orders, the handlers and the filing
CustomersGrow == customers' \in 0..MaxConvs /\ customers <= customers'
ConvsGrow ==
  /\ convs' \in Seq(ConvRow) /\ Len(convs) <= Len(convs') /\ Len(convs') <= MaxConvs
  /\ \A i \in DOMAIN convs' : ConvFits(convs'[i], customers', Len(agentOrders'))
OrdersGrow ==
  /\ agentOrders' \in Seq(AgentOrder)
  /\ Len(agentOrders) <= Len(agentOrders') /\ Len(agentOrders') <= MaxAgentOrders
HookMay(x) ==
  /\ HookFits(x, customers', Len(convs'), Len(agentOrders'))
  /\ x.pc = "upsert" => channel # "WHATSAPP"
HooksMove ==
  /\ hook' \in [Deliveries -> HookSlot]
  /\ \A e \in Deliveries : hook'[e] = hook[e] \/ HookMay(hook'[e])
FilingGoesOn ==
  /\ filed' \in [Messages -> 0..Len(convs')] /\ handled' \in [Messages -> Nat]
  /\ channel = "WHATSAPP" => \A m \in Messages : handled'[m] <= 1 /\ (filed'[m] = 0 => handled'[m] = 0)

LEMMA IntakeMoves ==
  ASSUME IntakeAssumption, IntakeInv, channel' = channel, faults' \in 0..MaxFaults,
         CustomersGrow, ConvsGrow, OrdersGrow, HooksMove, FilingGoesOn
  PROVE  IntakeInv'
<1>1. /\ Len(convs) \in Nat /\ Len(convs') \in Nat /\ Len(agentOrders) \in Nat /\ Len(agentOrders') \in Nat
      /\ customers \in Nat /\ customers' \in Nat
  BY IntakeNow DEF ConvsGrow, OrdersGrow, CustomersGrow
<1>2. ASSUME NEW e \in Deliveries PROVE HookFits(hook'[e], customers', Len(convs'), Len(agentOrders'))
  <2>1. CASE HookMay(hook'[e])
    BY <2>1 DEF HookMay
  <2>2. CASE hook'[e] = hook[e]
    <3>1. HookFits(hook[e], customers, Len(convs), Len(agentOrders))
      BY DEF IntakeInv, IntakeTyped
    <3>2. customers <= customers' /\ Len(convs) <= Len(convs') /\ Len(agentOrders) <= Len(agentOrders')
      BY DEF ConvsGrow, OrdersGrow, CustomersGrow
    <3> QED
      BY <1>1, <2>2, <3>1, <3>2 DEF HookFits
  <2> QED
    BY <2>1, <2>2 DEF HooksMove
<1>3. IntakeTyped'
  BY <1>2 DEF IntakeInv, IntakeTyped, CustomersGrow, ConvsGrow, OrdersGrow, HooksMove, FilingGoesOn
<1>4. FiledThenHandled'
  <2> SUFFICES ASSUME channel = "WHATSAPP"
               PROVE  /\ \A d \in Deliveries : hook'[d].pc # "upsert"
                      /\ \A m \in Messages : handled'[m] <= 1 /\ (filed'[m] = 0 => handled'[m] = 0)
    BY DEF FiledThenHandled
  <2>1. \A d \in Deliveries : hook'[d].pc # "upsert"
    BY DEF IntakeInv, FiledThenHandled, HooksMove, HookMay
  <2> QED
    BY <2>1 DEF FilingGoesOn
<1> QED
  BY <1>3, <1>4 DEF IntakeInv

LEMMA CustomersStay ==
  ASSUME IntakeAssumption, IntakeInv, customers' = customers PROVE CustomersGrow
BY IntakeNow DEF IntakeInv, IntakeTyped, CustomersGrow

LEMMA ConvsStay ==
  ASSUME IntakeAssumption, IntakeInv, CustomersGrow, OrdersGrow, convs' = convs PROVE ConvsGrow
<1>1. \A i \in DOMAIN convs : ConvFits(convs[i], customers, Len(agentOrders))
  BY DEF IntakeInv, IntakeTyped
<1>2. /\ customers \in Nat /\ customers' \in Nat /\ customers <= customers'
      /\ Len(agentOrders) \in Nat /\ Len(agentOrders') \in Nat /\ Len(agentOrders) <= Len(agentOrders')
  BY IntakeNow DEF CustomersGrow, OrdersGrow
<1>3. \A i \in DOMAIN convs : ConvFits(convs[i], customers', Len(agentOrders'))
  BY <1>1, <1>2 DEF ConvFits
<1>4. convs \in Seq(ConvRow) /\ Len(convs) <= MaxConvs /\ Len(convs) \in Nat
  BY IntakeNow DEF IntakeInv, IntakeTyped
<1> QED
  BY <1>3, <1>4 DEF ConvsGrow

LEMMA ConvUpdated ==
  ASSUME IntakeAssumption, IntakeInv, CustomersGrow, OrdersGrow, NEW i \in DOMAIN convs, NEW v \in ConvRow,
         convs' = [convs EXCEPT ![i] = v], v.customer = convs[i].customer, v.active \in 0..Len(agentOrders')
  PROVE  ConvsGrow
<1>1. \A j \in DOMAIN convs : ConvFits(convs[j], customers, Len(agentOrders))
  BY DEF IntakeInv, IntakeTyped
<1>2. /\ customers \in Nat /\ customers' \in Nat /\ customers <= customers'
      /\ Len(agentOrders) \in Nat /\ Len(agentOrders') \in Nat /\ Len(agentOrders) <= Len(agentOrders')
  BY IntakeNow DEF CustomersGrow, OrdersGrow
<1>3. \A j \in DOMAIN convs : ConvFits(convs[j], customers', Len(agentOrders'))
  BY <1>1, <1>2 DEF ConvFits
<1>4. ConvFits(v, customers', Len(agentOrders'))
  BY <1>3 DEF ConvFits
<1>5. convs \in Seq(ConvRow) /\ Len(convs) <= MaxConvs /\ Len(convs) \in Nat
  BY IntakeNow DEF IntakeInv, IntakeTyped
<1>6. convs' \in Seq(ConvRow) /\ Len(convs') = Len(convs) /\ DOMAIN convs' = DOMAIN convs
  BY <1>5
<1>7. \A j \in DOMAIN convs' : ConvFits(convs'[j], customers', Len(agentOrders'))
  BY <1>3, <1>4, <1>5
<1> QED
  BY <1>5, <1>6, <1>7 DEF ConvsGrow

LEMMA OrdersStay ==
  ASSUME IntakeAssumption, IntakeInv, agentOrders' = agentOrders PROVE OrdersGrow
BY IntakeNow DEF IntakeInv, IntakeTyped, OrdersGrow

LEMMA OrderUpdated ==
  ASSUME IntakeAssumption, IntakeInv, NEW o \in DOMAIN agentOrders, NEW v \in AgentOrder,
         agentOrders' = [agentOrders EXCEPT ![o] = v]
  PROVE  OrdersGrow /\ Len(agentOrders') = Len(agentOrders)
<1>1. agentOrders \in Seq(AgentOrder) /\ Len(agentOrders) <= MaxAgentOrders /\ Len(agentOrders) \in Nat
  BY IntakeNow DEF IntakeInv, IntakeTyped
<1>2. agentOrders' \in Seq(AgentOrder) /\ Len(agentOrders') = Len(agentOrders)
  BY <1>1
<1> QED
  BY <1>1, <1>2 DEF OrdersGrow

LEMMA HooksStay ==
  ASSUME IntakeInv, hook' = hook PROVE HooksMove
BY DEF IntakeInv, IntakeTyped, HooksMove

LEMMA HookGoes ==
  ASSUME IntakeInv, NEW d \in Deliveries, NEW x, hook' = [hook EXCEPT ![d] = x], HookMay(x) PROVE HooksMove
<1>1. hook \in [Deliveries -> HookSlot] /\ x \in HookSlot
  BY DEF IntakeInv, IntakeTyped, HookMay, HookFits
<1>2. hook'[d] = x /\ \A e \in Deliveries \ {d} : hook'[e] = hook[e]
  BY <1>1
<1> QED
  BY <1>1, <1>2 DEF HooksMove

LEMMA FilingStays ==
  ASSUME IntakeAssumption, IntakeInv, ConvsGrow, filed' = filed, handled' = handled PROVE FilingGoesOn
<1>1. Len(convs) \in Nat /\ Len(convs') \in Nat /\ Len(convs) <= Len(convs')
  BY IntakeNow DEF ConvsGrow
<1>2. \A n \in 0..Len(convs) : n \in 0..Len(convs')
  BY <1>1
<1>3. filed' \in [Messages -> 0..Len(convs')]
  BY <1>2 DEF IntakeInv, IntakeTyped
<1> QED
  BY <1>3 DEF IntakeInv, IntakeTyped, FiledThenHandled, FilingGoesOn

\* a step of a handler, with what it did to its conversation
LEMMA HookStep ==
  ASSUME IntakeAssumption, IntakeInv, CustomersGrow, ConvsGrow, OrdersGrow, HooksMove,
         faults' \in 0..MaxFaults, UNCHANGED <<channel, filed, handled>>
  PROVE  IntakeInv'
BY FilingStays, IntakeMoves

LEMMA HookAlone ==
  ASSUME IntakeAssumption, IntakeInv, NEW d \in Deliveries, NEW x, hook' = [hook EXCEPT ![d] = x],
         HookFits(x, customers, Len(convs), Len(agentOrders)), x.pc = "upsert" => channel # "WHATSAPP",
         faults' \in 0..MaxFaults, UNCHANGED <<channel, customers, convs, filed, agentOrders, handled>>
  PROVE  IntakeInv'
<1>1. CustomersGrow /\ OrdersGrow /\ ConvsGrow
  BY CustomersStay, OrdersStay, ConvsStay
<1>2. HooksMove
  BY HookGoes DEF HookMay
<1> QED
  BY <1>1, <1>2, HookStep

\* the handler goes on, or ends
LEMMA HookGoesOn ==
  ASSUME IntakeAssumption, IntakeInv, NEW d \in Deliveries, NEW pc \in HookPcs, Goto(d, pc)
  PROVE  \E x : /\ hook' = [hook EXCEPT ![d] = x] /\ x \in HookSlot /\ x.pc = pc
                /\ pc = "done" => x.cust = 0 /\ x.conv = 0 /\ x.seen.active = 0
                /\ pc # "done" => x.cust = hook[d].cust /\ x.conv = hook[d].conv /\ x.seen = hook[d].seen
<1>1. hook \in [Deliveries -> HookSlot] /\ hook[d] \in HookSlot
  BY DEF IntakeInv, IntakeTyped
<1>2. CASE pc = "done"
  <2> DEFINE x == DoneHook(hook[d].msg)
  <2>1. hook' = [hook EXCEPT ![d] = x]
    BY <1>2 DEF Goto
  <2>2. x \in HookSlot /\ x.pc = "done"
    BY <1>1 DEF HookSlot, DoneHook, IdleHook, NothingSeen, Keys, HookPcs
  <2>3. x.cust = 0 /\ x.conv = 0 /\ x.seen.active = 0
    BY <1>1 DEF DoneHook, IdleHook, NothingSeen
  <2> HIDE DEF x
  <2> QED
    BY <1>2, <2>1, <2>2, <2>3
<1>3. CASE pc # "done"
  <2> DEFINE x == [hook[d] EXCEPT !.pc = pc]
  <2>1. hook' = [hook EXCEPT ![d] = x]
    BY <1>3 DEF Goto
  <2>2. x \in HookSlot /\ x.pc = pc
    BY <1>1 DEF HookSlot
  <2>3. x.cust = hook[d].cust /\ x.conv = hook[d].conv /\ x.seen = hook[d].seen
    BY <1>1 DEF HookSlot
  <2> HIDE DEF x
  <2> QED
    BY <1>3, <2>1, <2>2, <2>3
<1> QED
  BY <1>2, <1>3

\* where it may go from where it is
MayGo(d, pc) ==
  /\ pc \in HookPcs \ {"upsert"}
  /\ pc \in {"conv", "newConv"} => hook[d].cust # 0
  /\ pc \in {"schedule", "file", "route", "think", "record", "send"} => hook[d].conv # 0

LEMMA HookFitsOn ==
  ASSUME IntakeAssumption, IntakeInv, CustomersGrow, ConvsGrow, OrdersGrow,
         NEW d \in Deliveries, NEW pc, MayGo(d, pc), Goto(d, pc)
  PROVE  HooksMove
<1>1. PICK x : /\ hook' = [hook EXCEPT ![d] = x] /\ x \in HookSlot /\ x.pc = pc
               /\ pc = "done" => x.cust = 0 /\ x.conv = 0 /\ x.seen.active = 0
               /\ pc # "done" => x.cust = hook[d].cust /\ x.conv = hook[d].conv /\ x.seen = hook[d].seen
  BY HookGoesOn DEF MayGo
<1>2. HookFits(hook[d], customers, Len(convs), Len(agentOrders))
  BY DEF IntakeInv, IntakeTyped
<1>3. /\ Len(convs) \in Nat /\ Len(convs') \in Nat /\ Len(agentOrders) \in Nat /\ Len(agentOrders') \in Nat
      /\ customers \in Nat /\ customers' \in Nat /\ customers <= customers'
      /\ Len(convs) <= Len(convs') /\ Len(agentOrders) <= Len(agentOrders')
  BY IntakeNow DEF ConvsGrow, OrdersGrow, CustomersGrow
<1>4. x.cust \in 0..customers' /\ x.conv \in 0..Len(convs') /\ x.seen.active \in 0..Len(agentOrders')
  BY <1>1, <1>2, <1>3 DEF HookFits
<1>5. HookMay(x)
  BY <1>1, <1>4 DEF HookMay, HookFits, MayGo, HookPcs
<1> QED
  BY <1>1, <1>5, HookGoes

LEMMA HookGoesAlone ==
  ASSUME IntakeAssumption, IntakeInv, NEW d \in Deliveries, NEW pc, MayGo(d, pc), Goto(d, pc),
         faults' \in 0..MaxFaults, UNCHANGED <<channel, customers, convs, filed, agentOrders, handled>>
  PROVE  IntakeInv'
BY CustomersStay, OrdersStay, ConvsStay, HookFitsOn, HookStep

\* the handler goes on after it wrote to a conversation
LEMMA HookWrites ==
  ASSUME IntakeAssumption, IntakeInv, NEW d \in Deliveries, NEW pc, MayGo(d, pc), Goto(d, pc),
         NEW i \in DOMAIN convs, NEW v \in ConvRow, convs' = [convs EXCEPT ![i] = v],
         v.customer = convs[i].customer, v.active \in 0..Len(agentOrders),
         UNCHANGED <<channel, customers, filed, agentOrders, handled, faults>>
  PROVE  IntakeInv'
<1>1. CustomersGrow /\ OrdersGrow
  BY CustomersStay, OrdersStay
<1>2. ConvsGrow
  BY <1>1, ConvUpdated
<1>3. HooksMove
  BY <1>1, <1>2, HookFitsOn
<1>4. faults' \in 0..MaxFaults
  BY DEF IntakeInv, IntakeTyped
<1> QED
  BY <1>1, <1>2, <1>3, <1>4, HookStep

\* somebody else writes to a conversation
LEMMA ConvWritten ==
  ASSUME IntakeAssumption, IntakeInv,
         NEW i \in DOMAIN convs, NEW v \in ConvRow, convs' = [convs EXCEPT ![i] = v],
         v.customer = convs[i].customer, v.active = convs[i].active,
         faults' \in 0..MaxFaults, UNCHANGED <<channel, customers, filed, agentOrders, hook, handled>>
  PROVE  IntakeInv'
<1>1. CustomersGrow /\ OrdersGrow /\ HooksMove
  BY CustomersStay, OrdersStay, HooksStay
<1>2. v.active \in 0..Len(agentOrders')
  BY DEF IntakeInv, IntakeTyped, ConvFits
<1>3. ConvsGrow
  BY <1>1, <1>2, ConvUpdated
<1> QED
  BY <1>1, <1>3, HookStep

\* what is known of a handler and of its conversation
LEMMA HookNow ==
  ASSUME IntakeAssumption, IntakeInv, NEW d \in Deliveries
  PROVE  /\ hook \in [Deliveries -> HookSlot] /\ hook[d] \in HookSlot
         /\ hook[d].cust \in 0..customers /\ hook[d].conv \in 0..Len(convs)
         /\ hook[d].seen.active \in 0..Len(agentOrders) /\ hook[d].msg \in Messages
         /\ hook[d].pc \in {"conv", "newConv"} => hook[d].cust # 0
         /\ hook[d].pc \in {"schedule", "file", "upsert", "route", "think", "record", "send"} =>
              hook[d].conv \in DOMAIN convs
         /\ faults' = faults => faults' \in 0..MaxFaults
<1>1. HookFits(hook[d], customers, Len(convs), Len(agentOrders)) /\ hook \in [Deliveries -> HookSlot]
  BY DEF IntakeInv, IntakeTyped
<1>2. hook[d].conv # 0 => hook[d].conv \in DOMAIN convs
  BY <1>1, IntakeNow DEF HookFits
<1>3. hook[d].msg \in Messages
  BY <1>1 DEF HookSlot
<1>4. faults \in 0..MaxFaults
  BY DEF IntakeInv, IntakeTyped
<1> QED
  BY <1>1, <1>2, <1>3, <1>4 DEF HookFits

LEMMA PcsOfHooks ==
  HookPcs = {"idle", "newCustomer", "conv", "newConv", "schedule", "file", "upsert", "route", "think",
             "record", "send", "done"}
BY DEF HookPcs

LEMMA FindingStep ==
  ASSUME IntakeAssumption, IntakeInv, NEW d \in Deliveries,
         Ignore(d) \/ FindCustomer(d) \/ CreateCustomer(d)
  PROVE  IntakeInv'
<1> USE IntakeNow, HookNow
<1>1. CASE Ignore(d)
  BY <1>1, HookGoesAlone, PcsOfHooks DEF Ignore, MayGo
<1>2. CASE FindCustomer(d)
  <2>1. CASE Goto(d, "newCustomer")
    BY <1>2, <2>1, HookGoesAlone, PcsOfHooks DEF FindCustomer, MayGo
  <2>2. ASSUME NEW c \in 1..customers, hook' = [hook EXCEPT ![d].pc = "conv", ![d].cust = c] PROVE IntakeInv'
    <3> DEFINE x == [hook[d] EXCEPT !.pc = "conv", !.cust = c]
    <3>1. c \in Nat /\ "conv" \in HookPcs
      BY PcsOfHooks
    <3>2. x \in HookSlot /\ x.pc = "conv" /\ x.cust = c
      BY <3>1 DEF HookSlot
    <3>3. x.conv = hook[d].conv /\ x.seen = hook[d].seen
      BY DEF HookSlot
    <3>4. hook' = [hook EXCEPT ![d] = x]
      BY <2>2
    <3> HIDE DEF x
    <3>5. HookFits(x, customers, Len(convs), Len(agentOrders))
      BY <3>2, <3>3 DEF HookFits
    <3>6. UNCHANGED <<channel, customers, convs, filed, agentOrders, handled, faults>>
      BY <1>2 DEF FindCustomer
    <3> QED
      BY <3>2, <3>4, <3>5, <3>6, HookAlone
  <2> QED
    BY <1>2, <2>1, <2>2 DEF FindCustomer
<1>3. CASE CreateCustomer(d)
  <2> DEFINE x == [hook[d] EXCEPT !.pc = "conv", !.cust = customers + 1]
  <2>1. customers < MaxConvs /\ customers' = customers + 1 /\ hook' = [hook EXCEPT ![d] = x]
    BY <1>3 DEF CreateCustomer
  <2>2. customers + 1 \in Nat /\ "conv" \in HookPcs
    BY PcsOfHooks
  <2>3. x \in HookSlot /\ x.pc = "conv" /\ x.cust = customers + 1
    BY <2>2 DEF HookSlot
  <2>4. x.conv = hook[d].conv /\ x.seen = hook[d].seen
    BY DEF HookSlot
  <2>5. UNCHANGED <<channel, convs, filed, agentOrders, handled, faults>>
    BY <1>3 DEF CreateCustomer
  <2> HIDE DEF x
  <2>6. CustomersGrow /\ OrdersGrow
    BY <2>1, <2>5, OrdersStay DEF CustomersGrow
  <2>7. ConvsGrow
    BY <2>5, <2>6, ConvsStay
  <2>8. HookMay(x)
    BY <2>1, <2>3, <2>4, <2>5 DEF HookMay, HookFits
  <2> QED
    BY <2>1, <2>5, <2>6, <2>7, <2>8, HookGoes, HookStep
<1> QED
  BY <1>1, <1>2, <1>3

LEMMA ConversationStep ==
  ASSUME IntakeAssumption, IntakeInv, NEW d \in Deliveries,
         FindConversation(d) \/ CreateConversation(d) \/ ScheduleFollowUp(d)
  PROVE  IntakeInv'
<1> USE IntakeNow, HookNow
<1>1. CASE FindConversation(d)
  <2> DEFINE own == {i \in DOMAIN convs : convs[i].customer = hook[d].cust}
             n == CHOOSE i \in own : \A j \in own : j <= i
             pc == IF own = {} THEN "newConv" ELSE "file"
             conv == IF own = {} THEN 0 ELSE n
  <2>1. hook[d].pc = "conv" /\ UNCHANGED <<channel, customers, convs, filed, agentOrders, handled, faults>>
    BY <1>1 DEF FindConversation
  <2>2. hook' = [hook EXCEPT ![d].pc = pc, ![d].conv = conv]
    BY <1>1 DEF FindConversation
  <2>3. own \subseteq 0..Len(convs)
    OBVIOUS
  <2>4. own # {} => n \in own
    <3> HIDE DEF own
    <3> SUFFICES ASSUME own # {} PROVE n \in own
      OBVIOUS
    <3>1. \E i \in own : \A j \in own : j <= i
      BY <2>3, GreatestNumber
    <3> QED
      BY <3>1
  <2>5. conv \in 0..Len(convs) /\ (pc = "file" => conv # 0) /\ pc \in {"newConv", "file"}
    <3> HIDE DEF n
    <3> QED
      BY <2>4
  <2> HIDE DEF own, n, conv, pc
  <2> DEFINE x == [hook[d] EXCEPT !.pc = pc, !.conv = conv]
  <2>6. pc \in HookPcs /\ conv \in Nat
    BY <2>5, PcsOfHooks
  <2>7. x \in HookSlot /\ x.pc = pc /\ x.conv = conv
    BY <2>6 DEF HookSlot
  <2>8. hook' = [hook EXCEPT ![d] = x]
    BY <2>2
  <2>9. x.cust = hook[d].cust /\ x.seen = hook[d].seen
    BY DEF HookSlot
  <2> HIDE DEF x
  <2>10. HookFits(x, customers, Len(convs), Len(agentOrders))
    BY <2>1, <2>5, <2>7, <2>9 DEF HookFits
  <2> QED
    BY <2>1, <2>5, <2>7, <2>10, <2>8, HookAlone
<1>2. CASE CreateConversation(d)
  <2> DEFINE x == [hook[d] EXCEPT !.pc = "schedule", !.conv = Len(convs) + 1]
             v == NewConv(hook[d].cust)
  <2>1. hook[d].pc = "newConv" /\ Len(convs) < MaxConvs /\ convs' = Append(convs, v)
        /\ hook' = [hook EXCEPT ![d] = x] /\ UNCHANGED <<channel, customers, filed, agentOrders, handled, faults>>
    BY <1>2 DEF CreateConversation
  <2>2. Len(convs) + 1 \in Nat /\ "schedule" \in HookPcs
    BY PcsOfHooks
  <2>3. x \in HookSlot /\ x.pc = "schedule" /\ x.conv = Len(convs) + 1
    BY <2>2 DEF HookSlot
  <2>4. x.cust = hook[d].cust /\ x.seen = hook[d].seen
    BY DEF HookSlot
  <2>5. v \in ConvRow /\ v.customer = hook[d].cust /\ v.active = 0
    BY DEF NewConv, ConvRow, Keys
  <2> HIDE DEF x, v
  <2>6. CustomersGrow /\ OrdersGrow
    BY <2>1, CustomersStay, OrdersStay
  <2>7. /\ convs' \in Seq(ConvRow) /\ Len(convs') = Len(convs) + 1
        /\ DOMAIN convs' = DOMAIN convs \cup {Len(convs) + 1}
        /\ convs'[Len(convs) + 1] = v /\ \A j \in DOMAIN convs : convs'[j] = convs[j]
    <3>1. convs \in Seq(ConvRow)
      BY DEF IntakeInv, IntakeTyped
    <3> QED
      BY <2>1, <2>5, <3>1
  <2>8. ConvFits(v, customers, Len(agentOrders))
    BY <2>1, <2>5 DEF ConvFits
  <2>9. \A i \in DOMAIN convs' : ConvFits(convs'[i], customers', Len(agentOrders'))
    BY <2>1, <2>7, <2>8 DEF IntakeInv, IntakeTyped
  <2>10. ConvsGrow
    BY <2>1, <2>7, <2>9 DEF ConvsGrow
  <2>11. HookMay(x)
    BY <2>1, <2>2, <2>3, <2>4, <2>7 DEF HookMay, HookFits
  <2> QED
    BY <2>1, <2>6, <2>10, <2>11, HookGoes, HookStep
<1>3. CASE ScheduleFollowUp(d)
  <2> DEFINE i == hook[d].conv
             v == [convs[i] EXCEPT !.job = "waiting"]
  <2>1. i \in DOMAIN convs /\ convs' = [convs EXCEPT ![i] = v]
    BY <1>3 DEF ScheduleFollowUp
  <2>2. v \in ConvRow
    BY <2>1 DEF ConvRow
  <2>3. v.customer = convs[i].customer /\ v.active = convs[i].active /\ convs[i].active \in 0..Len(agentOrders)
    BY <2>1 DEF ConvRow, IntakeInv, IntakeTyped, ConvFits
  <2> HIDE DEF v
  <2>4. MayGo(d, "file") /\ Goto(d, "file") /\ UNCHANGED <<channel, customers, filed, agentOrders, handled, faults>>
    BY <1>3, PcsOfHooks DEF ScheduleFollowUp, MayGo
  <2> QED
    BY <2>1, <2>2, <2>3, <2>4, HookWrites
<1> QED
  BY <1>1, <1>2, <1>3

LEMMA FilingStep ==
  ASSUME IntakeAssumption, IntakeInv, NEW d \in Deliveries, ClaimMessage(d) \/ UpsertMessage(d)
  PROVE  IntakeInv'
<1> USE IntakeNow, HookNow
<1>1. CASE LookUpMessage(d) /\ channel # "WHATSAPP"
  <2> DEFINE x == [hook[d] EXCEPT !.pc = "upsert", !.dup = filed[hook[d].msg] # 0]
  <2>1. hook[d].pc = "file" /\ hook' = [hook EXCEPT ![d] = x]
        /\ UNCHANGED <<channel, customers, convs, filed, agentOrders, handled, faults>>
    BY <1>1 DEF LookUpMessage
  <2>2. (filed[hook[d].msg] # 0) \in BOOLEAN /\ "upsert" \in HookPcs
    BY PcsOfHooks
  <2>3. x \in HookSlot /\ x.pc = "upsert"
    BY <2>2 DEF HookSlot
  <2>4. x.conv = hook[d].conv /\ x.cust = hook[d].cust /\ x.seen = hook[d].seen
    BY DEF HookSlot
  <2> HIDE DEF x
  <2>5. HookFits(x, customers, Len(convs), Len(agentOrders))
    BY <2>1, <2>3, <2>4 DEF HookFits
  <2> QED
    BY <1>1, <2>1, <2>5, HookAlone
<1> DEFINE m == hook[d].msg
<1>2. /\ filed \in [Messages -> 0..Len(convs)] /\ handled \in [Messages -> Nat]
      /\ channel = "WHATSAPP" => /\ hook[d].pc # "upsert"
                                 /\ \A b \in Messages : handled[b] <= 1 /\ (filed[b] = 0 => handled[b] = 0)
  BY DEF IntakeInv, IntakeTyped, FiledThenHandled
<1>3. ASSUME hook[d].pc \in {"file", "upsert"}, UNCHANGED <<channel, customers, convs, agentOrders, faults>>,
             filed' = [filed EXCEPT ![m] = IF filed[m] = 0 THEN hook[d].conv ELSE filed[m]] \/ filed' = filed,
             \/ Goto(d, "done") /\ handled' = handled
             \/ HandleMessage(d) /\ (channel = "WHATSAPP" =>
                                       filed[m] = 0 /\ filed' = [filed EXCEPT ![m] = hook[d].conv])
      PROVE  IntakeInv'
  <2>1. CustomersGrow /\ OrdersGrow /\ ConvsGrow
    BY <1>3, CustomersStay, OrdersStay, ConvsStay
  <2>2. hook[d].conv \in 1..Len(convs)
    BY <1>3
  <2>3. filed' \in [Messages -> 0..Len(convs)] /\ \A b \in Messages : filed[b] # 0 => filed'[b] # 0
    BY <1>2, <1>3, <2>2
  <2>4. PICK pc \in {"done", "route"} : Goto(d, pc)
    BY <1>3 DEF HandleMessage
  <2>5. MayGo(d, pc)
    BY <1>3, <2>2, PcsOfHooks DEF MayGo
  <2>6. HooksMove
    BY <2>1, <2>4, <2>5, HookFitsOn
  <2>7. FilingGoesOn
    <3>1. CASE handled' = handled
      BY <1>2, <1>3, <2>3, <3>1 DEF FilingGoesOn
    <3>2. CASE HandleMessage(d) /\ (channel = "WHATSAPP" =>
                                      filed[m] = 0 /\ filed' = [filed EXCEPT ![m] = hook[d].conv])
      <4>1. handled' = [handled EXCEPT ![m] = handled[m] + 1]
        BY <3>2 DEF HandleMessage
      <4>2. handled' \in [Messages -> Nat]
        BY <1>2, <4>1
      <4>3. ASSUME channel = "WHATSAPP", NEW b \in Messages
            PROVE  handled'[b] <= 1 /\ (filed'[b] = 0 => handled'[b] = 0)
        <5>1. CASE b = m
          <6>1. handled[b] = 0 /\ handled'[b] = 1
            BY <1>2, <3>2, <4>1, <4>3, <5>1
          <6>2. filed'[b] # 0
            BY <1>2, <2>2, <3>2, <4>3, <5>1
          <6> QED
            BY <6>1, <6>2
        <5>2. CASE b # m
          BY <1>2, <2>3, <4>1, <4>3, <5>2
        <5> QED
          BY <5>1, <5>2
      <4>4. filed' \in [Messages -> 0..Len(convs')]
        BY <1>3, <2>3
      <4> QED
        BY <4>2, <4>3, <4>4 DEF FilingGoesOn
    <3> QED
      BY <1>3, <3>1, <3>2
  <2> QED
    BY <1>3, <2>1, <2>6, <2>7, IntakeMoves
<1>4. CASE UpsertMessage(d)
  <2>1. channel # "WHATSAPP" /\ hook[d].pc = "upsert"
    BY <1>2, <1>4 DEF UpsertMessage
  <2>2. filed' = [filed EXCEPT ![m] = IF filed[m] = 0 THEN hook[d].conv ELSE filed[m]]
    BY <1>4 DEF UpsertMessage
  <2>3. (Goto(d, "done") /\ handled' = handled) \/ HandleMessage(d)
    BY <1>4 DEF UpsertMessage
  <2>4. UNCHANGED <<channel, customers, convs, agentOrders, faults>>
    BY <1>4 DEF UpsertMessage
  <2> QED
    BY <1>3, <2>1, <2>2, <2>3, <2>4
<1>5. CASE FileByCreate(d)
  <2>1. hook[d].pc = "file" /\ UNCHANGED <<channel, customers, convs, agentOrders, faults>>
    BY <1>5 DEF FileByCreate
  <2>2. CASE filed[m] # 0
    <3>1. Goto(d, "done") /\ handled' = handled /\ filed' = filed
      BY <1>5, <2>2 DEF FileByCreate
    <3> QED
      BY <1>3, <2>1, <3>1
  <2>3. CASE filed[m] = 0
    <3>1. HandleMessage(d) /\ filed' = [filed EXCEPT ![m] = hook[d].conv]
      BY <1>5, <2>3 DEF FileByCreate
    <3>2. filed' = [filed EXCEPT ![m] = IF filed[m] = 0 THEN hook[d].conv ELSE filed[m]]
      BY <2>3, <3>1
    <3> QED
      BY <1>3, <2>1, <2>3, <3>1, <3>2
  <2> QED
    BY <2>2, <2>3
<1> QED
  BY <1>1, <1>4, <1>5 DEF ClaimMessage

LEMMA AnsweringStep ==
  ASSUME IntakeAssumption, IntakeInv, NEW d \in Deliveries,
         \/ RouteToShoppingFlow(d) \/ AnswerFromModel(d) \/ ModelRefuses(d) \/ ChannelRefuses(d)
         \/ Escalate(d) \/ RecordOrder(d) \/ AnswerFromRecords(d) \/ SendReply(d)
  PROVE  IntakeInv'
<1> USE IntakeNow, HookNow
<1>1. MayGo(d, "done")
  BY PcsOfHooks DEF MayGo
<1>2. hook[d].pc \in {"route", "think", "record"} => MayGo(d, "send")
  BY PcsOfHooks DEF MayGo
<1>3. CASE RouteToShoppingFlow(d) \/ AnswerFromModel(d)
  BY <1>2, <1>3, HookGoesAlone DEF RouteToShoppingFlow, AnswerFromModel
<1>4. CASE ModelRefuses(d) \/ ChannelRefuses(d)
  <2>1. GiveUp(d)
    BY <1>4 DEF ModelRefuses, ChannelRefuses
  <2>2. faults' \in 0..MaxFaults
    BY <2>1 DEF GiveUp
  <2> QED
    BY <1>1, <2>1, <2>2, HookGoesAlone DEF GiveUp
<1> DEFINE i == hook[d].conv
<1>5. hook[d].pc \in {"think", "send", "record"} =>
        /\ i \in DOMAIN convs /\ convs[i] \in ConvRow
        /\ convs[i].active \in 0..Len(agentOrders)
  BY DEF IntakeInv, IntakeTyped, ConvFits
<1>6. CASE Escalate(d)
  <2> DEFINE v == [convs[i] EXCEPT !.escalated = TRUE]
  <2>1. hook[d].pc = "think" /\ convs' = [convs EXCEPT ![i] = v]
    BY <1>6 DEF Escalate
  <2>2. v \in ConvRow /\ v.customer = convs[i].customer /\ v.active = convs[i].active
    BY <1>5, <2>1 DEF ConvRow
  <2> HIDE DEF v
  <2>3. Goto(d, "send") /\ UNCHANGED <<channel, customers, filed, agentOrders, handled, faults>>
    BY <1>6 DEF Escalate
  <2> QED
    BY <1>2, <1>5, <2>1, <2>2, <2>3, HookWrites
<1>7. CASE AnswerFromRecords(d) \/ SendReply(d)
  <2> DEFINE v == [convs[i] EXCEPT !.replied = TRUE]
  <2>1. hook[d].pc \in {"think", "send"} /\ convs' = [convs EXCEPT ![i] = v]
    BY <1>7 DEF AnswerFromRecords, SendReply, Delivered
  <2>2. v \in ConvRow /\ v.customer = convs[i].customer /\ v.active = convs[i].active
    BY <1>5, <2>1 DEF ConvRow
  <2> HIDE DEF v
  <2>3. Goto(d, "done") /\ UNCHANGED <<channel, customers, filed, agentOrders, handled, faults>>
    BY <1>7 DEF AnswerFromRecords, SendReply
  <2> QED
    BY <1>1, <1>5, <2>1, <2>2, <2>3, HookWrites
<1>8. CASE RecordOrder(d)
  <2> DEFINE v == [convs[i] EXCEPT !.lastKey = hook[d].key, !.active = hook[d].seen.active]
  <2>1. hook[d].pc = "record" /\ convs' = [convs EXCEPT ![i] = v]
    BY <1>8 DEF RecordOrder
  <2>2. hook[d].key \in Keys /\ hook[d].seen.active \in Nat
    BY DEF HookSlot
  <2>3. v \in ConvRow
    BY <1>5, <2>1, <2>2 DEF ConvRow
  <2>4. v.customer = convs[i].customer /\ v.active = hook[d].seen.active
    BY <1>5, <2>1 DEF ConvRow
  <2> HIDE DEF v
  <2>5. Goto(d, "send") /\ UNCHANGED <<channel, customers, filed, agentOrders, handled, faults>>
    BY <1>8 DEF RecordOrder
  <2> QED
    BY <1>2, <1>5, <2>1, <2>3, <2>4, <2>5, HookWrites
<1> QED
  BY <1>3, <1>4, <1>6, <1>7, <1>8

LEMMA LoadStep ==
  ASSUME IntakeAssumption, IntakeInv, NEW d \in Deliveries, LoadConversation(d) PROVE IntakeInv'
<1> USE IntakeNow, HookNow
<1>1. CASE Conv(d).escalated
  <2>1. MayGo(d, "done")
    BY PcsOfHooks DEF MayGo
  <2> QED
    BY <1>1, <2>1, HookGoesAlone DEF LoadConversation
<1>2. CASE ~Conv(d).escalated
  <2> DEFINE row == convs[hook[d].conv]
             seen == [lastKey |-> row.lastKey, active |-> row.active]
             x == [hook[d] EXCEPT !.pc = "think", !.seen = seen]
  <2>1. hook[d].pc = "route" /\ hook' = [hook EXCEPT ![d] = x]
        /\ UNCHANGED <<channel, customers, convs, filed, agentOrders, handled, faults>>
    BY <1>2 DEF LoadConversation, Conv
  <2>2. row \in ConvRow /\ row.active \in 0..Len(agentOrders)
    BY <2>1 DEF IntakeInv, IntakeTyped, ConvFits
  <2>3. seen \in [lastKey : Keys, active : Nat] /\ seen.active \in 0..Len(agentOrders)
    BY <2>2 DEF ConvRow
  <2> HIDE DEF seen
  <2>4. "think" \in HookPcs
    BY PcsOfHooks
  <2>5. x \in HookSlot /\ x.pc = "think" /\ x.seen = seen
    BY <2>3, <2>4 DEF HookSlot
  <2>6. x.cust = hook[d].cust /\ x.conv = hook[d].conv
    BY DEF HookSlot
  <2> HIDE DEF x
  <2>7. HookFits(x, customers, Len(convs), Len(agentOrders))
    BY <2>1, <2>3, <2>5, <2>6 DEF HookFits
  <2> QED
    BY <2>1, <2>5, <2>7, HookAlone
<1> QED
  BY <1>1, <1>2

LEMMA CancelStep ==
  ASSUME IntakeAssumption, IntakeInv, NEW d \in Deliveries, CancelOrder(d) PROVE IntakeInv'
<1> USE IntakeNow, HookNow
<1> DEFINE o == hook[d].seen.active
           i == hook[d].conv
           w == [agentOrders[o] EXCEPT !.status = "cancelled"]
           v == [convs[i] EXCEPT !.active = 0]
<1>1. /\ hook[d].pc = "think" /\ o # 0 /\ Goto(d, "send")
      /\ agentOrders' = [agentOrders EXCEPT ![o] = w] /\ convs' = [convs EXCEPT ![i] = v]
      /\ UNCHANGED <<channel, customers, filed, handled, faults>>
  BY DEF CancelOrder
<1>2. o \in DOMAIN agentOrders /\ i \in DOMAIN convs
  BY <1>1
<1>3. w \in AgentOrder
  BY <1>2 DEF AgentOrder
<1>4. v \in ConvRow /\ v.customer = convs[i].customer /\ v.active = 0
  BY <1>2 DEF ConvRow
<1> HIDE DEF v, w
<1>5. CustomersGrow /\ OrdersGrow /\ Len(agentOrders') = Len(agentOrders)
  BY <1>1, <1>2, <1>3, CustomersStay, OrderUpdated
<1>6. ConvsGrow
  <2>1. v.active \in 0..Len(agentOrders')
    BY <1>4, <1>5
  <2> QED
    BY <1>1, <1>2, <1>4, <1>5, <2>1, ConvUpdated
<1>7. MayGo(d, "send")
  BY <1>1, PcsOfHooks DEF MayGo
<1>8. HooksMove
  BY <1>1, <1>5, <1>6, <1>7, HookFitsOn
<1> QED
  BY <1>1, <1>5, <1>6, <1>8, HookStep

LEMMA OrderingStep ==
  ASSUME IntakeAssumption, IntakeInv, NEW d \in Deliveries, ExecuteCreateOrder(d) PROVE IntakeInv'
<1> USE IntakeNow, HookNow
<1> DEFINE o == hook[d].seen.active
<1>1. hook[d].pc = "think" /\ UNCHANGED <<channel, customers, convs, filed, handled, faults>>
  BY DEF ExecuteCreateOrder
<1>2. PICK k \in FreshKeys(d) :
        IF o # 0 /\ agentOrders[o].status = "unpaid"
          THEN /\ agentOrders' = [agentOrders EXCEPT ![o].key = k]
               /\ hook' = [hook EXCEPT ![d].pc = "record", ![d].key = k]
          ELSE /\ Len(agentOrders) < MaxAgentOrders
               /\ agentOrders' = Append(agentOrders, [key |-> k, status |-> "unpaid"])
               /\ hook' = [hook EXCEPT ![d].pc = "record", ![d].key = k, ![d].seen.active = Len(agentOrders) + 1]
  BY DEF ExecuteCreateOrder
<1>3. k \in Keys /\ "record" \in HookPcs
  BY PcsOfHooks DEF FreshKeys, Keys
<1>4. CustomersGrow
  BY <1>1, CustomersStay
<1>5. CASE o # 0 /\ agentOrders[o].status = "unpaid"
  <2> DEFINE w == [agentOrders[o] EXCEPT !.key = k]
             x == [hook[d] EXCEPT !.pc = "record", !.key = k]
  <2>1. agentOrders' = [agentOrders EXCEPT ![o] = w] /\ hook' = [hook EXCEPT ![d] = x]
    BY <1>2, <1>5
  <2>2. o \in DOMAIN agentOrders /\ w \in AgentOrder
    BY <1>3, <1>5 DEF AgentOrder
  <2>3. x \in HookSlot /\ x.pc = "record"
    BY <1>3 DEF HookSlot
  <2>4. x.cust = hook[d].cust /\ x.conv = hook[d].conv /\ x.seen = hook[d].seen
    BY DEF HookSlot
  <2> HIDE DEF x, w
  <2>5. OrdersGrow /\ Len(agentOrders') = Len(agentOrders)
    BY <2>1, <2>2, OrderUpdated
  <2>6. ConvsGrow
    BY <1>1, <1>4, <2>5, ConvsStay
  <2>7. HookMay(x)
    BY <1>1, <2>3, <2>4, <2>5 DEF HookMay, HookFits
  <2> QED
    BY <1>1, <1>4, <2>1, <2>5, <2>6, <2>7, HookGoes, HookStep
<1>6. CASE ~(o # 0 /\ agentOrders[o].status = "unpaid")
  <2> DEFINE n == Len(agentOrders) + 1
             w == [key |-> k, status |-> "unpaid"]
             seen == [hook[d].seen EXCEPT !.active = n]
             x == [hook[d] EXCEPT !.pc = "record", !.key = k, !.seen.active = n]
  <2>1. /\ Len(agentOrders) < MaxAgentOrders /\ agentOrders' = Append(agentOrders, w)
        /\ hook' = [hook EXCEPT ![d] = x]
    BY <1>2, <1>6
  <2>2. w \in AgentOrder /\ n \in Nat
    BY <1>3 DEF AgentOrder
  <2>3. hook[d].seen \in [lastKey : Keys, active : Nat]
    BY DEF HookSlot
  <2>4. seen \in [lastKey : Keys, active : Nat] /\ seen.active = n
    BY <2>2, <2>3
  <2>5. x.pc = "record" /\ x.seen = seen
    BY DEF HookSlot
  <2>6. x \in HookSlot
    BY <1>3, <2>2 DEF HookSlot
  <2> HIDE DEF seen
  <2>7. x.cust = hook[d].cust /\ x.conv = hook[d].conv
    BY DEF HookSlot
  <2> HIDE DEF x, w
  <2>8. agentOrders' \in Seq(AgentOrder) /\ Len(agentOrders') = n
    <3>1. agentOrders \in Seq(AgentOrder)
      BY DEF IntakeInv, IntakeTyped
    <3> QED
      BY <2>1, <2>2, <3>1
  <2>9. OrdersGrow
    BY <2>1, <2>8 DEF OrdersGrow
  <2>10. ConvsGrow
    BY <1>1, <1>4, <2>9, ConvsStay
  <2>11. HookMay(x)
    BY <1>1, <2>2, <2>4, <2>5, <2>6, <2>7, <2>8 DEF HookMay, HookFits
  <2> QED
    BY <1>1, <1>4, <2>1, <2>9, <2>10, <2>11, HookGoes, HookStep
<1> QED
  BY <1>5, <1>6

LEMMA DyingStep ==
  ASSUME IntakeAssumption, IntakeInv, ApiDies PROVE IntakeInv'
<1> USE IntakeNow, HookNow
<1>1. CustomersGrow /\ OrdersGrow
  BY CustomersStay, OrdersStay DEF ApiDies
<1>2. ConvsGrow
  BY <1>1, ConvsStay DEF ApiDies
<1>3. faults' \in 0..MaxFaults /\ UNCHANGED <<channel, customers, convs, agentOrders, filed, handled>>
  BY DEF ApiDies
<1>4. ASSUME NEW d \in Deliveries
      PROVE  hook'[d] \in HookSlot /\ (hook'[d] = hook[d] \/ HookMay(hook'[d]))
  <2>1. CASE hook[d].pc = "idle"
    BY <2>1 DEF ApiDies
  <2>2. CASE hook[d].pc # "idle"
    <3> DEFINE x == DoneHook(hook[d].msg)
    <3>1. hook'[d] = x
      BY <2>2 DEF ApiDies
    <3>2. x \in HookSlot /\ x.pc = "done"
      BY DEF HookSlot, DoneHook, IdleHook, NothingSeen, Keys, HookPcs
    <3>3. x.cust = 0 /\ x.conv = 0 /\ x.seen.active = 0
      BY DEF DoneHook, IdleHook, NothingSeen
    <3> HIDE DEF x
    <3>4. HookMay(x)
      BY <1>3, <3>2, <3>3 DEF HookMay, HookFits
    <3> QED
      BY <3>1, <3>2, <3>4
  <2> QED
    BY <2>1, <2>2
<1>5. DOMAIN hook' = Deliveries /\ hook' = [d \in Deliveries |-> hook'[d]]
  BY DEF ApiDies
<1>6. HooksMove
  BY <1>4, <1>5 DEF HooksMove
<1> QED
  BY <1>1, <1>2, <1>3, <1>6, HookStep

\* the follow-up job and the merchant's inbox
LEMMA InboxStep ==
  ASSUME IntakeAssumption, IntakeInv, NEW i \in DOMAIN convs,
         FollowUp(i) \/ FollowUpFails(i) \/ SendFromInbox(i) \/ AddMessage(i) \/ Resume(i)
  PROVE  IntakeInv'
<1> USE IntakeNow
<1>1. faults' = faults => faults' \in 0..MaxFaults
  BY DEF IntakeInv, IntakeTyped
<1>2. ASSUME NEW ends \in {"none", "waiting", "draft", "done"}, convs' = [convs EXCEPT ![i].job = ends],
             faults' \in 0..MaxFaults, UNCHANGED <<channel, customers, filed, agentOrders, hook, handled>>
      PROVE  IntakeInv'
  <2> DEFINE v == [convs[i] EXCEPT !.job = ends]
  <2>1. v \in ConvRow /\ v.customer = convs[i].customer /\ v.active = convs[i].active
    BY DEF ConvRow
  <2>2. convs' = [convs EXCEPT ![i] = v]
    BY <1>2
  <2> HIDE DEF v
  <2> QED
    BY <1>2, <2>1, <2>2, ConvWritten
<1>3. CASE FollowUpRead(i)
  BY <1>1, <1>2, <1>3 DEF FollowUpRead
<1>4. CASE FollowUpFails(i)
  <2>1. faults' \in 0..MaxFaults
    BY <1>4 DEF FollowUpFails, FollowUpFailsThen
  <2> QED
    BY <1>2, <1>4, <2>1 DEF FollowUpFails, FollowUpFailsThen
<1>5. CASE FollowUpDraft(i)
  <2> DEFINE v == [convs[i] EXCEPT !.job = "done", !.draft = TRUE]
  <2>1. v \in ConvRow
    BY DEF ConvRow
  <2>2. v.customer = convs[i].customer /\ v.active = convs[i].active
    BY DEF ConvRow
  <2>3. convs' = [convs EXCEPT ![i] = v]
    BY <1>5 DEF FollowUpDraft
  <2> HIDE DEF v
  <2> QED
    BY <1>1, <1>5, <2>1, <2>2, <2>3, ConvWritten DEF FollowUpDraft
<1>6. ASSUME NEW replied \in BOOLEAN, convs' = [convs EXCEPT ![i].replied = replied],
             UNCHANGED <<channel, customers, filed, agentOrders, hook, handled, faults>>
      PROVE  IntakeInv'
  <2> DEFINE v == [convs[i] EXCEPT !.replied = replied]
  <2>1. v \in ConvRow /\ v.customer = convs[i].customer /\ v.active = convs[i].active
    BY DEF ConvRow
  <2>2. convs' = [convs EXCEPT ![i] = v]
    BY <1>6
  <2> HIDE DEF v
  <2> QED
    BY <1>1, <1>6, <2>1, <2>2, ConvWritten
<1>7. CASE SendFromInbox(i)
  BY <1>6, <1>7 DEF SendFromInbox, Delivered
<1>8. CASE AddMessage(i)
  <2>1. PICK direction \in {"INBOUND", "OUTBOUND"} :
          convs' = [convs EXCEPT ![i].replied = convs[i].replied \/ direction = "OUTBOUND"]
    BY <1>8 DEF AddMessage
  <2>2. (convs[i].replied \/ direction = "OUTBOUND") \in BOOLEAN
    OBVIOUS
  <2>3. UNCHANGED <<channel, customers, filed, agentOrders, hook, handled, faults>>
    BY <1>8 DEF AddMessage
  <2> QED
    BY <1>6, <2>1, <2>2, <2>3
<1>9. CASE Resume(i)
  <2> DEFINE v == [convs[i] EXCEPT !.escalated = FALSE]
  <2>1. v \in ConvRow /\ v.customer = convs[i].customer /\ v.active = convs[i].active
    BY DEF ConvRow
  <2>2. convs' = [convs EXCEPT ![i] = v]
    BY <1>9 DEF Resume
  <2> HIDE DEF v
  <2> QED
    BY <1>1, <1>9, <2>1, <2>2, ConvWritten DEF Resume
<1> QED
  BY <1>3, <1>4, <1>5, <1>7, <1>8, <1>9 DEF FollowUp

LEMMA PaidStep ==
  ASSUME IntakeAssumption, IntakeInv, NEW o \in DOMAIN agentOrders, OrderIsPaid(o) PROVE IntakeInv'
<1> USE IntakeNow
<1> DEFINE w == [agentOrders[o] EXCEPT !.status = "paid"]
<1>1. agentOrders' = [agentOrders EXCEPT ![o] = w] /\ UNCHANGED <<channel, customers, convs, filed, hook, handled, faults>>
  BY DEF OrderIsPaid
<1>2. w \in AgentOrder
  BY DEF AgentOrder
<1> HIDE DEF w
<1>3. CustomersGrow /\ OrdersGrow /\ HooksMove
  BY <1>1, <1>2, CustomersStay, OrderUpdated, HooksStay
<1>4. ConvsGrow
  BY <1>1, <1>3, ConvsStay
<1>5. faults' \in 0..MaxFaults
  BY <1>1 DEF IntakeInv, IntakeTyped
<1> QED
  BY <1>1, <1>3, <1>4, <1>5, HookStep

LEMMA IntakeStep ==
  ASSUME IntakeAssumption, IntakeInv, [IntakeNext]_intakeVars PROVE IntakeInv'
<1>1. CASE UNCHANGED intakeVars
  BY <1>1 DEF intakeVars, IntakeInv, IntakeTyped, FiledThenHandled
<1>2. ASSUME NEW d \in Deliveries, Handler(d) PROVE IntakeInv'
  <2>1. CASE Ignore(d) \/ FindCustomer(d) \/ CreateCustomer(d)
    BY <2>1, FindingStep
  <2>2. CASE FindConversation(d) \/ CreateConversation(d) \/ ScheduleFollowUp(d)
    BY <2>2, ConversationStep
  <2>3. CASE ClaimMessage(d) \/ UpsertMessage(d)
    BY <2>3, FilingStep
  <2>4. CASE \/ RouteToShoppingFlow(d) \/ AnswerFromModel(d) \/ ModelRefuses(d) \/ ChannelRefuses(d)
             \/ Escalate(d) \/ RecordOrder(d) \/ AnswerFromRecords(d) \/ SendReply(d)
    BY <2>4, AnsweringStep
  <2>5. CASE LoadConversation(d) \/ CancelOrder(d) \/ ExecuteCreateOrder(d)
    BY <2>5, LoadStep, CancelStep, OrderingStep
  <2> QED
    BY <1>2, <2>1, <2>2, <2>3, <2>4, <2>5 DEF Handler
<1>3. CASE ApiDies
  BY <1>3, DyingStep
<1>4. ASSUME NEW i \in DOMAIN convs,
             FollowUp(i) \/ FollowUpFails(i) \/ SendFromInbox(i) \/ AddMessage(i) \/ Resume(i)
      PROVE  IntakeInv'
  BY <1>4, InboxStep
<1>5. ASSUME NEW o \in DOMAIN agentOrders, OrderIsPaid(o) PROVE IntakeInv'
  BY <1>5, PaidStep
<1> QED
  BY <1>1, <1>2, <1>3, <1>4, <1>5 DEF IntakeNext

LEMMA IntakeStarts == ASSUME IntakeAssumption, IntakeInit PROVE IntakeInv
<1>1. PICK carries \in Carried : hook = [d \in Deliveries |-> IdleHook(carries[d])]
  BY DEF IntakeInit
<1>2. carries \in [Deliveries -> Messages]
  BY DEF IntakeAssumption
<1>3. ASSUME NEW m \in Messages
      PROVE  IdleHook(m) \in HookSlot /\ IdleHook(m).pc = "idle" /\ IdleHook(m).cust = 0 /\ IdleHook(m).conv = 0
             /\ IdleHook(m).seen.active = 0
  BY DEF IdleHook, HookSlot, NothingSeen, Keys, HookPcs
<1>4. convs = <<>> /\ agentOrders = <<>> /\ customers = 0 /\ faults = 0 /\ channel \in {"WHATSAPP", "UPSERT"}
  BY DEF IntakeInit
<1>5. /\ convs \in Seq(ConvRow) /\ Len(convs) = 0 /\ DOMAIN convs = {}
      /\ agentOrders \in Seq(AgentOrder) /\ Len(agentOrders) = 0
  BY <1>4
<1>6. hook \in [Deliveries -> HookSlot]
  BY <1>1, <1>2, <1>3
<1>7. \A d \in Deliveries : HookFits(hook[d], customers, Len(convs), Len(agentOrders)) /\ hook[d].pc = "idle"
  BY <1>1, <1>2, <1>3, <1>4, <1>5 DEF HookFits
<1>8. filed = [m \in Messages |-> 0] /\ handled = [m \in Messages |-> 0]
  BY DEF IntakeInit
<1>9. MaxConvs \in Nat /\ MaxAgentOrders \in Nat /\ MaxFaults \in Nat
  BY DEF IntakeAssumption
<1>10. IntakeTyped
  BY <1>4, <1>5, <1>6, <1>7, <1>8, <1>9 DEF IntakeTyped
<1>11. FiledThenHandled
  BY <1>7, <1>8 DEF FiledThenHandled
<1> QED
  BY <1>10, <1>11 DEF IntakeInv

LEMMA IntakeInvariant == IntakeSpec => []IntakeInv
<1>1. IntakeInit => IntakeInv
  BY IntakeAssumption, IntakeStarts
<1>2. IntakeInv /\ [IntakeNext]_intakeVars => IntakeInv'
  BY IntakeAssumption, IntakeStep
<1> QED
  BY <1>1, <1>2, PTL DEF IntakeSpec

(***************************************************************************)
(* However deliveries interleave and handlers die, every conversation has  *)
(* a customer, every handler and every filed message a conversation and    *)
(* every active order is an order that was placed.                         *)
(***************************************************************************)
THEOREM IntakeTypes == IntakeSpec => []IntakeTypeOK
<1>1. IntakeInv => IntakeTypeOK
  BY DEF IntakeInv, IntakeTyped, IntakeTypeOK, HookFits, ConvFits
<1> QED
  BY <1>1, IntakeInvariant, PTL

(***************************************************************************)
(* "Only ONE of any number of concurrent or repeated deliveries" of a      *)
(* WhatsApp message is handled, for any number of deliveries, crashes and  *)
(* conversations (whatsapp-webhook.service.ts, claimMessage).              *)
(***************************************************************************)
THEOREM MessagesAreHandledOnce == IntakeSpec => []HandledOnce
<1>1. IntakeInv => HandledOnce
  BY DEF IntakeInv, FiledThenHandled, HandledOnce
<1> QED
  BY <1>1, IntakeInvariant, PTL

-----------------------------------------------------------------------------
(***************************************************************************)
(* The runs check the components side by side: a behaviour chooses one,    *)
(* and every behaviour is one of each component's specification.           *)
(***************************************************************************)
LEMMA PartsStart ==
  ASSUME Init PROVE IntakeInit /\ FlowInit /\ SearchInit /\ OutreachInit /\ StockInit /\ ImportInit
BY DEF Init

LEMMA PartsStep ==
  ASSUME [Next]_storefrontVars
  PROVE  /\ [IntakeNext]_intakeVars /\ [FlowNext]_flowVars /\ [SearchNext]_searchVars
         /\ [OutreachNext]_outreachVars /\ [StockNext]_stockVars /\ [ImportNext]_importVars
BY DEF Next, storefrontVars, IntakeStands, FlowStands, SearchStands, OutreachStands, StockStands, ImportStands,
       ShopStands, CatalogueStands

\* Every behaviour the runs check is one of each component, so what is proved of a component holds in the runs.
THEOREM RunsAreOfEachPart ==
  Spec => IntakeSpec /\ FlowSpec /\ SearchSpec /\ OutreachSpec /\ StockSpec /\ ImportSpec
<1>1. Init => IntakeInit /\ FlowInit /\ SearchInit /\ OutreachInit /\ StockInit /\ ImportInit
  BY PartsStart
<1>2. [Next]_storefrontVars
        => /\ [IntakeNext]_intakeVars /\ [FlowNext]_flowVars /\ [SearchNext]_searchVars
           /\ [OutreachNext]_outreachVars /\ [StockNext]_stockVars /\ [ImportNext]_importVars
  BY PartsStep
<1> QED
  BY <1>1, <1>2, PTL DEF Spec, IntakeSpec, FlowSpec, SearchSpec, OutreachSpec, StockSpec, ImportSpec

\* The type invariant the runs check.
THEOREM StorefrontTypes == Spec => []StorefrontTypeOK
<1>1. Init => part \in Parts
  BY DEF Init
<1>2. part \in Parts /\ [Next]_storefrontVars => (part \in Parts)'
  BY DEF Next, storefrontVars
<1>3. Spec => [](part \in Parts)
  BY <1>1, <1>2, PTL DEF Spec
<1>4. /\ part \in Parts /\ IntakeTypeOK /\ FlowTypeOK /\ SearchTypeOK
      /\ OutreachTypeOK /\ StockTypeOK /\ ImportTypeOK
      => StorefrontTypeOK
  BY DEF StorefrontTypeOK
<1> QED
  BY <1>3, <1>4, RunsAreOfEachPart, IntakeTypes, FlowTypes, SearchTypes, OutreachTypes, StockTypes, ImportTypes, PTL

\* What the run Storefront_all checks of its behaviours, every safety property of the six components.
THEOREM StorefrontIsSafe ==
  Spec => /\ [](HandledOnce /\ PromptHasItsItem /\ WithinBudget /\ FunnelIsTrue /\ OneLiveNudge
                /\ OneActiveAlert /\ RowsImportedOnce)
          /\ AddressIsFresh /\ AlternativesAreNew
BY RunsAreOfEachPart, MessagesAreHandledOnce, PromptsHaveTheirItem, ListsStayWithinBudget, FunnelIsAlwaysTrue,
   OneNudgeIsLive, OneAlertIsActive, RowsAreImportedOnce, AddressesAreFresh, OthersAreNew, PTL
=============================================================================
