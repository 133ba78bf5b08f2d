--------------------------- MODULE MetaConnection ---------------------------
(***************************************************************************)
(* The WhatsApp connections of the businesses and everyone who may make or *)
(* break one: Embedded Signup and the disconnect button                    *)
(* (whatsapp-embedded-signup.service.ts), credentials typed into Settings  *)
(* (business.service.ts), Meta's deauthorization and data-deletion         *)
(* callbacks (meta-callbacks.service.ts), and the platform admins who      *)
(* review what a callback could not decide (meta-deauthorization-admin and *)
(* meta-callback-admin).                                                   *)
(*                                                                         *)
(* The callbacks know a person only by Meta's user id; link is the table   *)
(* MetaUserLink that says whose connection that is. A database transaction *)
(* is one step; its row locks and unique keys are the guards of the step.  *)
(* A connection is named by the instant it was stored (born), so that a    *)
(* property can tell the connection a link was written for from the one    *)
(* that is there now. The WhatsApp business account goes with its number.  *)
(***************************************************************************)
EXTENDS Naturals, FiniteSets

CONSTANTS
  Businesses, Users, Numbers,
  Signups,     \* Embedded Signup dialogs that may run at once
  Settings,    \* settings forms being saved
  Admins,      \* platform admins at work
  Deauths,     \* deauthorization callbacks, one per dedupe key
  Deletions,   \* data-deletion callbacks, one per dedupe key
  Author,      \* the user each callback is about
  NoOne,
  MaxClock     \* bound: connections that are ever stored

ASSUME MetaAssumption ==
  /\ Author \in [Deauths \cup Deletions -> Users]
  /\ Deauths \cap Deletions = {}
  /\ NoOne \notin Users \cup Numbers \cup Businesses
  /\ MaxClock \in Nat

VARIABLES
  verified,   \* META_CALLBACK_IDENTITY_MATCH_VERIFIED
  biz,        \* the WhatsApp columns of each Business row
  link,       \* MetaUserLink, with the connection the row was written for
  req,        \* MetaCallbackRequest, by dedupe key
  signup, form, admin,   \* the requests in flight
  clock,      \* how many connections were stored: the instants told apart
  forgotten,  \* history: users whose deletion completed and who did not return
  crossed     \* history: businesses whose links missed the last change of connection

metaVars == <<verified, biz, link, req, signup, form, admin, clock, forgotten, crossed>>

Callbacks == Deauths \cup Deletions
NOT_LIVE == {"DISCONNECTED", "DEAUTHORIZED"}
DeauthFinal == {"COMPLETED", "NO_MATCH", "NO_CHANGE_RECORDED"}
DeletionFinal == {"COMPLETED", "NO_DATA_HELD"}
\* ONBOARDING is every status of a signup under way and of a failed one: nothing
\* in the code asks which.
BizStatuses == NOT_LIVE \cup {"ONBOARDING", "CONNECTED"}

Cleared(status) == [status |-> status, number |-> NoOne, connectedAt |-> 0, born |-> 0]
NoRequest == [status |-> "none", user |-> NoOne, at |-> 0, candidates |-> {}, matched |-> {}]
IdleSignup == [pc |-> "idle", b |-> NoOne, n |-> NoOne, u |-> NoOne, born |-> 0]
IdleForm == [pc |-> "idle", b |-> NoOne, was |-> NoOne]
IdleAdmin == [pc |-> "idle", k |-> NoOne, user |-> NoOne]

MetaInit ==
  /\ verified \in BOOLEAN
  /\ biz = [b \in Businesses |-> Cleared("DISCONNECTED")]
  /\ link = [b \in Businesses |-> [u \in Users |-> [state |-> "none", of |-> 0]]]
  /\ req = [k \in Callbacks |-> NoRequest]
  /\ signup = [s \in Signups |-> IdleSignup]
  /\ form = [f \in Settings |-> IdleForm]
  /\ admin = [a \in Admins |-> IdleAdmin]
  /\ clock = 0 /\ forgotten = {} /\ crossed = {}

SetStatus(b, status) == biz' = [biz EXCEPT ![b].status = status]
Linked(u) == {b \in Businesses : link[b][u].state # "none"}
LiveLinked(u) == {b \in Businesses : link[b][u].state = "live"}

\* A request stored a connection of b and has yet to see to its links.
Following(b) ==
  \/ \E s \in Signups : signup[s].pc = "identity" /\ signup[s].b = b
  \/ \E f \in Settings : form[f].pc = "supersede" /\ form[f].b = b

\* A new connection crosses a signup that has yet to write the links of an older one.
Replaced(b) ==
  crossed' = IF \E s \in Signups : signup[s].pc = "identity" /\ signup[s].b = b
               THEN crossed \cup {b} ELSE crossed \ {b}
Missed(b) == crossed' = crossed \cup {b}

\* Room below the bound for one more request that will store a connection.
Room ==
  clock + Cardinality({s \in Signups : signup[s].pc = "save"})
        + Cardinality({f \in Settings : form[f].pc = "write"}) < MaxClock

\* Each call to Meta ends with its answer or with an exception.
MetaAnswers == {"ok", "failed"}

(***************************************************************************)
(* completeOnboarding(), one step per call to Meta. Reconnecting the       *)
(* account that is already connected only stamps a date.                   *)
(***************************************************************************)
StartOnboarding(s) ==
  \E b \in Businesses, n \in Numbers, u \in Users :
    /\ signup[s].pc = "idle"
    /\ ~(biz[b].status = "CONNECTED" /\ biz[b].number = n)
    /\ SetStatus(b, "ONBOARDING")
    /\ signup' = [signup EXCEPT ![s] = [IdleSignup EXCEPT !.pc = "calls", !.b = b, !.n = n, !.u = u]]
    /\ UNCHANGED <<verified, link, req, form, admin, clock, forgotten, crossed>>

\* The code exchange, the registration and the subscription: each writes the next
\* status of the signup, or that it failed, over whatever is there.
OnboardingStep(s) ==
  /\ signup[s].pc = "calls"
  /\ SetStatus(signup[s].b, "ONBOARDING")
  /\ \E answer \in MetaAnswers :
       signup' = IF answer = "ok" THEN signup ELSE [signup EXCEPT ![s] = IdleSignup]
  /\ UNCHANGED <<verified, link, req, form, admin, clock, forgotten, crossed>>

\* The number's details, and the look for another business that owns it.
CheckOwner(s) ==
  LET b == signup[s].b
      taken == \E c \in Businesses \ {b} : biz[c].number = signup[s].n
  IN /\ signup[s].pc = "calls"
     /\ \/ /\ ~taken /\ Room
           /\ signup' = [signup EXCEPT ![s].pc = "save"]
           /\ UNCHANGED biz
        \/ /\ SetStatus(b, "ONBOARDING")
           /\ signup' = [signup EXCEPT ![s] = IdleSignup]
     /\ UNCHANGED <<verified, link, req, form, admin, clock, forgotten, crossed>>

\* The write of CONNECTED; the unique number makes it fail for a second owner.
SaveConnection(s) ==
  LET b == signup[s].b IN
  /\ signup[s].pc = "save" /\ clock < MaxClock
  /\ IF \E c \in Businesses \ {b} : biz[c].number = signup[s].n
       THEN /\ signup' = [signup EXCEPT ![s] = IdleSignup]
            /\ UNCHANGED <<biz, clock, crossed>>
       ELSE /\ clock' = clock + 1
            /\ biz' = [biz EXCEPT ![b] = [status |-> "CONNECTED", number |-> signup[s].n,
                                          connectedAt |-> clock', born |-> clock']]
            /\ signup' = [signup EXCEPT ![s] = [@ EXCEPT !.pc = "identity", !.born = clock']]
            /\ Replaced(b)
  /\ UNCHANGED <<verified, link, req, form, admin, forgotten>>

\* A row of MetaUserLink that was revoked; which connection it was for is forgotten.
Revoked == [state |-> "revoked", of |-> 0]

\* Every live link of b, for another connection, is retired.
Superseded(b) ==
  [link EXCEPT ![b] = [u \in Users |->
     IF @[u].state = "live" THEN Revoked ELSE @[u]]]

\* Superseding may fail, and Meta may not tell who the new token belongs to.
RecordIdentityIfKnown(s) ==
  LET b == signup[s].b
      u == signup[s].u
  IN /\ signup[s].pc = "identity"
     /\ \/ UNCHANGED <<link, forgotten, crossed>>
        \/ /\ link' = [Superseded(b) EXCEPT ![b][u] = [state |-> "live", of |-> signup[s].born]]
           /\ forgotten' = forgotten \ {u} /\ UNCHANGED crossed
     /\ signup' = [signup EXCEPT ![s] = IdleSignup]
     /\ UNCHANGED <<verified, biz, req, form, admin, clock>>

RecordConnectionIdentity(s) ==
  LET b == signup[s].b
      u == signup[s].u
  IN /\ signup[s].pc = "identity"
     /\ \/ Missed(b) /\ UNCHANGED <<link, forgotten>>
        \/ link' = Superseded(b) /\ UNCHANGED <<forgotten, crossed>>
        \/ /\ link' = [Superseded(b) EXCEPT ![b][u] = [state |-> "live", of |-> signup[s].born]]
           /\ forgotten' = forgotten \ {u} /\ UNCHANGED crossed
     /\ signup' = [signup EXCEPT ![s] = IdleSignup]
     /\ UNCHANGED <<verified, biz, req, form, admin, clock>>

SignupDies(s) ==
  /\ signup[s].pc # "idle"
  /\ signup' = [signup EXCEPT ![s] = IdleSignup]
  /\ IF signup[s].pc = "identity" THEN Missed(signup[s].b) ELSE UNCHANGED crossed
  /\ UNCHANGED <<verified, biz, link, req, form, admin, clock, forgotten>>

Disconnect(b) ==
  /\ biz[b] # Cleared("DISCONNECTED")
  /\ biz' = [biz EXCEPT ![b] = Cleared("DISCONNECTED")]
  /\ UNCHANGED <<verified, link, req, signup, form, admin, clock, forgotten, crossed>>

(***************************************************************************)
(* update(): Settings reads the row, then writes what was typed and, when  *)
(* a token came with it or the number is not the one it read, supersedes   *)
(* the links. Every save sends the number along; only an API client leaves *)
(* it out.                                                                 *)
(***************************************************************************)
SettingsRead(f) ==
  \E b \in Businesses :
    /\ form[f].pc = "idle" /\ Room
    /\ form' = [form EXCEPT ![f] = [pc |-> "write", b |-> b, was |-> biz[b].number]]
    /\ UNCHANGED <<verified, biz, link, req, signup, admin, clock, forgotten, crossed>>

StoreCredentials(f, n, replaces) ==
  LET b == form[f].b IN
  IF n # NoOne /\ \E c \in Businesses \ {b} : biz[c].number = n
    THEN form' = [form EXCEPT ![f] = IdleForm] /\ UNCHANGED <<biz, clock, crossed>>
    ELSE IF replaces
      THEN /\ clock' = clock + 1
           /\ biz' = [biz EXCEPT ![b].number = n, ![b].born = clock']
           /\ form' = [form EXCEPT ![f].pc = "supersede"]
           /\ Replaced(b)
      ELSE /\ biz' = [biz EXCEPT ![b].number = n]
           /\ form' = [form EXCEPT ![f] = IdleForm]
           /\ UNCHANGED <<clock, crossed>>

TypeCredentials(f) ==
  /\ form[f].pc = "write" /\ clock < MaxClock
  /\ \/ \E n \in Numbers \cup {NoOne}, token \in BOOLEAN :
          StoreCredentials(f, n, token \/ n # form[f].was)
     \/ StoreCredentials(f, biz[form[f].b].number, TRUE)
  /\ UNCHANGED <<verified, link, req, signup, admin, forgotten>>

SupersedeLinks(f) ==
  /\ form[f].pc = "supersede"
  /\ link' = Superseded(form[f].b)
  /\ form' = [form EXCEPT ![f] = IdleForm]
  /\ UNCHANGED <<verified, biz, req, signup, admin, clock, forgotten, crossed>>

SupersedeFails(f) ==
  /\ form[f].pc = "supersede"
  /\ Missed(form[f].b)
  /\ form' = [form EXCEPT ![f] = IdleForm]
  /\ UNCHANGED <<verified, biz, link, req, signup, admin, clock, forgotten>>

\* A merchant proves to be u with a token that Meta vouches for.
VerifyAndLink(b, u) ==
  /\ link[b][u] # [state |-> "live", of |-> biz[b].born]
  /\ link' = [link EXCEPT ![b][u] = [state |-> "live", of |-> biz[b].born]]
  /\ forgotten' = forgotten \ {u}
  /\ UNCHANGED <<verified, biz, req, signup, form, admin, clock, crossed>>

(***************************************************************************)
(* revokeConnections(): the named businesses that are not yet disconnected *)
(* lose their credentials.                                                 *)
(***************************************************************************)
Hit(B) == {b \in B : biz[b].status \notin NOT_LIVE}
RevokeConnections(B) ==
  biz' = [b \in Businesses |-> IF b \in Hit(B) THEN Cleared("DEAUTHORIZED") ELSE biz[b]]

RetireLinks(B, u) ==
  link' = [b \in Businesses |->
    IF b \in B THEN [link[b] EXCEPT ![u] = IF @.state = "live" THEN Revoked ELSE @]
               ELSE link[b]]

ForgetLinks(u) == link' = [b \in Businesses |-> [link[b] EXCEPT ![u] = [state |-> "none", of |-> 0]]]
ForgetUser(u, k, row) ==
  req' = [i \in Callbacks |->
    IF i = k THEN row ELSE IF req[i].user = u THEN [req[i] EXCEPT !.user = NoOne] ELSE req[i]]

\* A deauthorization callback; a delivery whose dedupe key is known changes nothing.
\* The instant and the candidates are kept for the review of a row not acted on, the
\* only one that asks for them.
HandleDeauthorization(k) ==
  LET u == Author[k]
      linked == LiveLinked(u)
      Row(status, matched) == [NoRequest EXCEPT !.status = status, !.user = u, !.matched = matched]
  IN /\ req[k].status = "none"
     /\ forgotten' = forgotten \ {u}
     /\ IF linked # {} /\ ~verified
          THEN /\ req' = [req EXCEPT ![k] = [Row("NO_ACTION_UNVERIFIED", {}) EXCEPT !.at = clock,
                                                                                !.candidates = linked]]
               /\ UNCHANGED <<biz, link>>
          ELSE /\ req' = [req EXCEPT ![k] = Row(IF linked = {} THEN "NO_MATCH" ELSE "COMPLETED", linked)]
               /\ RevokeConnections(linked) /\ RetireLinks(linked, u)
     /\ UNCHANGED <<verified, signup, form, admin, clock, crossed>>

HandleDataDeletion(k) ==
  LET u == Author[k] IN
  /\ req[k].status = "none"
  /\ IF Linked(u) = {} \/ ~verified
       THEN /\ req' = [req EXCEPT ![k] = [NoRequest EXCEPT !.status = "PENDING_REVIEW", !.user = u]]
            /\ forgotten' = forgotten \ {u}
            /\ UNCHANGED <<biz, link>>
       ELSE /\ RevokeConnections(LiveLinked(u))
            /\ ForgetLinks(u)
            /\ ForgetUser(u, k, [NoRequest EXCEPT !.status = "COMPLETED", !.matched = Linked(u)])
            /\ forgotten' = forgotten \cup {u}
  /\ UNCHANGED <<verified, signup, form, admin, clock, crossed>>

(***************************************************************************)
(* An admin names businesses for a deauthorization that was not acted on.  *)
(* assess() decides again under the locks of the transaction.              *)
(***************************************************************************)
StillLinked(k, b) == req[k].user # NoOne /\ link[b][req[k].user].state = "live"
Eligible(k, b) ==
  /\ b \in req[k].candidates
  /\ StillLinked(k, b)
  /\ ~(biz[b].connectedAt > req[k].at)

LoadDeauthorization(a, k) ==
  /\ admin[a].pc = "idle"
  /\ req[k].status = "NO_ACTION_UNVERIFIED"
  /\ admin' = [admin EXCEPT ![a] = [pc |-> "deauth", k |-> k, user |-> NoOne]]
  /\ UNCHANGED <<verified, biz, link, req, signup, form, clock, forgotten, crossed>>

\* named = {} is the outcome NO_CHANGE, anything else DISCONNECT_VERIFIED.
ResolveDeauthorizationTwice(a, named) ==
  LET k == admin[a].k IN
     /\ admin[a].pc = "deauth"
     /\ req' = [req EXCEPT ![k].status = IF named = {} THEN "NO_CHANGE_RECORDED" ELSE "COMPLETED",
                           ![k].matched = named]
     /\ admin' = [admin EXCEPT ![a] = IdleAdmin]
     /\ UNCHANGED <<verified, biz, link, signup, form, clock, forgotten, crossed>>

ResolveDeauthorization(a, named) ==
  LET k == admin[a].k
      claimed == req[k].status = "NO_ACTION_UNVERIFIED"
      ok == claimed /\ (named # {} => req[k].user # NoOne /\ \A b \in named : Eligible(k, b))
  IN /\ admin[a].pc = "deauth"
     /\ IF ok /\ named # {}
          THEN /\ RevokeConnections(named)
               /\ RetireLinks(named, req[k].user)
          ELSE UNCHANGED <<biz, link>>
     /\ req' = IF ok THEN [req EXCEPT ![k].status = IF named = {} THEN "NO_CHANGE_RECORDED" ELSE "COMPLETED",
                                      ![k].matched = named]
                     ELSE req
     /\ admin' = [admin EXCEPT ![a] = IdleAdmin]
     /\ UNCHANGED <<verified, signup, form, clock, forgotten, crossed>>

(***************************************************************************)
(* An admin closes a data-deletion request: NO_DATA_HELD when named is     *)
(* empty, COMPLETED otherwise. The user id is the one read before the      *)
(* transaction.                                                            *)
(***************************************************************************)
LoadDeletionRequest(a, k) ==
  /\ admin[a].pc = "idle"
  /\ req[k].status = "PENDING_REVIEW"
  /\ admin' = [admin EXCEPT ![a] = [pc |-> "deletion", k |-> k, user |-> req[k].user]]
  /\ UNCHANGED <<verified, biz, link, req, signup, form, clock, forgotten, crossed>>

DeletionChecks(k, u, named) ==
  /\ req[k].status = "PENDING_REVIEW"
  /\ u # NoOne => Linked(u) \subseteq named

ResolveDeletionKeepsOthers(a, named) ==
  LET k == admin[a].k
      u == admin[a].user
  IN /\ admin[a].pc = "deletion"
     /\ IF DeletionChecks(k, u, named)
          THEN /\ RevokeConnections(named)
               /\ IF u = NoOne THEN UNCHANGED <<link, forgotten>>
                    ELSE ForgetLinks(u) /\ forgotten' = forgotten \cup {u}
               /\ req' = [req EXCEPT ![k].status = IF named = {} THEN "NO_DATA_HELD" ELSE "COMPLETED",
                                     ![k].user = NoOne, ![k].matched = named]
          ELSE UNCHANGED <<biz, link, req, forgotten>>
     /\ admin' = [admin EXCEPT ![a] = IdleAdmin]
     /\ UNCHANGED <<verified, signup, form, clock, crossed>>

ResolveDeletion(a, named) ==
  LET k == admin[a].k
      u == admin[a].user
      row == [req[k] EXCEPT !.status = IF named = {} THEN "NO_DATA_HELD" ELSE "COMPLETED",
                            !.user = NoOne, !.matched = named]
  IN /\ admin[a].pc = "deletion"
     /\ IF DeletionChecks(k, u, named)
          THEN /\ RevokeConnections(named)
               /\ IF u = NoOne
                    THEN req' = [req EXCEPT ![k] = row] /\ UNCHANGED <<link, forgotten>>
                    ELSE ForgetLinks(u) /\ ForgetUser(u, k, row) /\ forgotten' = forgotten \cup {u}
          ELSE UNCHANGED <<biz, link, req, forgotten>>
     /\ admin' = [admin EXCEPT ![a] = IdleAdmin]
     /\ UNCHANGED <<verified, signup, form, clock, crossed>>

Signup(s) ==
  \/ StartOnboarding(s) \/ OnboardingStep(s) \/ CheckOwner(s)
  \/ SaveConnection(s) \/ RecordConnectionIdentity(s) \/ SignupDies(s)

Setting(f) == SettingsRead(f) \/ TypeCredentials(f) \/ SupersedeLinks(f) \/ SupersedeFails(f)

AdminStep(a) ==
  \/ \E k \in Deauths : LoadDeauthorization(a, k)
  \/ \E k \in Deletions : LoadDeletionRequest(a, k)
  \/ \E named \in SUBSET Businesses : ResolveDeauthorization(a, named) \/ ResolveDeletion(a, named)

MetaNext ==
  \/ \E s \in Signups : Signup(s)
  \/ \E f \in Settings : Setting(f)
  \/ \E b \in Businesses : Disconnect(b) \/ \E u \in Users : VerifyAndLink(b, u)
  \/ \E k \in Deauths : HandleDeauthorization(k)
  \/ \E k \in Deletions : HandleDataDeletion(k)
  \/ \E a \in Admins : AdminStep(a)

MetaSpec == MetaInit /\ [][MetaNext]_metaVars

MetaTypeOK ==
  /\ verified \in BOOLEAN
  /\ biz \in [Businesses -> [status : BizStatuses, number : Numbers \cup {NoOne},
                             connectedAt : 0..MaxClock, born : 0..MaxClock]]
  /\ link \in [Businesses -> [Users -> [state : {"none", "live", "revoked"}, of : 0..MaxClock]]]
  /\ \A k \in Deauths : req[k].status \in DeauthFinal \cup {"none", "NO_ACTION_UNVERIFIED"}
  /\ \A k \in Deletions : req[k].status \in DeletionFinal \cup {"none", "PENDING_REVIEW"}
  /\ \A k \in Callbacks : /\ req[k].user \in Users \cup {NoOne} /\ req[k].at \in 0..MaxClock
                          /\ req[k].candidates \subseteq Businesses
                          /\ req[k].matched \subseteq Businesses
  /\ clock \in 0..MaxClock /\ forgotten \subseteq Users /\ crossed \subseteq Businesses

(***************************************************************************)
(* "Of two simultaneous resolutions exactly one proceeds": the outcome of  *)
(* a callback that was decided, and the businesses it names, never change, *)
(* whichever admin still holds an older view of it.                        *)
(***************************************************************************)
ResolvedOnce ==
  [][\A k \in Callbacks :
       req[k].status \in (IF k \in Deauths THEN DeauthFinal ELSE DeletionFinal)
         => req'[k].status = req[k].status /\ req'[k].matched = req[k].matched]_metaVars

(***************************************************************************)
(* "The identifier was the data being deleted": once a deletion is done,   *)
(* no link and no audit row holds the user's id, until Meta or the user    *)
(* brings it again.                                                        *)
(***************************************************************************)
Forgotten ==
  \A u \in forgotten : Linked(u) = {} /\ \A k \in Callbacks : req[k].user # u

(***************************************************************************)
(* "Links describe the CURRENT connection", "so an older authoriser can    *)
(* never disconnect a newer connection": once the request that replaced a  *)
(* connection has seen to its links, every live link was written for the   *)
(* connection that is there. Left out, until the next change, are one      *)
(* whose link update was lost and one that crossed an older signup.        *)
(***************************************************************************)
LinksFollowTheConnection ==
  \A b \in Businesses \ crossed, u \in Users :
    link[b][u].state = "live" /\ biz[b].born # 0 /\ ~Following(b)
      => link[b][u].of = biz[b].born
=============================================================================
