------------------------- MODULE RazorpayConnection -------------------------
(***************************************************************************)
(* The OAuth connection of one business to its Razorpay account: connect   *)
(* and disconnect in the dashboard (razorpay-oauth.service.ts) and the     *)
(* daily token refresh of the worker (razorpay-token-refresh.ts).          *)
(*                                                                         *)
(* A token set is the number of the grant it came from; 0 is none. What    *)
(* Razorpay does is external: it revokes the set it is given, and may or   *)
(* may not end a set when it hands out the one that replaces it.           *)
(***************************************************************************)
EXTENDS Naturals

CONSTANTS
  Redirects,   \* the OAuth redirects that may be handled at once
  MaxGrants,   \* bound: token sets Razorpay ever issues
  MaxLosses    \* bound: processes that die and database writes that fail

ASSUME RazorpayAssumption == MaxGrants \in Nat \ {0} /\ MaxLosses \in Nat

VARIABLES
  client,    \* has the worker the client id and secret of the OAuth application
  conn,      \* the connection columns of the Business row
  issued,    \* Razorpay: how many token sets it issued
  revoked,   \* Razorpay: the token sets that no longer work
  redirect,  \* the redirects being handled
  leaving,   \* the disconnect request, and the token set it read
  refresh,   \* the daily job: the set it read and the set that replaces it
  losses,    \* deaths and failed writes so far
  abandoned  \* history: token sets revoked by a disconnect that died

razorpayVars == <<client, conn, issued, revoked, redirect, leaving, refresh, losses, abandoned>>

Grants == 1..MaxGrants
NotConnected == [status |-> "DISCONNECTED", token |-> 0, due |-> FALSE]
NotLeaving == [pc |-> "idle", token |-> 0]
NotRefreshing == [pc |-> "idle", from |-> 0, token |-> 0]

RazorpayInit ==
  /\ client \in BOOLEAN
  /\ conn = NotConnected
  /\ issued = 0 /\ revoked = {}
  /\ redirect = [r \in Redirects |-> 0]
  /\ leaving = NotLeaving /\ refresh = NotRefreshing
  /\ losses = 0 /\ abandoned = {}

(***************************************************************************)
(* handleCallback(): exchange the code, then write the token set. A        *)
(* refused exchange writes RETRY_REQUIRED and leaves the tokens alone.     *)
(***************************************************************************)
ExchangeCode(r) ==
  /\ redirect[r] = 0
  /\ \/ /\ issued < MaxGrants
        /\ issued' = issued + 1
        /\ redirect' = [redirect EXCEPT ![r] = issued']
        /\ UNCHANGED conn
     \/ /\ conn' = [conn EXCEPT !.status = "RETRY_REQUIRED"]
        /\ UNCHANGED <<issued, redirect>>
  /\ UNCHANGED <<client, revoked, leaving, refresh, losses, abandoned>>

SaveTokens(r) ==
  /\ redirect[r] # 0
  /\ conn' = [status |-> "CONNECTED", token |-> redirect[r], due |-> FALSE]
  /\ redirect' = [redirect EXCEPT ![r] = 0]
  /\ UNCHANGED <<client, issued, revoked, leaving, refresh, losses, abandoned>>

(***************************************************************************)
(* disconnect(): read the row, revoke the token read, as well as that      *)
(* works, then clear every column.                                         *)
(***************************************************************************)
LeaveRead ==
  /\ leaving.pc = "idle"
  /\ leaving' = [pc |-> "revoke", token |-> conn.token]
  /\ UNCHANGED <<client, conn, issued, revoked, redirect, refresh, losses, abandoned>>

RevokeToken ==
  /\ leaving.pc = "revoke"
  /\ leaving' = [leaving EXCEPT !.pc = "clear"]
  /\ revoked' \in {revoked, revoked \cup ({leaving.token} \ {0})}
  /\ UNCHANGED <<client, conn, issued, redirect, refresh, losses, abandoned>>

ClearConnection ==
  /\ leaving.pc = "clear"
  /\ conn' = NotConnected
  /\ leaving' = NotLeaving
  /\ UNCHANGED <<client, issued, revoked, redirect, refresh, losses, abandoned>>

\* The token set comes within REFRESH_WINDOW_DAYS of its expiry.
NearsExpiry ==
  /\ conn.token # 0 /\ ~conn.due
  /\ conn' = [conn EXCEPT !.due = TRUE]
  /\ UNCHANGED <<client, issued, revoked, redirect, leaving, refresh, losses, abandoned>>

(***************************************************************************)
(* processRazorpayTokenRefresh(): read the due connections, then ask for a *)
(* new token set with the token read, then write it, or RETRY_REQUIRED if  *)
(* anything failed. Neither write looks at the row again.                  *)
(***************************************************************************)
RefreshReadTakesTheDate ==
  /\ refresh.pc = "idle" /\ client
  /\ conn.status = "CONNECTED" /\ conn.token # 0 /\ conn.due
  /\ refresh' = [pc |-> "ask", from |-> conn.token, token |-> 0]
  /\ conn' = [conn EXCEPT !.due = FALSE]
  /\ UNCHANGED <<client, issued, revoked, redirect, leaving, losses, abandoned>>

RefreshRead ==
  /\ refresh.pc = "idle" /\ client
  /\ conn.status = "CONNECTED" /\ conn.token # 0 /\ conn.due
  /\ refresh' = [pc |-> "ask", from |-> conn.token, token |-> 0]
  /\ UNCHANGED <<client, conn, issued, revoked, redirect, leaving, losses, abandoned>>

RefreshAsk ==
  /\ refresh.pc = "ask"
  /\ \/ /\ refresh.from \notin revoked /\ issued < MaxGrants
        /\ issued' = issued + 1
        /\ refresh' = [refresh EXCEPT !.pc = "save", !.token = issued']
        /\ revoked' \in {revoked, revoked \cup {refresh.from}}
     \/ /\ refresh' = [refresh EXCEPT !.pc = "fail"]
        /\ UNCHANGED <<issued, revoked>>
  /\ UNCHANGED <<client, conn, redirect, leaving, losses, abandoned>>

RefreshSwallowsFailure ==
  /\ refresh.pc \in {"save", "fail"}
  /\ conn' = IF refresh.pc = "save"
               THEN [conn EXCEPT !.token = refresh.token, !.due = FALSE] ELSE conn
  /\ refresh' = NotRefreshing
  /\ UNCHANGED <<client, issued, revoked, redirect, leaving, losses, abandoned>>

RefreshSave ==
  /\ refresh.pc \in {"save", "fail"}
  /\ conn' = IF refresh.pc = "save"
               THEN [conn EXCEPT !.token = refresh.token, !.due = FALSE]
               ELSE [conn EXCEPT !.status = "RETRY_REQUIRED"]
  /\ refresh' = NotRefreshing
  /\ UNCHANGED <<client, issued, revoked, redirect, leaving, losses, abandoned>>

Refresh == RefreshRead \/ RefreshAsk \/ RefreshSave

(***************************************************************************)
(* What may be lost: the write of the new token set fails, which is        *)
(* recorded like a refusal; that record fails too, which is only logged;   *)
(* the worker or the API dies between two of the calls above.              *)
(***************************************************************************)
Lose == losses < MaxLosses /\ losses' = losses + 1

RefreshSaveFails ==
  /\ Lose /\ refresh.pc = "save"
  /\ refresh' = [refresh EXCEPT !.pc = "fail"]
  /\ UNCHANGED <<client, conn, issued, revoked, redirect, leaving, abandoned>>

\* the worker dies, or the failure could not be recorded: the row is as it was
RefreshDies ==
  /\ Lose /\ refresh.pc # "idle"
  /\ refresh' = NotRefreshing
  /\ UNCHANGED <<client, conn, issued, revoked, redirect, leaving, abandoned>>

DisconnectDies ==
  /\ Lose /\ leaving.pc # "idle"
  /\ leaving' = NotLeaving
  /\ abandoned' = IF leaving.pc = "clear" THEN abandoned \cup (revoked \cap {leaving.token}) ELSE abandoned
  /\ UNCHANGED <<client, conn, issued, revoked, redirect, refresh>>

RedirectDies(r) ==
  /\ Lose /\ redirect[r] # 0
  /\ redirect' = [redirect EXCEPT ![r] = 0]
  /\ UNCHANGED <<client, conn, issued, revoked, leaving, refresh, abandoned>>

RazorpayNext ==
  \/ \E r \in Redirects : ExchangeCode(r) \/ SaveTokens(r) \/ RedirectDies(r)
  \/ LeaveRead \/ RevokeToken \/ ClearConnection \/ DisconnectDies
  \/ NearsExpiry
  \/ Refresh \/ RefreshSaveFails \/ RefreshDies

RazorpaySpec == RazorpayInit /\ [][RazorpayNext]_razorpayVars /\ WF_razorpayVars(Refresh)

RazorpayTypeOK ==
  /\ client \in BOOLEAN
  /\ conn \in [status : {"CONNECTED", "RETRY_REQUIRED", "DISCONNECTED"},
               token : 0..MaxGrants, due : BOOLEAN]
  /\ issued \in 0..MaxGrants /\ revoked \subseteq Grants
  /\ redirect \in [Redirects -> 0..MaxGrants]
  /\ leaving \in [pc : {"idle", "revoke", "clear"}, token : 0..MaxGrants]
  /\ refresh \in [pc : {"idle", "ask", "save", "fail"}, from : 0..MaxGrants, token : 0..MaxGrants]
  /\ losses \in 0..MaxLosses /\ abandoned \subseteq Grants

(***************************************************************************)
(* A row that says CONNECTED never keeps a token set that Razorpay has     *)
(* ended where nobody will look for it: the set is due, so that the next   *)
(* daily refresh finds it (razorpay-token-refresh.ts 30-33), or the        *)
(* disconnect that revoked it is about to clear the row, or died before it *)
(* did. It holds over redirects, disconnects and refreshes that overwrite  *)
(* each other, and over a worker that dies after Razorpay replaced the     *)
(* set.                                                                    *)
(***************************************************************************)
DeadTokensAreFound ==
  conn.status = "CONNECTED" =>
    /\ conn.token # 0
    /\ conn.token \in revoked => \/ conn.due
                                 \/ leaving.pc = "clear" /\ leaving.token = conn.token
                                 \/ conn.token \in abandoned

(***************************************************************************)
(* Tokens "must be refreshed before then, or every payment-link API call   *)
(* for that business starts failing": where the worker has the client's    *)
(* credentials, a connected token set that nears its expiry is replaced,   *)
(* or the row stops saying CONNECTED, also after a worker died with the    *)
(* replacement in its hands.                                               *)
(***************************************************************************)
DueIsHandled ==
  (client /\ conn.status = "CONNECTED" /\ conn.due) ~> ~(conn.status = "CONNECTED" /\ conn.due)
=============================================================================
