----------------------------- MODULE TokenRefresh -----------------------------
(***************************************************************************)
(* The tracked Web API call of a SlackBackend and the token refresh it may  *)
(* wait for (issueApi and loseAuth in slack_backend_core.cpp, the Token     *)
(* refresh section of slack_realtime.cpp): single-use refresh tokens, one   *)
(* refresh in flight for all the calls that need it, each call re-sent at   *)
(* most once, the renewed credentials saved before anything else happens.   *)
(*                                                                          *)
(* Everything of the backend runs on the UI thread; beside it run Slack     *)
(* (external: which tokens it takes), the network, and another device on    *)
(* the same keys. The access and the refresh token Slack issues together    *)
(* are the same number.                                                     *)
(***************************************************************************)
EXTENDS Naturals

CONSTANTS
  Call,     \* the API calls of the backend's callers
  MaxToken, \* bound: token pairs Slack issues after the first
  MaxQuits  \* bound: how often the app ends and starts again

ASSUME BoundAssumption == MaxToken \in Nat /\ MaxQuits \in Nat

VARIABLES
  call,        \* each tracked call: its state, the token it went with, and
               \* whether it goes (or went) out as `refreshed`
  sends,       \* how often each call went out
  token,       \* _auth.token
  refreshTok,  \* _creds.refreshToken
  canRefresh,  \* _creds.refreshToken is not empty
  saved,       \* the WorkspaceRecord on disk, as onCredentialsChanged left it
  refreshing,  \* Live::refreshing
  oauth,       \* the oauth.v2.access call and what Slack answered
  authLost,    \* _authLost
  alive,       \* the backend exists
  quits,
  live,        \* the access tokens Slack takes
  issued,      \* the last pair Slack issued
  serverTok,   \* the refresh token Slack takes
  revoked,     \* Slack has withdrawn the keys: account, app or sign-in gone
  stranded     \* a renewed pair never reached this device

client == <<call, sends, refreshing, oauth, authLost>>
creds  == <<token, refreshTok, canRefresh, saved>>
slack  == <<live, issued, serverTok, revoked, stranded>>
vars   == <<client, creds, alive, quits, slack>>

Token == 0..MaxToken
CallState == {"idle", "out", "accepted", "rejected", "disowned", "waiting", "done"}
CallRecord == [state : CallState, token : Token, refreshed : BOOLEAN]
EmptyToken == MaxToken + 1 \* an answer that names no refresh_token
OauthState == {"none", "out", "renewed", "refused"}
Oauth == [state : OauthState, token : Token, refresh : Token \union {EmptyToken}]
NoOauth == [state |-> "none", token |-> 0, refresh |-> 0]
Idle == [state |-> "idle", token |-> 0, refreshed |-> FALSE]

-----------------------------------------------------------------------------
Init ==
  /\ call = [c \in Call |-> Idle] /\ sends = [c \in Call |-> 0]
  /\ token = 0 /\ refreshTok = 0 /\ canRefresh \in BOOLEAN
  /\ saved = [token |-> 0, refresh |-> 0]
  /\ refreshing = FALSE /\ oauth = NoOauth
  /\ authLost = FALSE /\ alive = TRUE /\ quits = 0
  /\ live = {0} /\ issued = 0 /\ serverTok = 0 /\ revoked = FALSE /\ stranded = FALSE

-----------------------------------------------------------------------------
(* issueApi. *)

\* While a refresh is out nothing else goes out.
MustWait_Never == FALSE
MustWait == refreshing
Issued(refreshed) ==
  [state |-> IF MustWait THEN "waiting" ELSE "out", token |-> token, refreshed |-> refreshed]
Send(c, refreshed) ==
  /\ call' = [call EXCEPT ![c] = Issued(refreshed)]
  /\ sends' = [sends EXCEPT ![c] = IF MustWait THEN @ ELSE @ + 1]

\* A caller's api(): a call that has not been made, or was answered.
Api(c) ==
  /\ alive /\ call[c].state \in {"idle", "done"}
  /\ call' = [call EXCEPT ![c] = Issued(FALSE)]
  /\ sends' = [sends EXCEPT ![c] = IF MustWait THEN 0 ELSE 1]
  /\ UNCHANGED <<refreshing, oauth, authLost, creds, alive, quits, slack>>

\* refresh(): the one in flight answers everyone.
StartRefresh ==
  IF refreshing THEN UNCHANGED <<refreshing, oauth>>
  ELSE /\ refreshing' = TRUE
       /\ oauth' = [state |-> "out", token |-> token, refresh |-> refreshTok]

Done(c) == call' = [call EXCEPT ![c] = [@ EXCEPT !.state = "done"]]

\* The call's answer: done, unless Slack rejected the token.
Answered(c) ==
  /\ call[c].state = "accepted"
  /\ Done(c)
  /\ UNCHANGED <<sends, refreshing, oauth, authLost, creds, alive, quits, slack>>

\* Sent on a token that has since been, or is being, replaced.
Superseded(c) == call[c].token # token \/ refreshing

AsRefreshed_Forgotten == FALSE
AsRefreshed == TRUE

RejectedResend(c) ==
  /\ call[c].state = "rejected" /\ ~call[c].refreshed /\ Superseded(c)
  /\ Send(c, AsRefreshed)
  /\ UNCHANGED <<refreshing, oauth, authLost, creds, alive, quits, slack>>

RejectedRefresh(c) ==
  /\ call[c].state = "rejected" /\ ~call[c].refreshed /\ ~Superseded(c) /\ canRefresh
  /\ call' = [call EXCEPT ![c] = [@ EXCEPT !.state = "waiting", !.refreshed = AsRefreshed]]
  /\ StartRefresh
  /\ UNCHANGED <<sends, authLost, creds, alive, quits, slack>>

\* Rejected with nothing left to try, or with a code no refresh is tried for
\* (token_revoked, account_inactive): loseAuth, and the caller hears so.
RejectedForGood(c) ==
  /\ \/ call[c].state = "disowned"
     \/ /\ call[c].state = "rejected"
        /\ call[c].refreshed \/ (~Superseded(c) /\ ~canRefresh)
  /\ authLost' = TRUE
  /\ Done(c)
  /\ UNCHANGED <<sends, refreshing, oauth, creds, alive, quits, slack>>

-----------------------------------------------------------------------------
(* The refresh. *)

\* The 60 s check finds the token close to its expiry.
MaybeProactiveRefresh ==
  /\ alive /\ ~authLost /\ canRefresh /\ ~refreshing
  /\ StartRefresh
  /\ UNCHANGED <<call, sends, authLost, creds, alive, quits, slack>>

\* finishRefresh: every waiter hears of it, and goes out again or fails.
Waiters_DroppedOnFailure(ok) == {c \in Call : ok /\ call[c].state = "waiting"}
Waiters(ok) == {c \in Call : call[c].state = "waiting"}
FinishRefresh(ok, tok) ==
  /\ refreshing' = FALSE /\ oauth' = NoOauth
  /\ call' = [c \in Call |->
       IF c \in Waiters(ok)
       THEN [call[c] EXCEPT !.state = IF ok THEN "out" ELSE "done", !.token = tok]
       ELSE call[c]]
  /\ sends' = [c \in Call |-> IF ok /\ c \in Waiters(ok) THEN sends[c] + 1 ELSE sends[c]]

Kept_OldRefreshToken == refreshTok
Kept == IF oauth.refresh = EmptyToken THEN refreshTok ELSE oauth.refresh

\* The new credentials are saved before anyone goes out on them.
RefreshSucceeds ==
  /\ oauth.state = "renewed"
  /\ token' = oauth.token /\ refreshTok' = Kept
  /\ saved' = [token |-> token', refresh |-> refreshTok']
  /\ FinishRefresh(TRUE, oauth.token)
  /\ UNCHANGED <<canRefresh, authLost, alive, quits, slack>>

\* No answer of Slack's, or one that proves nothing: stay signed in.
RefreshFails ==
  /\ oauth.state \in {"out", "renewed"}
  /\ FinishRefresh(FALSE, token)
  /\ stranded' = (stranded \/ oauth.state = "renewed")
  /\ UNCHANGED <<authLost, creds, alive, quits, live, issued, serverTok, revoked>>

\* Slack refused the refresh token: the keys are dead.
RefreshRefused ==
  /\ oauth.state = "refused"
  /\ authLost' = TRUE
  /\ FinishRefresh(FALSE, token)
  /\ UNCHANGED <<creds, alive, quits, slack>>

-----------------------------------------------------------------------------
(* The backend's end: the app quits (or crashes), or the accounts controller *)
(* signs the workspace out. Its calls are cancelled.                         *)

Cancelled ==
  /\ call' = [c \in Call |-> Idle] /\ sends' = [c \in Call |-> 0]
  /\ refreshing' = FALSE /\ oauth' = NoOauth
  /\ alive' = FALSE
  /\ stranded' = (stranded \/ oauth.state = "renewed")

Quit ==
  /\ quits < MaxQuits
  /\ Cancelled
  /\ quits' = quits + 1
  /\ authLost' = FALSE \* the record stays: the next launch starts signed in
  /\ UNCHANGED <<creds, live, issued, serverTok, revoked>>

SignOut ==
  /\ alive /\ authLost
  /\ Cancelled
  /\ UNCHANGED <<authLost, creds, quits, live, issued, serverTok, revoked>>

\* The app starts: the workspace is read back from its record. (A signed-out one
\* keeps its record too, and is tried again at the next start.)
Launch ==
  /\ ~alive /\ ~authLost
  /\ alive' = TRUE
  /\ token' = saved.token /\ refreshTok' = saved.refresh
  /\ UNCHANGED <<client, canRefresh, saved, quits, slack>>

-----------------------------------------------------------------------------
(* Slack and the network. *)

\* A token it no longer takes is rejected with a code that a refresh may help
\* with; once the keys are withdrawn, with that or with one that says so.
Verdicts(t) ==
  IF t \in live THEN {"accepted"} ELSE {"rejected"} \union (IF revoked THEN {"disowned"} ELSE {})
SlackJudges(c) ==
  /\ call[c].state = "out"
  /\ \E verdict \in Verdicts(call[c].token) :
       call' = [call EXCEPT ![c] = [@ EXCEPT !.state = verdict]]
  /\ UNCHANGED <<sends, refreshing, oauth, authLost, creds, alive, quits, slack>>

\* A call fails for a reason that says nothing of the token; its caller hears it.
CallFails(c) ==
  /\ call[c].state = "out"
  /\ Done(c)
  /\ UNCHANGED <<sends, refreshing, oauth, authLost, creds, alive, quits, slack>>

\* Slack takes a refresh token once; or, without rotation, again and again, and
\* need not name it in its answer.
SlackRenews ==
  /\ oauth.state = "out" /\ oauth.refresh = serverTok /\ ~revoked /\ issued < MaxToken
  /\ issued' = issued + 1
  /\ live' = live \union {issued'}
  /\ \E rotates \in BOOLEAN :
       /\ serverTok' = IF rotates THEN issued' ELSE serverTok
       /\ \E named \in {serverTok'} \union (IF rotates THEN {} ELSE {EmptyToken}) :
            oauth' = [state |-> "renewed", token |-> issued', refresh |-> named]
  /\ UNCHANGED <<call, sends, refreshing, authLost, creds, alive, quits, revoked, stranded>>

SlackRefuses ==
  /\ oauth.state = "out" /\ (oauth.refresh # serverTok \/ revoked)
  /\ oauth' = [oauth EXCEPT !.state = "refused"]
  /\ UNCHANGED <<call, sends, refreshing, authLost, creds, alive, quits, slack>>

\* An access token expires.
Expires(t) ==
  /\ t \in live
  /\ live' = live \ {t}
  /\ UNCHANGED <<client, creds, alive, quits, issued, serverTok, revoked, stranded>>

\* All the keys are withdrawn for good: the account is closed, the app removed,
\* the sign-in revoked.
Revoke ==
  /\ ~revoked
  /\ revoked' = TRUE /\ live' = {}
  /\ UNCHANGED <<client, creds, alive, quits, issued, serverTok, stranded>>

\* Another device spends the refresh token, or Slack honours a request this one
\* gave up on.
OtherDeviceRefreshes ==
  /\ ~revoked /\ issued < MaxToken
  /\ issued' = issued + 1 /\ serverTok' = issued' /\ live' = live \union {issued'}
  /\ stranded' = TRUE
  /\ UNCHANGED <<client, creds, alive, quits, revoked>>

-----------------------------------------------------------------------------
Deliver(c) ==
  Answered(c) \/ RejectedResend(c) \/ RejectedRefresh(c) \/ RejectedForGood(c)
OauthEnds == RefreshSucceeds \/ RefreshFails \/ RefreshRefused

Next ==
  \/ \E c \in Call : Api(c) \/ Deliver(c) \/ SlackJudges(c) \/ CallFails(c)
  \/ MaybeProactiveRefresh \/ OauthEnds
  \/ Quit \/ SignOut \/ Launch
  \/ SlackRenews \/ SlackRefuses \/ OtherDeviceRefreshes
  \/ (\E t \in Token : Expires(t)) \/ Revoke

Spec == Init /\ [][Next]_vars

\* net::Client answers every request (its own timeouts), on the UI loop.
Fairness ==
  /\ \A c \in Call : WF_vars(Deliver(c)) /\ WF_vars(SlackJudges(c) \/ CallFails(c))
  /\ WF_vars(OauthEnds) /\ WF_vars(SlackRefuses)
FairSpec == Spec /\ Fairness

-----------------------------------------------------------------------------
(* Properties. *)

\* Every variable keeps its type; a call goes out a handful of times at most.
TypeOK ==
  /\ call \in [Call -> CallRecord] /\ sends \in [Call -> Nat]
  /\ token \in Token /\ refreshTok \in Token /\ canRefresh \in BOOLEAN
  /\ saved \in [token : Token, refresh : Token]
  /\ refreshing \in BOOLEAN /\ oauth \in Oauth
  /\ authLost \in BOOLEAN /\ alive \in BOOLEAN /\ quits \in 0..MaxQuits
  /\ live \in SUBSET Token /\ issued \in Token /\ serverTok \in Token
  /\ revoked \in BOOLEAN /\ stranded \in BOOLEAN

\* A rejected call is re-issued once, never in a loop, however refreshes and
\* rejections interleave ("looping would hammer oauth.v2.access").
AtMostTwoSends == \A c \in Call : sends[c] <= 2

\* While a refresh is out nothing else goes out: a call sent on the dying token
\* would come back rejected and spend the next single-use refresh token.
NothingOutWhileRefreshing ==
  [][\A c \in Call : sends'[c] > sends[c] => ~refreshing']_vars

\* The device is never stranded by its own doing: the refresh token it holds, in
\* memory and on disk, is the one Slack takes, in every interleaving with quits,
\* unless a renewed answer was lost on the way or another device spent it.
NeverStranded ==
  ~stranded /\ oauth.state # "renewed" =>
    refreshTok = serverTok /\ saved = [token |-> token, refresh |-> refreshTok]

\* What bounds the sends: a call still to be marked refreshed went out once at
\* most, one that waits once less.
SendCount ==
  \A c \in Call : sends[c] + (IF call[c].state = "waiting" THEN 1 ELSE 0) <=
                   (IF call[c].refreshed THEN 2 ELSE 1)

\* The record on disk is what the backend last held.
RecordIsCurrent == saved = [token |-> token, refresh |-> refreshTok]

\* A renewed answer on its way carries the refresh token Slack takes.
RenewalIsCurrent ==
  ~stranded /\ oauth.state = "renewed" => Kept = serverTok

\* A call waits only on a refresh that is really out: a waiter without one would
\* wait for ever.
WaitersHaveARefresh ==
  /\ refreshing <=> oauth.state # "none"
  /\ (\E c \in Call : call[c].state = "waiting") => refreshing

\* The inductive invariant.
IInv ==
  TypeOK /\ SendCount /\ WaitersHaveARefresh /\ NeverStranded /\ RenewalIsCurrent /\ RecordIsCurrent

\* Every call is answered, or its backend ends.
EveryCallAnswered ==
  \A c \in Call : (call[c].state # "done") ~> (call[c].state \in {"done", "idle"})

\* onAuthLost's promise ("a later call finds the credentials dead"): the
\* workspace is signed out only if Slack no longer takes its token, or would not
\* renew it.
SignOutMeansDeadKeys ==
  [][~authLost /\ authLost' => token \notin live \/ (canRefresh /\ refreshTok # serverTok)]_vars
=============================================================================
