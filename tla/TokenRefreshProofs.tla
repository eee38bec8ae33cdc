-------------------------- MODULE TokenRefreshProofs --------------------------
(***************************************************************************)
(* TokenRefresh's inductive invariant, and what follows from it: no call   *)
(* goes out more than twice, no waiter is left without a refresh, and the  *)
(* device never strands itself with a spent refresh token.                 *)
(***************************************************************************)
EXTENDS TokenRefresh, TLAPS

-----------------------------------------------------------------------------
(* Type correctness. *)

\* The first pair is a token: the empty oauth call and the idle call are typed.
LEMMA NoneType == 0 \in Token /\ NoOauth \in Oauth /\ Idle \in CallRecord
<1>1. 0 \in Token
  BY BoundAssumption DEF Token
<1> QED  BY <1>1 DEF NoOauth, Oauth, OauthState, Idle, CallRecord, CallState

\* A call as issueApi leaves it is well formed.
LEMMA IssuedType ==
  ASSUME TypeOK, NEW refreshed \in BOOLEAN PROVE Issued(refreshed) \in CallRecord
  BY DEF TypeOK, Issued, MustWait, CallRecord, CallState

\* refresh() keeps its two variables well formed.
LEMMA StartRefreshType ==
  ASSUME TypeOK, StartRefresh PROVE refreshing' \in BOOLEAN /\ oauth' \in Oauth
<1>1. [state |-> "out", token |-> token, refresh |-> refreshTok] \in Oauth
  BY DEF TypeOK, Oauth, OauthState
<1>2. CASE refreshing
  BY <1>2 DEF TypeOK, StartRefresh
<1>3. CASE ~refreshing
  BY <1>1, <1>3 DEF StartRefresh
<1> QED  BY <1>2, <1>3

\* finishRefresh sends or fails every waiter.
LEMMA FinishRefreshType ==
  ASSUME TypeOK, NEW ok \in BOOLEAN, NEW tok \in Token, FinishRefresh(ok, tok)
  PROVE  /\ refreshing' \in BOOLEAN /\ oauth' \in Oauth
         /\ call' \in [Call -> CallRecord] /\ sends' \in [Call -> Nat]
<1>1. oauth' \in Oauth
  BY NoneType DEF FinishRefresh
<1>2. call' \in [Call -> CallRecord]
  <2> SUFFICES ASSUME NEW c \in Call
               PROVE  [call[c] EXCEPT !.state = IF ok THEN "out" ELSE "done",
                                      !.token = tok] \in CallRecord
    BY DEF TypeOK, FinishRefresh
  <2>1. call[c] \in CallRecord
    BY DEF TypeOK
  <2> QED  BY <2>1 DEF CallRecord, CallState
<1>3. sends' \in [Call -> Nat]
  <2> SUFFICES ASSUME NEW c \in Call
               PROVE  (IF ok /\ c \in Waiters(ok) THEN sends[c] + 1 ELSE sends[c]) \in Nat
    BY DEF FinishRefresh
  <2>1. sends[c] \in Nat /\ sends[c] + 1 \in Nat
    BY DEF TypeOK
  <2> QED  BY <2>1
<1> QED  BY <1>1, <1>2, <1>3 DEF FinishRefresh

\* Cancelling everything leaves idle calls.
LEMMA CancelledType ==
  ASSUME TypeOK, Cancelled
  PROVE  /\ call' \in [Call -> CallRecord] /\ sends' \in [Call -> Nat]
         /\ refreshing' \in BOOLEAN /\ oauth' \in Oauth /\ alive' \in BOOLEAN
         /\ stranded' \in BOOLEAN
  BY NoneType DEF TypeOK, Cancelled

\* Every step keeps every variable in its type.
LEMMA TypeStep == TypeOK /\ [Next]_vars => TypeOK'
<1> SUFFICES ASSUME TypeOK, [Next]_vars PROVE TypeOK'
  OBVIOUS
<1> USE DEF client, creds, slack
<1>1. ASSUME NEW c \in Call, Api(c) PROVE TypeOK'
  BY <1>1, IssuedType DEF TypeOK, Api
<1>2. ASSUME NEW c \in Call, Answered(c) \/ CallFails(c) PROVE TypeOK'
  BY <1>2 DEF TypeOK, Answered, CallFails, Done, CallRecord, CallState
<1>3. ASSUME NEW c \in Call, RejectedResend(c) PROVE TypeOK'
  <2>1. sends' \in [Call -> Nat]
    BY <1>3 DEF TypeOK, RejectedResend, Send
  <2>2. call' \in [Call -> CallRecord]
    BY <1>3, IssuedType DEF TypeOK, RejectedResend, Send, AsRefreshed
  <2> QED  BY <1>3, <2>1, <2>2 DEF TypeOK, RejectedResend
<1>4. ASSUME NEW c \in Call, RejectedRefresh(c) PROVE TypeOK'
  <2>1. call' \in [Call -> CallRecord]
    BY <1>4 DEF TypeOK, RejectedRefresh, AsRefreshed, CallRecord, CallState
  <2> QED  BY <1>4, <2>1, StartRefreshType DEF TypeOK, RejectedRefresh
<1>5. ASSUME NEW c \in Call, RejectedForGood(c) PROVE TypeOK'
  BY <1>5 DEF TypeOK, RejectedForGood, Done, CallRecord, CallState
<1>6. CASE MaybeProactiveRefresh
  BY <1>6, StartRefreshType DEF TypeOK, MaybeProactiveRefresh
<1>7. CASE RefreshSucceeds
  <2>1. oauth.token \in Token /\ Kept \in Token
    BY DEF TypeOK, Oauth, Kept
  <2> QED  BY <1>7, <2>1, FinishRefreshType DEF TypeOK, RefreshSucceeds
<1>8. CASE RefreshFails
  <2>1. token \in Token /\ stranded' \in BOOLEAN
    BY <1>8 DEF TypeOK, RefreshFails
  <2> QED  BY <1>8, <2>1, FinishRefreshType DEF TypeOK, RefreshFails
<1>9. CASE RefreshRefused
  <2>1. token \in Token
    BY DEF TypeOK
  <2> QED  BY <1>9, <2>1, FinishRefreshType DEF TypeOK, RefreshRefused
<1>10. CASE Quit
  <2>1. quits \in 0..MaxQuits /\ quits < MaxQuits /\ quits' = quits + 1 /\ authLost' = FALSE
    BY <1>10 DEF TypeOK, Quit
  <2>2. quits' \in 0..MaxQuits
    BY <2>1, BoundAssumption
  <2> QED  BY <1>10, <2>1, <2>2, CancelledType DEF TypeOK, Quit
<1>11. CASE SignOut
  BY <1>11, CancelledType DEF TypeOK, SignOut
<1>12. CASE Launch
  BY <1>12 DEF TypeOK, Launch
<1>13. ASSUME NEW c \in Call, SlackJudges(c) PROVE TypeOK'
  BY <1>13 DEF TypeOK, SlackJudges, Verdicts, CallRecord, CallState
<1>14. CASE SlackRenews
  <2>1. issued' \in Token
    BY <1>14, BoundAssumption DEF TypeOK, SlackRenews, Token
  <2> QED  BY <1>14, <2>1 DEF TypeOK, SlackRenews, Oauth, OauthState
<1>15. CASE SlackRefuses
  BY <1>15 DEF TypeOK, SlackRefuses, Oauth, OauthState
<1>16. CASE OtherDeviceRefreshes
  <2>1. issued' \in Token
    BY <1>16, BoundAssumption DEF TypeOK, OtherDeviceRefreshes, Token
  <2> QED  BY <1>16, <2>1 DEF TypeOK, OtherDeviceRefreshes
<1>17. CASE Revoke \/ \E t \in Token : Expires(t)
  BY <1>17 DEF TypeOK, Expires, Revoke
<1>18. CASE UNCHANGED vars
  BY <1>18 DEF TypeOK, vars
<1> QED  BY <1>1, <1>2, <1>3, <1>4, <1>5, <1>6, <1>7, <1>8, <1>9, <1>10, <1>11, <1>12,
           <1>13, <1>14, <1>15, <1>16, <1>17, <1>18 DEF Next, Deliver, OauthEnds

\* The backend starts well typed.
LEMMA TypeInit == Init => TypeOK
<1>1. 0 \in Token /\ 0 \in 0..MaxQuits /\ {0} \in SUBSET Token
  BY NoneType, BoundAssumption
<1>2. [c \in Call |-> 0] \in [Call -> Nat] /\ [c \in Call |-> Idle] \in [Call -> CallRecord]
  BY NoneType
<1>3. [token |-> 0, refresh |-> 0] \in [token : Token, refresh : Token]
  BY <1>1
<1> QED  BY <1>1, <1>2, <1>3, NoneType, Zenon DEF Init, TypeOK

\* The types hold for every number of calls and tokens.
THEOREM TypeCorrect == Spec => []TypeOK
BY TypeInit, TypeStep, PTL DEF Spec

-----------------------------------------------------------------------------
(* The inductive invariant. *)

\* finishRefresh answers every waiter, and a sent waiter stays within its count.
LEMMA FinishRefreshKeeps ==
  ASSUME IInv, NEW ok \in BOOLEAN, NEW tok \in Token, FinishRefresh(ok, tok)
  PROVE  SendCount' /\ WaitersHaveARefresh'
<1>1. SendCount'
  <2> SUFFICES ASSUME NEW c \in Call
               PROVE  sends'[c] + (IF call'[c].state = "waiting" THEN 1 ELSE 0) <=
                        (IF call'[c].refreshed THEN 2 ELSE 1)
    BY DEF SendCount
  <2>1. sends[c] \in Nat /\ call[c] \in CallRecord
    BY DEF IInv, TypeOK
  <2>2. CASE call[c].state = "waiting"
    <3>1. call'[c] = [call[c] EXCEPT !.state = IF ok THEN "out" ELSE "done", !.token = tok]
      BY <2>2 DEF FinishRefresh, Waiters
    <3>2. call'[c].refreshed = call[c].refreshed /\ call'[c].state # "waiting"
      BY <2>1, <3>1 DEF CallRecord
    <3>3. sends'[c] <= sends[c] + 1 /\ sends'[c] \in Nat
      <4>1. sends'[c] = sends[c] + 1 \/ sends'[c] = sends[c]
        BY DEF FinishRefresh
      <4> QED  BY <2>1, <4>1
    <3> QED  BY <2>1, <2>2, <3>2, <3>3 DEF IInv, SendCount
  <2>3. CASE call[c].state # "waiting"
    BY <2>3 DEF FinishRefresh, Waiters, IInv, SendCount
  <2> QED  BY <2>2, <2>3
<1>2. \A c \in Call : call'[c].state # "waiting"
  BY DEF FinishRefresh, Waiters, IInv, TypeOK, CallRecord
<1> QED  BY <1>1, <1>2 DEF FinishRefresh, WaitersHaveARefresh, NoOauth

\* Nothing is left after a cancellation.
LEMMA CancelledKeeps ==
  ASSUME Cancelled PROVE SendCount' /\ WaitersHaveARefresh'
  BY DEF Cancelled, SendCount, WaitersHaveARefresh, Idle, NoOauth

\* The parts of the invariant the credentials and Slack are in.
Current == NeverStranded /\ RenewalIsCurrent /\ RecordIsCurrent

\* Every step keeps the inductive invariant.
LEMMA InvariantStep == IInv /\ [Next]_vars => IInv'
<1> SUFFICES ASSUME IInv, [Next]_vars PROVE IInv'
  OBVIOUS
<1>0. TypeOK'
  BY TypeStep DEF IInv
<1>a. SUFFICES SendCount' /\ WaitersHaveARefresh' /\ Current'
  BY <1>0 DEF IInv, Current
<1> USE DEF client, creds, slack
<1>b. ASSUME UNCHANGED <<creds, slack, oauth>> PROVE Current'
  BY <1>b DEF IInv, Current, NeverStranded, RenewalIsCurrent, Kept, RecordIsCurrent
<1>1. ASSUME NEW c \in Call, Api(c) PROVE SendCount' /\ WaitersHaveARefresh' /\ Current'
  BY <1>1, <1>b DEF IInv, TypeOK, SendCount, WaitersHaveARefresh, Api, Issued, MustWait
<1>2. ASSUME NEW c \in Call, Answered(c) \/ CallFails(c)
      PROVE  SendCount' /\ WaitersHaveARefresh' /\ Current'
  BY <1>2, <1>b DEF IInv, TypeOK, CallRecord, SendCount, WaitersHaveARefresh, Answered,
     CallFails, Done
<1>3. ASSUME NEW c \in Call, RejectedResend(c)
      PROVE  SendCount' /\ WaitersHaveARefresh' /\ Current'
  BY <1>3, <1>b DEF IInv, TypeOK, SendCount, WaitersHaveARefresh, RejectedResend, Send,
     Issued, MustWait, AsRefreshed
<1>4. ASSUME NEW c \in Call, RejectedRefresh(c)
      PROVE  SendCount' /\ WaitersHaveARefresh' /\ Current'
  <2>1. SendCount'
    BY <1>4 DEF IInv, TypeOK, CallRecord, SendCount, RejectedRefresh, AsRefreshed
  <2>2. WaitersHaveARefresh'
    BY <1>4 DEF IInv, TypeOK, CallRecord, WaitersHaveARefresh, RejectedRefresh, StartRefresh
  <2>3. Current'
    BY <1>4 DEF IInv, Current, NeverStranded, RenewalIsCurrent, Kept, RecordIsCurrent,
       WaitersHaveARefresh, RejectedRefresh, StartRefresh
  <2> QED  BY <2>1, <2>2, <2>3
<1>5. ASSUME NEW c \in Call, RejectedForGood(c)
      PROVE  SendCount' /\ WaitersHaveARefresh' /\ Current'
  BY <1>5, <1>b DEF IInv, TypeOK, CallRecord, SendCount, WaitersHaveARefresh,
     RejectedForGood, Done
<1>6. CASE MaybeProactiveRefresh
  BY <1>6 DEF IInv, SendCount, WaitersHaveARefresh, Current, NeverStranded,
     RenewalIsCurrent, Kept, RecordIsCurrent, MaybeProactiveRefresh, StartRefresh
<1>7. CASE RefreshSucceeds
  <2>1. SendCount' /\ WaitersHaveARefresh'
    BY <1>7, FinishRefreshKeeps DEF IInv, TypeOK, Oauth, RefreshSucceeds
  <2>2. Current'
    BY <1>7 DEF IInv, Current, NeverStranded, RenewalIsCurrent, Kept, RecordIsCurrent,
       RefreshSucceeds, FinishRefresh, NoOauth
  <2> QED  BY <2>1, <2>2
<1>8. CASE RefreshFails
  <2>1. SendCount' /\ WaitersHaveARefresh'
    BY <1>8, FinishRefreshKeeps DEF IInv, TypeOK, RefreshFails
  <2>2. Current'
    BY <1>8 DEF IInv, Current, NeverStranded, RenewalIsCurrent, Kept, RecordIsCurrent,
       RefreshFails, FinishRefresh, NoOauth
  <2> QED  BY <2>1, <2>2
<1>9. CASE RefreshRefused
  <2>1. SendCount' /\ WaitersHaveARefresh'
    BY <1>9, FinishRefreshKeeps DEF IInv, TypeOK, RefreshRefused
  <2>2. Current'
    BY <1>9 DEF IInv, Current, NeverStranded, RenewalIsCurrent, Kept, RecordIsCurrent,
       RefreshRefused, FinishRefresh, NoOauth
  <2> QED  BY <2>1, <2>2
<1>10. CASE Quit \/ SignOut
  <2>1. SendCount' /\ WaitersHaveARefresh'
    BY <1>10, CancelledKeeps DEF Quit, SignOut
  <2>2. Current'
    <3>1. ~stranded' => ~stranded /\ oauth.state # "renewed"
      BY <1>10 DEF Quit, SignOut, Cancelled
    <3>2. oauth' = NoOauth /\ UNCHANGED <<creds, serverTok>>
      BY <1>10 DEF Quit, SignOut, Cancelled
    <3> QED  BY <3>1, <3>2 DEF IInv, Current, NeverStranded, RenewalIsCurrent, Kept,
              RecordIsCurrent, NoOauth
  <2> QED  BY <2>1, <2>2
<1>11. CASE Launch
  BY <1>11 DEF IInv, SendCount, WaitersHaveARefresh, Current, NeverStranded,
     RenewalIsCurrent, Kept, RecordIsCurrent, Launch
<1>12. ASSUME NEW c \in Call, SlackJudges(c)
       PROVE  SendCount' /\ WaitersHaveARefresh' /\ Current'
  BY <1>12, <1>b DEF IInv, TypeOK, CallRecord, SendCount, WaitersHaveARefresh, SlackJudges,
     Verdicts
<1>13. CASE SlackRenews \/ SlackRefuses
  <2>1. SendCount' /\ WaitersHaveARefresh'
    BY <1>13 DEF IInv, SendCount, WaitersHaveARefresh, TypeOK, Oauth, SlackRenews, SlackRefuses
  <2>2. CASE SlackRefuses
    BY <2>1, <2>2 DEF IInv, Current, NeverStranded, RenewalIsCurrent, RecordIsCurrent, SlackRefuses,
       TypeOK, Oauth
  <2>3. CASE SlackRenews
    <3>1. oauth'.state = "renewed" /\ UNCHANGED <<creds, stranded>>
      BY <2>3 DEF SlackRenews
    <3>2. ~stranded => refreshTok = serverTok
      BY <2>3 DEF IInv, NeverStranded, SlackRenews
    <3>3. ~stranded => Kept' = serverTok'
      <4>1. oauth'.refresh = serverTok' \/ (oauth'.refresh = EmptyToken /\ serverTok' = serverTok)
        BY <2>3 DEF SlackRenews
      <4>2. serverTok' # EmptyToken
        <5>1. serverTok' = serverTok \/ serverTok' = issued + 1
          BY <2>3 DEF SlackRenews
        <5>2. serverTok \in Token /\ issued \in Token /\ issued < MaxToken
          BY <2>3 DEF IInv, TypeOK, SlackRenews
        <5> QED  BY <5>1, <5>2, BoundAssumption DEF Token, EmptyToken
      <4> QED  BY <3>1, <3>2, <4>1, <4>2 DEF Kept
    <3> QED  BY <2>1, <3>1, <3>3 DEF IInv, Current, NeverStranded, RenewalIsCurrent, RecordIsCurrent
  <2> QED  BY <1>13, <2>1, <2>2, <2>3
<1>14. CASE OtherDeviceRefreshes
  BY <1>14 DEF IInv, SendCount, WaitersHaveARefresh, Current, NeverStranded,
     RenewalIsCurrent, Kept, RecordIsCurrent, OtherDeviceRefreshes
<1>15. CASE Revoke \/ \E t \in Token : Expires(t)
  BY <1>15 DEF IInv, SendCount, WaitersHaveARefresh, Current, NeverStranded,
     RenewalIsCurrent, Kept, RecordIsCurrent, Expires, Revoke
<1>16. CASE UNCHANGED vars
  BY <1>16, <1>b DEF IInv, SendCount, WaitersHaveARefresh, vars
<1> QED  BY <1>1, <1>2, <1>3, <1>4, <1>5, <1>6, <1>7, <1>8, <1>9, <1>10, <1>11, <1>12,
           <1>13, <1>14, <1>15, <1>16 DEF Next, Deliver, OauthEnds

\* The inductive invariant holds in every reachable state.
THEOREM Invariant == Spec => []IInv
<1>1. Init => IInv
  BY TypeInit DEF Init, IInv, SendCount, WaitersHaveARefresh, NeverStranded,
     RenewalIsCurrent, Kept, RecordIsCurrent, Idle, NoOauth
<1> QED  BY <1>1, InvariantStep, PTL DEF Spec

\* No call goes out more than twice, however many refreshes interleave.
THEOREM AtMostTwoSendsHolds == Spec => []AtMostTwoSends
<1>1. IInv => AtMostTwoSends
  <2> SUFFICES ASSUME IInv, NEW c \in Call PROVE sends[c] <= 2
    BY DEF AtMostTwoSends
  <2>1. sends[c] \in Nat
    BY DEF IInv, TypeOK
  <2>2. sends[c] + (IF call[c].state = "waiting" THEN 1 ELSE 0) <=
          (IF call[c].refreshed THEN 2 ELSE 1)
    BY DEF IInv, SendCount
  <2> QED  BY <2>1, <2>2
<1> QED  BY <1>1, Invariant, PTL

\* The device never strands itself with a spent refresh token.
THEOREM NeverStrandedHolds == Spec => []NeverStranded
BY Invariant, PTL DEF IInv

\* A waiting call always has a refresh out to wait for.
THEOREM WaitersHaveARefreshHolds == Spec => []WaitersHaveARefresh
BY Invariant, PTL DEF IInv

-----------------------------------------------------------------------------
(* What goes out, and what a refresh spends. *)

\* A renewed token sends the waiters, and nothing else sends during a refresh.
LEMMA NothingOutStep ==
  ASSUME IInv, [Next]_vars, NEW c \in Call, sends'[c] > sends[c] PROVE ~refreshing'
<1>n. sends \in [Call -> Nat] /\ sends[c] \in Nat
  BY DEF IInv, TypeOK
<1>0. sends' # sends
  BY <1>n
<1>1. ASSUME NEW d \in Call, Api(d) PROVE ~refreshing'
  <2>1. refreshing' = refreshing
    BY <1>1 DEF Api
  <2>2. ~MustWait
    <3> SUFFICES ASSUME MustWait PROVE FALSE
      OBVIOUS
    <3>1. sends' = [sends EXCEPT ![d] = 0]
      BY <1>1 DEF Api
    <3> QED  BY <1>n, <3>1
  <2> QED  BY <2>1, <2>2 DEF MustWait
<1>2. ASSUME NEW d \in Call, RejectedResend(d) PROVE ~refreshing'
  <2>1. refreshing' = refreshing
    BY <1>2 DEF RejectedResend
  <2>2. ~MustWait
    <3> SUFFICES ASSUME MustWait PROVE FALSE
      OBVIOUS
    <3>1. sends' = [sends EXCEPT ![d] = @]
      BY <1>2 DEF RejectedResend, Send
    <3> QED  BY <1>n, <3>1
  <2> QED  BY <2>1, <2>2 DEF MustWait
<1>3. CASE OauthEnds
  BY <1>3 DEF OauthEnds, RefreshSucceeds, RefreshFails, RefreshRefused, FinishRefresh
<1>4. CASE Quit \/ SignOut
  BY <1>4 DEF Quit, SignOut, Cancelled
<1>5. CASE sends' = sends
  BY <1>0, <1>5
<1> QED
  <2>1. ASSUME NEW d \in Call, Deliver(d) \/ SlackJudges(d) \/ CallFails(d)
        PROVE  sends' = sends \/ RejectedResend(d)
    BY <2>1 DEF Deliver, Answered, RejectedRefresh, RejectedForGood, SlackJudges, CallFails
  <2>2. CASE MaybeProactiveRefresh \/ Launch \/ SlackRenews \/ SlackRefuses \/ OtherDeviceRefreshes
    BY <1>5, <2>2
    DEF MaybeProactiveRefresh, Launch, SlackRenews, SlackRefuses, OtherDeviceRefreshes, client
  <2>3. CASE Revoke \/ \E t \in Token : Expires(t)
    BY <1>5, <2>3 DEF Expires, Revoke, client
  <2>4. CASE UNCHANGED vars
    BY <1>5, <2>4 DEF vars, client
  <2> QED  BY <1>1, <1>2, <1>3, <1>4, <1>5, <2>1, <2>2, <2>3, <2>4 DEF Next

\* While a refresh is out, no call goes out, new or re-sent.
THEOREM NothingOutWhileRefreshingHolds == Spec => NothingOutWhileRefreshing
<1>1. IInv /\ [Next]_vars => [\A c \in Call : sends'[c] > sends[c] => ~refreshing']_vars
  BY NothingOutStep
<1> QED  BY <1>1, Invariant, PTL DEF Spec, NothingOutWhileRefreshing

\* Slack refuses a refresh of this device's only if a renewed answer was lost on the
\* way, another device spent the token or the keys were withdrawn: never for two
\* refreshes of its own.
RefusedOnlyWhenStranded ==
  /\ oauth.state = "out" => oauth.refresh = refreshTok
  /\ oauth.state = "refused" => stranded \/ revoked

LEMMA RefusedStep ==
  ASSUME IInv, RefusedOnlyWhenStranded, [Next]_vars PROVE RefusedOnlyWhenStranded'
<1> USE DEF creds, slack
<1>k. ASSUME UNCHANGED <<oauth, refreshTok>>, stranded => stranded', revoked => revoked'
      PROVE  RefusedOnlyWhenStranded'
  BY <1>k DEF RefusedOnlyWhenStranded
<1>f. ASSUME oauth' = NoOauth PROVE RefusedOnlyWhenStranded'
  BY <1>f DEF RefusedOnlyWhenStranded, NoOauth
<1>s. ASSUME StartRefresh, UNCHANGED <<refreshTok, stranded, revoked>> PROVE RefusedOnlyWhenStranded'
  <2>1. CASE refreshing
    BY <1>k, <1>s, <2>1 DEF StartRefresh
  <2>2. CASE ~refreshing
    BY <1>s, <2>2 DEF StartRefresh, RefusedOnlyWhenStranded
  <2> QED  BY <2>1, <2>2
<1>1. ASSUME NEW c \in Call, Api(c) \/ Deliver(c) \/ SlackJudges(c) \/ CallFails(c)
      PROVE  RefusedOnlyWhenStranded'
  <2>1. CASE RejectedRefresh(c)
    BY <1>s, <2>1 DEF RejectedRefresh
  <2>2. CASE Api(c) \/ SlackJudges(c) \/ CallFails(c)
    BY <1>k, <2>2 DEF Api, SlackJudges, CallFails
  <2>3. CASE Answered(c) \/ RejectedResend(c) \/ RejectedForGood(c)
    BY <1>k, <2>3 DEF Answered, RejectedResend, RejectedForGood
  <2> QED  BY <1>1, <2>1, <2>2, <2>3 DEF Deliver
<1>2. CASE MaybeProactiveRefresh
  BY <1>2, <1>s DEF MaybeProactiveRefresh
<1>3. CASE OauthEnds
  BY <1>3, <1>f DEF OauthEnds, RefreshSucceeds, RefreshFails, RefreshRefused, FinishRefresh
<1>4. CASE Quit \/ SignOut
  BY <1>4, <1>f DEF Quit, SignOut, Cancelled
<1>5. CASE Launch
  <2>1. refreshTok' = refreshTok
    BY <1>5 DEF Launch, IInv, RecordIsCurrent
  <2> QED  BY <1>5, <1>k, <2>1 DEF Launch, client
<1>6. CASE SlackRenews
  BY <1>6 DEF SlackRenews, RefusedOnlyWhenStranded
<1>7. CASE SlackRefuses
  <2>1. /\ oauth.state = "out" /\ (refreshTok # serverTok \/ revoked)
        /\ UNCHANGED <<stranded, revoked>> /\ oauth'.state = "refused"
    BY <1>7 DEF SlackRefuses, RefusedOnlyWhenStranded, IInv, TypeOK, Oauth
  <2>2. stranded \/ revoked
    BY <2>1 DEF IInv, NeverStranded
  <2> QED  BY <2>1, <2>2 DEF RefusedOnlyWhenStranded
<1>8. CASE OtherDeviceRefreshes \/ UNCHANGED vars \/ Revoke \/ \E t \in Token : Expires(t)
  BY <1>8, <1>k DEF OtherDeviceRefreshes, vars, Expires, Revoke, client
<1> QED  BY <1>1, <1>2, <1>3, <1>4, <1>5, <1>6, <1>7, <1>8 DEF Next

\* Two refreshes of one device never meet: its single-use token is refused only for a
\* reason outside it.
THEOREM RefusedOnlyWhenStrandedHolds == Spec => []RefusedOnlyWhenStranded
<1>1. Init => RefusedOnlyWhenStranded
  BY DEF Init, NoOauth, RefusedOnlyWhenStranded
<1>2. IInv /\ RefusedOnlyWhenStranded /\ [Next]_vars => RefusedOnlyWhenStranded'
  BY RefusedStep
<1> QED  BY <1>1, <1>2, Invariant, PTL DEF Spec
=============================================================================
