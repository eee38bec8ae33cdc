------------------------------ MODULE OutboxProofs ------------------------------
(***************************************************************************)
(* Outbox's invariants: the types, no ghosts, and, for a clock that isn't   *)
(* ahead of Slack's, texts that differ and scans whose page isn't cut, no   *)
(* send posted twice.                                                       *)
(***************************************************************************)
EXTENDS Outbox, FiniteSetTheorems, TLAPS

-----------------------------------------------------------------------------
(* Type correctness. *)

\* The phases, spelled out.
Phase == {"new"} \union InFlight \union Ended

\* Confirming a send with a message of Slack's keeps every type it touches.
LEMMA ConfirmType ==
  ASSUME TypeOK, NEW s \in Sends, NEW ts \in DOMAIN posts, Confirm(s, ts)
  PROVE  /\ server' \in [Sends -> {0} \union DOMAIN posts] /\ phase' \in [Sends -> Phase]
         /\ deleting' \in [Sends -> {"no", "out", "done", "refused", "unknown"}]
         /\ shown' \in [Sends -> {"pending", "server", "none"}]
         /\ latest' \in 0..clock + Skew
         /\ answered' \in [Sends -> {"no", "ok", "failed"}]
  BY OutboxAssumption
  DEF TypeOK, Confirm, Goes, Finish, ServerCopyGoes, OneOf, Phase, Ended

\* So does failing it.
LEMMA FailType ==
  ASSUME TypeOK, NEW s \in Sends, FailSend(s)
  PROVE  TypeOK'
  BY DEF TypeOK, FailSend, Goes, GhostGone, Finish, Ended, slack

\* A scan's page is of the messages past its anchor, none of them deleted.
LEMMA PageIsRead ==
  ASSUME NEW s \in Sends, NEW page \in Pages(s)
  PROVE  page \subseteq Since(s) /\ page \subseteq DOMAIN posts \ deleted
  BY DEF Pages, Since

\* A message is deleted, or a send confirmed, by the ts that settled the send.
Named == \A s \in Sends : server[s] = 0 => deleting[s] = "no" /\ phase[s] # "confirmed"

\* Every step keeps every variable in its type.
LEMMA TypeStep == TypeOK /\ Named /\ [Next]_vars => TypeOK'
<1> SUFFICES ASSUME TypeOK, Named, [Next]_vars PROVE TypeOK'
  OBVIOUS
<1> USE OutboxAssumption DEF slack, Goes
<1>1. ASSUME Hear PROVE TypeOK'
  BY <1>1 DEF TypeOK, Hear
<1>2. ASSUME NEW s \in Sends, NEW files \in BOOLEAN, NEW agent \in BOOLEAN, Begin(s, files, agent)
      PROVE  TypeOK'
  <2>1. clock' \in Nat /\ clock' = clock + 1 /\ DOMAIN posts \subseteq 1..clock'
    BY <1>2 DEF TypeOK, Begin
  <2>a. Anchor(clock') \in 0..clock' + Skew
    BY <2>1 DEF TypeOK, Anchor
  <2>2. latest' \in 0..clock' + Skew /\ oldest' \in [Sends -> 0..clock' + Skew]
    BY <1>2, <2>1, <2>a DEF TypeOK, Begin, OneOf
  <2>3. phase' \in [Sends -> Phase]
    BY <1>2 DEF TypeOK, Begin, Phase, InFlight
  <2>4. marked' \subseteq Sends /\ shown' \in [Sends -> {"pending", "server", "none"}]
    BY <1>2 DEF TypeOK, Begin
  <2> QED  BY <1>2, <2>1, <2>2, <2>3, <2>4 DEF TypeOK, Begin, Phase
<1>3. ASSUME NEW s \in Sends, Remove(s) PROVE TypeOK'
  BY <1>3 DEF TypeOK, Remove, GhostGone
<1>4. ASSUME NEW s \in Sends, Land(s) PROVE TypeOK'
  <2>1. clock' = clock + 1 /\ clock' \in Nat
    BY <1>4 DEF TypeOK, Land
  <2>2. /\ DOMAIN posts' = DOMAIN posts \union {clock'}
        /\ \A ts \in DOMAIN posts' : posts'[ts] = IF ts = clock' THEN s ELSE posts[ts]
        /\ posts' = [ts \in DOMAIN posts' |-> posts'[ts]]
    BY <1>4 DEF Land
  <2>3. DOMAIN posts' \subseteq 1..clock' /\ posts' \in [DOMAIN posts' -> Sends]
    BY <2>1, <2>2 DEF TypeOK
  <2>4. phase' \in [Sends -> Phase]
    BY <1>4 DEF TypeOK, Land, Phase, InFlight
  <2>5. latest' \in 0..clock' + Skew /\ oldest' \in [Sends -> 0..clock' + Skew]
    BY <1>4, <2>1 DEF TypeOK, Land
  <2> QED  BY <1>4, <2>1, <2>2, <2>3, <2>4, <2>5 DEF TypeOK, Land, Phase
<1>5. ASSUME NEW s \in Sends, PostAnswered(s) PROVE TypeOK'
  BY <1>5, ConfirmType DEF TypeOK, PostAnswered, Of, Phase
<1>6. ASSUME NEW s \in Sends, MetadataRefused(s) PROVE TypeOK'
  BY <1>6 DEF TypeOK, MetadataRefused
<1>7. ASSUME NEW s \in Sends, Refused(s) \/ ShareFails(s) PROVE TypeOK'
  BY <1>7, FailType DEF Refused, ShareFails
<1>8. ASSUME NEW s \in Sends, Lose(s) PROVE TypeOK'
  BY <1>8 DEF TypeOK, Lose, InFlight
<1>9. ASSUME NEW s \in Sends, BackoffOver(s) PROVE TypeOK'
  BY <1>9 DEF TypeOK, BackoffOver, AfterBackoff, InFlight
<1>10. ASSUME NEW s \in Sends, Reconcile(s) PROVE TypeOK'
  <2>1. ASSUME NEW page \in Pages(s), NEW ts \in Found(page, s), Confirm(s, ts) PROVE TypeOK'
    <3>1. ts \in DOMAIN posts
      BY PageIsRead DEF Found
    <3> QED  BY <1>10, <2>1, <3>1, ConfirmType DEF TypeOK, Reconcile, Phase
  <2>2. CASE Goes(s, "posting") /\ UNCHANGED <<latest, shown, server, answered, deleting>>
    BY <1>10, <2>2 DEF TypeOK, Reconcile, InFlight
  <2> QED  BY <1>10, <2>1, <2>2 DEF Reconcile
<1>11. ASSUME NEW s \in Sends, FilesRead(s) PROVE TypeOK'
  <2>1. CASE FailSend(s)
    BY <2>1, FailType
  <2>2. CASE ~FailSend(s)
    BY <1>11, <2>2 DEF TypeOK, FilesRead, Finish, InFlight, Ended
  <2> QED  BY <2>1, <2>2
<1>12. ASSUME NEW s \in Sends, Uploaded(s) PROVE TypeOK'
  <2>1. CASE FailSend(s)
    BY <2>1, FailType
  <2>2. CASE ~FailSend(s)
    BY <1>12, <2>2 DEF TypeOK, Uploaded, InFlight
  <2> QED  BY <2>1, <2>2
<1>13. ASSUME NEW s \in Sends, NEW awaitShare \in BOOLEAN, ShareAnswered(s, awaitShare)
       PROVE  TypeOK'
  BY <1>13 DEF TypeOK, ShareAnswered, Finish, InFlight
<1>14. ASSUME NEW s \in Sends, ScanUpload(s) PROVE TypeOK'
  <2>1. CASE FailSend(s)
    BY <2>1, FailType
  <2>2. CASE \E ts \in Of(s) : Confirm(s, ts)
            /\ UNCHANGED <<slack, oldest, undone, marked, scans, lost>>
    BY <2>2, ConfirmType DEF TypeOK, Of, Phase
  <2>3. CASE /\ scans[s] < Scans
             /\ scans' = [scans EXCEPT ![s] = Attempts(@)]
             /\ phase' = [phase EXCEPT ![s] = "lookLater"]
             /\ UNCHANGED <<slack, latest, shown, oldest, undone, marked, server, answered,
                            deleting, lost>>
    <3>1. scans[s] + 1 \in 0..Scans
      BY <2>3 DEF TypeOK
    <3> QED  BY <2>3, <3>1 DEF TypeOK, Attempts, InFlight
  <2> QED  BY <1>14, <2>1, <2>2, <2>3 DEF ScanUpload
<1>15. ASSUME NEW s \in Sends, LookAgain(s) PROVE TypeOK'
  BY <1>15 DEF TypeOK, LookAgain, InFlight
<1>16. ASSUME NEW s \in Sends, DeleteRefused(s) PROVE TypeOK'
  BY <1>16 DEF TypeOK, DeleteRefused
<1>17. ASSUME NEW s \in Sends, DeleteDone(s) \/ DeleteGivenUp(s) PROVE TypeOK'
  <2>1. server[s] \in DOMAIN posts
    BY <1>17 DEF TypeOK, Named, DeleteDone, DeleteGivenUp
  <2> QED  BY <1>17, <2>1 DEF TypeOK, DeleteDone, DeleteGivenUp
<1>18. CASE UNCHANGED vars
  BY <1>18 DEF TypeOK, vars
<1> QED
  BY <1>1, <1>2, <1>3, <1>4, <1>5, <1>6, <1>7, <1>8, <1>9, <1>10, <1>11, <1>12, <1>13, <1>14,
     <1>15, <1>16, <1>17, <1>18 DEF Next, Advance, DeleteEnds

\* What settles a send names its message.
LEMMA NamedStep == TypeOK /\ Named /\ [Next]_vars => Named'
<1> SUFFICES ASSUME TypeOK, Named, [Next]_vars PROVE Named'
  OBVIOUS
<1> USE DEF slack, Goes
<1>1. ASSUME NEW s \in Sends, NEW ts \in DOMAIN posts, Confirm(s, ts) PROVE Named'
  <2>1. ts # 0 /\ server'[s] = ts
    BY <1>1 DEF TypeOK, Confirm
  <2> QED  BY <1>1, <2>1 DEF TypeOK, Named, Confirm, ServerCopyGoes
<1>2. ASSUME NEW s \in Sends, FailSend(s) PROVE Named'
  BY <1>2 DEF TypeOK, Named, FailSend
<1>3. ASSUME Hear PROVE Named'
  BY <1>3 DEF Named, Hear
<1>4. ASSUME NEW s \in Sends, NEW files \in BOOLEAN, NEW agent \in BOOLEAN, Begin(s, files, agent)
      PROVE  Named'
  BY <1>4 DEF TypeOK, Named, Begin
<1>5. ASSUME NEW s \in Sends, Remove(s) PROVE Named'
  BY <1>5 DEF TypeOK, Named, Remove
<1>6. ASSUME NEW s \in Sends, Advance(s), ~FailSend(s),
             ~(\E ts \in DOMAIN posts : Confirm(s, ts))
      PROVE  Named'
  BY <1>6 DEF TypeOK, Named, Advance, Land, PostAnswered, MetadataRefused, Refused, Lose,
              BackoffOver, AfterBackoff, Reconcile, Found, Pages, Since, Of, FilesRead, Uploaded,
              ShareFails, ShareAnswered, ScanUpload, LookAgain
<1>7. ASSUME NEW s \in Sends, DeleteEnds(s) PROVE Named'
  BY <1>7 DEF TypeOK, Named, DeleteEnds, DeleteDone, DeleteRefused, DeleteGivenUp
<1>8. CASE UNCHANGED vars
  BY <1>8 DEF Named, vars
<1> QED  BY <1>1, <1>2, <1>3, <1>4, <1>5, <1>6, <1>7, <1>8 DEF Next

\* Every variable keeps its type, through sends, answers lost, scans and deletions.
THEOREM Invariant == Spec => [](TypeOK /\ Named)
<1>1. Init => TypeOK /\ Named
  BY OutboxAssumption DEF Init, TypeOK, Named
<1>2. TypeOK /\ Named /\ [Next]_vars => (TypeOK /\ Named)'
  BY TypeStep, NamedStep
<1> QED  BY <1>1, <1>2, PTL DEF Spec

\* The types alone, for a reader.
THEOREM TypeCorrect == Spec => []TypeOK
BY Invariant, PTL

-----------------------------------------------------------------------------
(* No ghosts. *)

\* Nobody takes back a send that isn't there yet.
NewAreNotUndone == \A s \in Sends : phase[s] = "new" => ~undone[s]

\* Each way a send goes on, or ends, treats its pending copy right.
LEMMA PendingStep ==
  TypeOK /\ PendingMeansInFlight /\ NewAreNotUndone /\ [Next]_vars
    => (PendingMeansInFlight /\ NewAreNotUndone)'
<1> SUFFICES ASSUME TypeOK, PendingMeansInFlight, NewAreNotUndone, [Next]_vars
             PROVE  (PendingMeansInFlight /\ NewAreNotUndone)'
  OBVIOUS
<1> USE DEF slack, Goes, InFlight, Ended, PendingMeansInFlight, NewAreNotUndone
<1>1. ASSUME NEW s \in Sends, NEW ts \in DOMAIN posts, Confirm(s, ts),
             phase[s] # "new", UNCHANGED undone
      PROVE  (PendingMeansInFlight /\ NewAreNotUndone)'
  BY <1>1 DEF TypeOK, Confirm
<1>2. ASSUME NEW s \in Sends, FailSend(s)
      PROVE  (PendingMeansInFlight /\ NewAreNotUndone)'
  BY <1>2 DEF TypeOK, FailSend, GhostGone
<1>3. ASSUME Hear PROVE (PendingMeansInFlight /\ NewAreNotUndone)'
  BY <1>3 DEF Hear
<1>4. ASSUME NEW s \in Sends, NEW files \in BOOLEAN, NEW agent \in BOOLEAN, Begin(s, files, agent)
      PROVE  (PendingMeansInFlight /\ NewAreNotUndone)'
  BY <1>4 DEF TypeOK, Begin
<1>5. ASSUME NEW s \in Sends, Remove(s) PROVE (PendingMeansInFlight /\ NewAreNotUndone)'
  BY <1>5 DEF TypeOK, Remove, GhostGone
<1>6. ASSUME NEW s \in Sends, Advance(s), ~FailSend(s)
      PROVE  (PendingMeansInFlight /\ NewAreNotUndone)'
  <2>1. CASE Land(s)
    BY <2>1 DEF TypeOK, Land
  <2>2. CASE PostAnswered(s)
    BY <2>2, <1>1 DEF PostAnswered, Of
  <2>3. CASE Reconcile(s)
    <3>1. ASSUME NEW page \in Pages(s), NEW ts \in Found(page, s), Confirm(s, ts)
          PROVE  (PendingMeansInFlight /\ NewAreNotUndone)'
      <4>1. ts \in DOMAIN posts
        BY PageIsRead DEF Found
      <4> QED  BY <2>3, <3>1, <4>1, <1>1 DEF Reconcile
    <3>2. CASE Goes(s, "posting") /\ UNCHANGED shown
      BY <2>3, <3>2 DEF TypeOK, Reconcile
    <3> QED  BY <2>3, <3>1, <3>2 DEF Reconcile
  <2>4. CASE ScanUpload(s)
    <3>1. CASE \E ts \in Of(s) : Confirm(s, ts)
      <4>1. UNCHANGED undone
        BY <2>4, <1>6 DEF ScanUpload
      <4> QED  BY <2>4, <3>1, <4>1, <1>1 DEF ScanUpload, Of
    <3>2. CASE Goes(s, "lookLater") /\ UNCHANGED <<shown, undone>>
      BY <2>4, <3>2 DEF TypeOK, ScanUpload
    <3> QED  BY <1>6, <2>4, <3>1, <3>2 DEF ScanUpload
  <2>5. CASE FilesRead(s) \/ Uploaded(s)
    BY <1>6, <2>5 DEF TypeOK, FilesRead, Uploaded
  <2>6. CASE MetadataRefused(s) \/ Lose(s) \/ BackoffOver(s) \/ LookAgain(s)
    BY <2>6 DEF TypeOK, MetadataRefused, Lose, Ambiguous, BackoffOver, AfterBackoff, LookAgain
  <2>7. CASE \E awaitShare \in BOOLEAN : ShareAnswered(s, awaitShare)
    BY <2>7 DEF TypeOK, ShareAnswered
  <2> QED
    BY <1>6, <2>1, <2>2, <2>3, <2>4, <2>5, <2>6, <2>7 DEF Advance, Refused, ShareFails
<1>7. ASSUME NEW s \in Sends, DeleteEnds(s) PROVE (PendingMeansInFlight /\ NewAreNotUndone)'
  BY <1>7 DEF TypeOK, DeleteEnds, DeleteDone, DeleteRefused, DeleteGivenUp
<1>8. CASE UNCHANGED vars
  BY <1>8 DEF vars
<1> QED  BY <1>2, <1>3, <1>4, <1>5, <1>6, <1>7, <1>8 DEF Next

\* A pending copy is on screen exactly while its send is in flight and wanted.
THEOREM PendingMeansInFlightHolds == Spec => []PendingMeansInFlight
<1>1. Init => PendingMeansInFlight /\ NewAreNotUndone
  BY DEF Init, PendingMeansInFlight, NewAreNotUndone, InFlight
<1>2. TypeOK /\ PendingMeansInFlight /\ NewAreNotUndone /\ [Next]_vars
        => (PendingMeansInFlight /\ NewAreNotUndone)'
  BY PendingStep
<1> QED  BY <1>1, <1>2, Invariant, PTL DEF Spec

-----------------------------------------------------------------------------
(* No send is posted twice: the scan sees what its own post left, since its *)
(* anchor is older and its page isn't cut, and no other send's scan settles *)
(* on it or has it deleted.                                                 *)

\* The app's clock isn't ahead of Slack's, each send says something else, and a
\* scan's page holds all that came after its anchor.
ClockAgrees == Skew = 0
PageReaches == ~Crowded
TextsDiffer == \A s, t \in Sends : Text[s] = Text[t] => s = t

Unposted == {"new", "posting", "reading", "uploading", "sharing"}

\* A message is of the one send that is settled by it, newer than its anchor,
\* and deleted only once it settled it; what is about to be posted wasn't yet.
Once ==
  /\ \A s \in Sends : phase[s] \in Unposted => Of(s) = {}
  /\ \A s \in Sends : \A a, b \in Of(s) : a = b
  /\ \A s \in Sends : \A ts \in Of(s) : oldest[s] < ts
  /\ \A s \in Sends : server[s] # 0 => server[s] \in Of(s) /\ phase[s] \in Ended
  /\ \A ts \in deleted : server[posts[ts]] = ts

\* Steps that change neither history nor the anchors nor what settled a send
\* only have to keep the posted apart from those not posted yet.
LEMMA OnceKept ==
  ASSUME TypeOK, Once, UNCHANGED <<posts, deleted, oldest, server>>,
         \A s \in Sends : phase'[s] \in Unposted => phase[s] \in Unposted,
         \A s \in Sends : phase[s] \in Ended => phase'[s] \in Ended
  PROVE  Once'
  BY DEF TypeOK, Once, Of

\* A send settled by its own message.
LEMMA OnceConfirmed ==
  ASSUME TypeOK, Once, NEW s \in Sends, NEW ts \in Of(s), Confirm(s, ts), phase[s] \notin Ended,
         UNCHANGED <<posts, deleted, oldest>>
  PROVE  Once'
<1>1. phase' = [phase EXCEPT ![s] = phase'[s]] /\ phase'[s] \in Ended
  BY DEF TypeOK, Confirm, Goes, Ended
<1>2. server' = [server EXCEPT ![s] = ts] /\ server[s] = 0
  BY DEF TypeOK, Once, Confirm
<1>3. \A d \in deleted : posts[d] # s
  BY <1>2 DEF TypeOK, Once
<1> QED  BY <1>1, <1>2, <1>3 DEF TypeOK, Once, Of, Unposted, Ended

\* What a scan finds is its own send's.
LEMMA FoundIsOwn ==
  ASSUME TypeOK, TextsDiffer, NEW s \in Sends, NEW page \in Pages(s)
  PROVE  Found(page, s) \subseteq Of(s)
<1> SUFFICES ASSUME NEW ts \in Found(page, s) PROVE ts \in Of(s)
  OBVIOUS
<1>1. ts \in DOMAIN posts /\ Text[posts[ts]] = Text[s]
  BY PageIsRead DEF Found
<1> QED  BY <1>1 DEF TypeOK, TextsDiffer, Of

\* A page that isn't cut holds whatever was posted of it.
LEMMA FoundIsAll ==
  ASSUME TypeOK, Once, PageReaches, NEW s \in Sends, phase[s] \notin Ended, NEW page \in Pages(s)
  PROVE  Of(s) \subseteq Found(page, s)
<1> SUFFICES ASSUME NEW ts \in Of(s) PROVE ts \in Found(page, s)
  OBVIOUS
<1>1. page = Since(s)
  BY DEF Pages, PageReaches
<1> QED  BY <1>1 DEF TypeOK, Once, Found, Since, Of

\* Every step keeps it.
LEMMA OnceStep ==
  ASSUME TypeOK, Named, Once, [Next]_vars, ClockAgrees, TextsDiffer, PageReaches
  PROVE  Once'
<1> USE DEF slack, Goes
<1>1. ASSUME NEW s \in Sends, FailSend(s) PROVE Once'
  BY <1>1, OnceKept DEF TypeOK, FailSend, Unposted, Ended
<1>2. ASSUME Hear PROVE Once'
  BY <1>2, OnceKept DEF Hear
<1>3. ASSUME NEW s \in Sends, NEW files \in BOOLEAN, NEW agent \in BOOLEAN, Begin(s, files, agent)
      PROVE  Once'
  <2>1. Of(s) = {} /\ server[s] = 0
    BY <1>3 DEF TypeOK, Once, Begin, Unposted, Ended
  <2> QED  BY <1>3, <2>1 DEF TypeOK, Once, Begin, Of, Unposted, Ended
<1>4. ASSUME NEW s \in Sends, Remove(s) PROVE Once'
  BY <1>4, OnceKept DEF Remove
<1>5. ASSUME NEW s \in Sends, Land(s) PROVE Once'
  <2>1. Of(s) = {} /\ server[s] = 0
    BY <1>5 DEF TypeOK, Once, Land, Unposted, Ended
  <2>2. clock' = clock + 1 /\ clock' \notin DOMAIN posts /\ oldest[s] < clock'
    BY <1>5 DEF TypeOK, Land, ClockAgrees
  <2>3. /\ DOMAIN posts' = DOMAIN posts \union {clock'}
        /\ \A ts \in DOMAIN posts' : posts'[ts] = IF ts = clock' THEN s ELSE posts[ts]
    BY <1>5 DEF Land
  <2>4. Of(s)' = {clock'}
    BY <2>1, <2>2, <2>3 DEF Of
  <2>5. \A t \in Sends : t # s => Of(t)' = Of(t)
    BY <2>2, <2>3 DEF Of
  <2>6. phase' = [phase EXCEPT ![s] = phase'[s]] /\ phase'[s] \in {"posted", "shared"}
    BY <1>5 DEF TypeOK, Land
  <2>7. UNCHANGED <<deleted, oldest, server>>
    BY <1>5 DEF Land
  <2>8. \A ts \in deleted : posts'[ts] = posts[ts]
    BY <2>2, <2>3 DEF TypeOK
  <2>a. \A t \in Sends : phase'[t] \in Unposted => Of(t)' = {}
    BY <2>5, <2>6 DEF TypeOK, Once, Unposted
  <2>b. \A t \in Sends : \A a, b \in Of(t)' : a = b
    BY <2>4, <2>5 DEF Once
  <2>c. \A t \in Sends : \A ts \in Of(t)' : oldest'[t] < ts
    BY <2>2, <2>4, <2>5, <2>7 DEF Once
  <2>d. \A t \in Sends : server'[t] # 0 => server'[t] \in Of(t)' /\ phase'[t] \in Ended
    BY <2>1, <2>5, <2>6, <2>7 DEF TypeOK, Once
  <2>e. \A ts \in deleted' : server'[posts'[ts]] = ts
    BY <2>7, <2>8 DEF Once
  <2> QED  BY <2>a, <2>b, <2>c, <2>d, <2>e DEF Once
<1>6. ASSUME NEW s \in Sends, PostAnswered(s) PROVE Once'
  BY <1>6, OnceConfirmed DEF PostAnswered, Ended
<1>7. ASSUME NEW s \in Sends, Reconcile(s) PROVE Once'
  <2>1. phase[s] \notin Ended /\ UNCHANGED <<posts, deleted, oldest>>
    BY <1>7 DEF Reconcile, Ended
  <2>2. ASSUME NEW page \in Pages(s), NEW ts \in Found(page, s), Confirm(s, ts) PROVE Once'
    BY <2>1, <2>2, FoundIsOwn, OnceConfirmed
  <2>3. ASSUME NEW page \in Pages(s), Found(page, s) = {}, Goes(s, "posting"), UNCHANGED server
        PROVE  Once'
    <3>1. Of(s) = {}
      BY <2>1, <2>3, FoundIsAll
    <3> QED  BY <2>1, <2>3, <3>1 DEF TypeOK, Once, Of, Ended
  <2> QED  BY <1>7, <2>2, <2>3 DEF Reconcile
<1>8. ASSUME NEW s \in Sends, ScanUpload(s), ~FailSend(s) PROVE Once'
  <2>1. CASE \E ts \in Of(s) : Confirm(s, ts)
             /\ UNCHANGED <<slack, oldest, undone, marked, scans, lost>>
    BY <1>8, <2>1, OnceConfirmed DEF ScanUpload, Ended
  <2>2. CASE Goes(s, "lookLater") /\ UNCHANGED <<slack, oldest, server>>
    BY <1>8, <2>2, OnceKept DEF TypeOK, ScanUpload, Unposted, Ended
  <2> QED  BY <1>8, <2>1, <2>2 DEF ScanUpload
<1>9. ASSUME NEW s \in Sends, FilesRead(s) \/ Uploaded(s), ~FailSend(s) PROVE Once'
  BY <1>9, OnceKept DEF TypeOK, FilesRead, Uploaded, Unposted, Ended
<1>10. ASSUME NEW s \in Sends,
              MetadataRefused(s) \/ Lose(s) \/ BackoffOver(s) \/ LookAgain(s)
       PROVE  Once'
  BY <1>10, OnceKept
  DEF TypeOK, MetadataRefused, Lose, Ambiguous, BackoffOver, AfterBackoff, LookAgain, Unposted,
      Ended
<1>11. ASSUME NEW s \in Sends, NEW awaitShare \in BOOLEAN, ShareAnswered(s, awaitShare)
       PROVE  Once'
  BY <1>11, OnceKept DEF TypeOK, ShareAnswered, Unposted, Ended
<1>12. ASSUME NEW s \in Sends, DeleteEnds(s) PROVE Once'
  <2>1. deleting[s] = "out" /\ server[s] # 0 /\ server[s] \in Of(s)
    BY <1>12 DEF Named, Once, DeleteEnds, DeleteDone, DeleteRefused, DeleteGivenUp
  <2>2. \A ts \in deleted' : server[posts[ts]] = ts
    BY <1>12, <2>1 DEF Once, Of, DeleteEnds, DeleteDone, DeleteRefused, DeleteGivenUp
  <2>3. UNCHANGED <<posts, phase, oldest, server>>
    BY <1>12 DEF DeleteEnds, DeleteDone, DeleteRefused, DeleteGivenUp
  <2> QED  BY <2>2, <2>3 DEF Once, Of
<1>13. CASE UNCHANGED vars
  BY <1>13, OnceKept DEF vars
<1> QED
  BY <1>1, <1>2, <1>3, <1>4, <1>5, <1>6, <1>7, <1>8, <1>9, <1>10, <1>11, <1>12, <1>13
  DEF Next, Advance, Refused, ShareFails

\* However answers are lost, a send is posted at most once: for any number of
\* sends and losses, when the app's clock isn't ahead, the texts differ and the
\* scan's page of 100 isn't cut.
THEOREM NeverTwiceHolds ==
  ASSUME ClockAgrees, TextsDiffer, PageReaches PROVE Spec => []NeverTwice
<1>1. Init => Once
  BY DEF Init, Once, Of
<1>2. TypeOK /\ Named /\ Once /\ [Next]_vars => Once'
  BY OnceStep
<1>3. Once => NeverTwice
  <2> SUFFICES ASSUME Once, NEW s \in Sends PROVE Cardinality(Of(s)) <= 1
    BY DEF NeverTwice
  <2>1. CASE Of(s) = {}
    BY <2>1, FS_EmptySet
  <2>2. ASSUME NEW ts \in Of(s) PROVE Cardinality(Of(s)) = 1
    <3>1. Of(s) = {ts}
      BY DEF Once
    <3> QED  BY <3>1, FS_Singleton
  <2> QED  BY <2>1, <2>2
<1> QED  BY <1>1, <1>2, <1>3, Invariant, PTL DEF Spec

-----------------------------------------------------------------------------
(* What the callers are told, and what the user sees, against what Slack has. *)

\* A Done is answered when its send ends, with the truth: "ok" of a message that was
\* posted, "failed" of a send that failed or was taken back (slack_actions.cpp:496-538).
DoneIsTrue ==
  \A s \in Sends :
    /\ phase[s] \in Ended => answered[s] # "no"
    /\ phase[s] = "confirmed" => answered[s] = "ok"
    /\ answered[s] = "failed" => phase[s] \in {"failed", "takenBack"}
    /\ answered[s] = "ok" => Of(s) # {}

\* An answer that tells of a post follows it.
Told == \A s \in Sends : phase[s] \in {"posted", "shared", "looking", "lookLater"} => Of(s) # {}

\* Only a send in flight goes on.
LEMMA AdvanceInFlight ==
  ASSUME NEW s \in Sends, Advance(s)
  PROVE  phase[s] \in InFlight
  BY DEF Advance, Land, PostAnswered, MetadataRefused, Refused, Lose, Ambiguous, BackoffOver,
         Reconcile, FilesRead, Uploaded, ShareFails, ShareAnswered, ScanUpload, LookAgain, InFlight

\* A post adds to its own send's messages alone.
LEMMA LandPosts ==
  ASSUME TypeOK, NEW s \in Sends, Land(s)
  PROVE  /\ Of(s)' = Of(s) \union {clock + 1}
         /\ \A t \in Sends : t # s => Of(t)' = Of(t)
<1>1. clock' = clock + 1 /\ clock' \notin DOMAIN posts
  BY DEF TypeOK, Land
<1>2. /\ DOMAIN posts' = DOMAIN posts \union {clock'}
      /\ \A ts \in DOMAIN posts' : posts'[ts] = IF ts = clock' THEN s ELSE posts[ts]
  BY DEF Land
<1> QED  BY <1>1, <1>2 DEF Of

\* Each answer, scan and failure tells the truth, if a scan finds its own send's messages
\* only.
LEMMA DoneStep ==
  ASSUME TypeOK, DoneIsTrue, Told, TextsDiffer, [Next]_vars
  PROVE  (DoneIsTrue /\ Told)'
<1> USE DEF slack, Goes, DoneIsTrue, Told
<1>1. ASSUME NEW s \in Sends, NEW ts \in Of(s), Confirm(s, ts), phase[s] \in InFlight,
             UNCHANGED posts
      PROVE  (DoneIsTrue /\ Told)'
  BY <1>1 DEF TypeOK, Confirm, Finish, Of, InFlight, Ended
<1>2. ASSUME NEW s \in Sends, FailSend(s), phase[s] \in InFlight PROVE (DoneIsTrue /\ Told)'
  BY <1>2 DEF TypeOK, FailSend, Finish, Of, InFlight, Ended
<1>3. ASSUME NEW s \in Sends, UNCHANGED <<posts, answered>>,
             phase' = phase \/ \E p : phase' = [phase EXCEPT ![s] = p] /\ p \notin Ended,
             phase[s] \in Ended => phase' = phase,
             Of(s) # {} \/ phase' = phase
               \/ phase'[s] \notin {"posted", "shared", "looking", "lookLater"}
      PROVE  (DoneIsTrue /\ Told)'
  BY <1>3 DEF TypeOK, Of, Ended
<1>4. ASSUME Hear PROVE (DoneIsTrue /\ Told)'
  BY <1>4 DEF Hear, Of
<1>5. ASSUME NEW s \in Sends, NEW files \in BOOLEAN, NEW agent \in BOOLEAN, Begin(s, files, agent)
      PROVE  (DoneIsTrue /\ Told)'
  BY <1>5 DEF TypeOK, Begin, Of, Ended
<1>6. ASSUME NEW s \in Sends, Remove(s) PROVE (DoneIsTrue /\ Told)'
  BY <1>6 DEF Remove, Of
<1>7. ASSUME NEW s \in Sends, Land(s) PROVE (DoneIsTrue /\ Told)'
  <2>1. \A t \in Sends : Of(t) \subseteq Of(t)'
    BY <1>7, LandPosts
  <2>2. Of(s)' # {}
    BY <1>7, LandPosts
  <2> QED  BY <1>7, <2>1, <2>2 DEF TypeOK, Land, Ended
<1>8. ASSUME NEW s \in Sends, PostAnswered(s) PROVE (DoneIsTrue /\ Told)'
  BY <1>8, <1>1 DEF PostAnswered, InFlight
<1>9. ASSUME NEW s \in Sends, Reconcile(s) PROVE (DoneIsTrue /\ Told)'
  <2>1. ASSUME NEW page \in Pages(s), NEW ts \in Found(page, s), Confirm(s, ts)
        PROVE  (DoneIsTrue /\ Told)'
    <3>1. ts \in Of(s)
      BY FoundIsOwn
    <3> QED  BY <1>9, <2>1, <3>1, <1>1 DEF Reconcile, InFlight
  <2>2. CASE Goes(s, "posting") /\ UNCHANGED answered
    BY <1>9, <2>2 DEF TypeOK, Reconcile, Of, Ended
  <2> QED  BY <1>9, <2>1, <2>2 DEF Reconcile
<1>10. ASSUME NEW s \in Sends, ScanUpload(s), ~FailSend(s) PROVE (DoneIsTrue /\ Told)'
  <2>1. CASE \E ts \in Of(s) : Confirm(s, ts) /\ UNCHANGED slack
    BY <1>10, <2>1, <1>1 DEF ScanUpload, InFlight
  <2>2. CASE Goes(s, "lookLater") /\ UNCHANGED <<slack, answered>>
    BY <1>10, <2>2, <1>3 DEF ScanUpload, Ended
  <2> QED  BY <1>10, <2>1, <2>2 DEF ScanUpload
<1>11. ASSUME NEW s \in Sends, FilesRead(s) \/ Uploaded(s), ~FailSend(s)
       PROVE  (DoneIsTrue /\ Told)'
  <2>1. CASE Goes(s, "takenBack") /\ Finish(s, "failed") /\ UNCHANGED slack
    BY <1>11, <2>1 DEF TypeOK, FilesRead, Uploaded, Finish, Of, Ended
  <2>2. CASE (Goes(s, "uploading") \/ Goes(s, "sharing")) /\ UNCHANGED <<slack, answered>>
    BY <1>11, <2>2, <1>3 DEF TypeOK, FilesRead, Uploaded, Ended
  <2> QED  BY <1>11, <2>1, <2>2 DEF FilesRead, Uploaded
<1>12. ASSUME NEW s \in Sends, MetadataRefused(s) \/ Lose(s) \/ BackoffOver(s) \/ LookAgain(s)
       PROVE  (DoneIsTrue /\ Told)'
  BY <1>12, <1>3
  DEF TypeOK, MetadataRefused, Lose, Ambiguous, BackoffOver, AfterBackoff, LookAgain, Ended
<1>13. ASSUME NEW s \in Sends, NEW awaitShare \in BOOLEAN, ShareAnswered(s, awaitShare)
       PROVE  (DoneIsTrue /\ Told)'
  BY <1>13 DEF TypeOK, ShareAnswered, Finish, Of, Ended
<1>14. ASSUME NEW s \in Sends, DeleteEnds(s) PROVE (DoneIsTrue /\ Told)'
  BY <1>14 DEF DeleteEnds, DeleteDone, DeleteRefused, DeleteGivenUp, Of
<1>15. CASE UNCHANGED vars
  BY <1>15 DEF vars, Of
<1> QED
  BY <1>2, <1>4, <1>5, <1>6, <1>7, <1>8, <1>9, <1>10, <1>11, <1>12, <1>13, <1>14, <1>15,
     AdvanceInFlight
  DEF Next, Advance, Refused, ShareFails

\* Whoever sent is told, once the send ends, what became of it, if the texts differ: with
\* equal ones a scan may take the other's message for its own.
THEOREM DoneIsTrueHolds ==
  ASSUME TextsDiffer PROVE Spec => []DoneIsTrue
<1>1. Init => DoneIsTrue /\ Told
  BY DEF Init, DoneIsTrue, Told, Ended
<1>2. TypeOK /\ DoneIsTrue /\ Told /\ [Next]_vars => (DoneIsTrue /\ Told)'
  BY DoneStep
<1> QED  BY <1>1, <1>2, Invariant, PTL DEF Spec

\* The Store shows the server's message only while Slack has it; what it no longer shows of
\* a send confirmed or taken back is gone from Slack too, or its deletion is out, or Slack
\* refused that or didn't say (slack_actions.cpp:503-506, 1034-1042).
ScreenAgrees ==
  \A s \in Sends :
    /\ shown[s] = "server" => Of(s) # {} /\ Of(s) \intersect deleted = {}
    /\ phase[s] \in {"confirmed", "takenBack"} /\ shown[s] = "none" =>
         \/ Gone(s)
         \/ deleting[s] \in {"out", "unknown"}
         \/ phase[s] = "takenBack" /\ deleting[s] = "refused"

\* How far a deletion is tells what is shown and what is deleted.
Deletions ==
  \A s \in Sends :
    /\ shown[s] = "server" => phase[s] = "confirmed" /\ deleting[s] \in {"no", "refused"}
    /\ server[s] \in deleted => deleting[s] \in {"done", "unknown"}
    /\ deleting[s] = "done" => server[s] \in deleted
    /\ phase[s] = "confirmed" /\ shown[s] = "none" => deleting[s] \in {"out", "done", "unknown"}
    /\ phase[s] = "takenBack" => Of(s) = {} \/ deleting[s] # "no"

\* What is in flight has no deletion, and nothing of it is deleted.
LEMMA NotDeletedYet ==
  ASSUME TypeOK, Named, Once, NEW s \in Sends, phase[s] \notin Ended
  PROVE  server[s] = 0 /\ deleting[s] = "no" /\ Of(s) \intersect deleted = {}
  BY DEF TypeOK, Named, Once, Of

\* Each step keeps the deletions and the screen in step.
LEMMA DeletionsStep ==
  ASSUME TypeOK, Named, Once, TextsDiffer, Deletions, [Next]_vars
  PROVE  Deletions'
<1> USE DEF slack, Goes, Deletions
<1>1. ASSUME NEW s \in Sends, NEW ts \in Of(s), Confirm(s, ts), phase[s] \notin Ended,
             UNCHANGED <<posts, deleted>>
      PROVE  Deletions'
  <2>1. ts \notin deleted /\ deleting[s] = "no"
    BY <1>1, NotDeletedYet
  <2>2. CASE undone[s]
    BY <1>1, <2>1, <2>2 DEF TypeOK, Confirm, ServerCopyGoes, Of, Ended
  <2>3. CASE ~undone[s]
    BY <1>1, <2>1, <2>3 DEF TypeOK, Confirm, Of, Ended
  <2> QED  BY <2>2, <2>3
<1>2. ASSUME NEW s \in Sends, FailSend(s), phase[s] \in InFlight PROVE Deletions'
  BY <1>2 DEF TypeOK, FailSend, GhostGone, Of, Ended, InFlight
<1>3. ASSUME Hear PROVE Deletions'
  BY <1>3 DEF Hear, Of
<1>4. ASSUME NEW s \in Sends, NEW files \in BOOLEAN, NEW agent \in BOOLEAN, Begin(s, files, agent)
      PROVE  Deletions'
  BY <1>4 DEF TypeOK, Begin, Of, Ended
<1>5. ASSUME NEW s \in Sends, Remove(s) PROVE Deletions'
  <2>1. CASE phase[s] \in InFlight
    BY <1>5, <2>1 DEF TypeOK, Remove, GhostGone, Of, InFlight
  <2>2. CASE phase[s] = "confirmed" /\ deleting' = [deleting EXCEPT ![s] = "out"]
             /\ shown[s] = "server"
    BY <1>5, <2>2 DEF TypeOK, Remove, GhostGone, Of
  <2> QED  BY <1>5, <2>1, <2>2 DEF Remove
<1>6. ASSUME NEW s \in Sends, Land(s) PROVE Deletions'
  <2>1. \A t \in Sends : t # s => Of(t)' = Of(t)
    BY <1>6, LandPosts
  <2> QED  BY <1>6, <2>1 DEF TypeOK, Land, Ended
<1>7. ASSUME NEW s \in Sends, PostAnswered(s) PROVE Deletions'
  BY <1>7, <1>1 DEF PostAnswered, Ended
<1>8. ASSUME NEW s \in Sends, Reconcile(s) PROVE Deletions'
  <2>1. phase[s] \notin Ended
    BY <1>8 DEF Reconcile, Ended
  <2>2. ASSUME NEW page \in Pages(s), NEW ts \in Found(page, s), Confirm(s, ts) PROVE Deletions'
    <3>1. ts \in Of(s)
      BY FoundIsOwn
    <3> QED  BY <1>8, <2>1, <2>2, <3>1, <1>1 DEF Reconcile
  <2>3. CASE Goes(s, "posting") /\ UNCHANGED <<shown, deleting, server>>
    BY <1>8, <2>1, <2>3 DEF TypeOK, Reconcile, Of, Ended
  <2> QED  BY <1>8, <2>2, <2>3 DEF Reconcile
<1>9. ASSUME NEW s \in Sends, ScanUpload(s), ~FailSend(s) PROVE Deletions'
  <2>1. CASE \E ts \in Of(s) : Confirm(s, ts) /\ UNCHANGED slack
    BY <1>9, <2>1, <1>1 DEF ScanUpload, Ended
  <2>2. CASE Goes(s, "lookLater") /\ UNCHANGED <<slack, shown, server, deleting>>
    BY <1>9, <2>2 DEF TypeOK, ScanUpload, Of, Ended
  <2> QED  BY <1>9, <2>1, <2>2 DEF ScanUpload
<1>10. ASSUME NEW s \in Sends, FilesRead(s) \/ Uploaded(s), ~FailSend(s) PROVE Deletions'
  <2>1. phase[s] \in {"reading", "uploading"} /\ Of(s) = {}
    BY <1>10 DEF Once, Unposted, FilesRead, Uploaded
  <2> QED  BY <1>10, <2>1 DEF TypeOK, FilesRead, Uploaded, Of, Ended
<1>11. ASSUME NEW s \in Sends,
              MetadataRefused(s) \/ Lose(s) \/ BackoffOver(s) \/ LookAgain(s)
       PROVE  Deletions'
  BY <1>11
  DEF TypeOK, MetadataRefused, Lose, Ambiguous, BackoffOver, AfterBackoff, LookAgain, Of, Ended
<1>12. ASSUME NEW s \in Sends, NEW awaitShare \in BOOLEAN, ShareAnswered(s, awaitShare)
       PROVE  Deletions'
  BY <1>12 DEF TypeOK, ShareAnswered, Of, Ended
<1>13. ASSUME NEW s \in Sends, DeleteEnds(s) PROVE Deletions'
  <2>1. deleting[s] = "out" /\ server[s] # 0 /\ server[s] \in Of(s)
    BY <1>13 DEF Named, Once, DeleteEnds, DeleteDone, DeleteRefused, DeleteGivenUp
  <2>2. \A t \in Sends : t # s => server[t] # server[s]
    BY <2>1 DEF Once, Of
  <2>3. deleted \subseteq deleted' /\ deleted' \subseteq deleted \union {server[s]}
    BY <1>13 DEF DeleteEnds, DeleteDone, DeleteRefused, DeleteGivenUp
  <2>4. CASE DeleteDone(s) \/ DeleteGivenUp(s)
    BY <2>1, <2>2, <2>3, <2>4 DEF TypeOK, DeleteDone, DeleteGivenUp, Of
  <2>5. CASE DeleteRefused(s)
    BY <2>1, <2>5 DEF TypeOK, DeleteRefused, Of
  <2> QED  BY <1>13, <2>4, <2>5 DEF DeleteEnds
<1>14. CASE UNCHANGED vars
  BY <1>14 DEF vars, Of
<1> QED
  BY <1>2, <1>3, <1>4, <1>5, <1>6, <1>7, <1>8, <1>9, <1>10, <1>11, <1>12, <1>13, <1>14,
     AdvanceInFlight
  DEF Next, Advance, Refused, ShareFails

\* For any number of sends and losses, with a clock not ahead, texts that differ and no
\* page cut, the screen and Slack agree: a message taken back, before or after it was confirmed, doesn't
\* stay behind unless Slack refused its deletion or never said.
THEOREM ScreenAgreesHolds ==
  ASSUME ClockAgrees, TextsDiffer, PageReaches PROVE Spec => []ScreenAgrees
<1>1. Init => Once /\ Deletions
  BY DEF Init, Once, Deletions, Of, Ended
<1>2. TypeOK /\ Named /\ Once /\ Deletions /\ [Next]_vars => (Once /\ Deletions)'
  BY OnceStep, DeletionsStep
<1>3. TypeOK /\ Named /\ Once /\ Deletions => ScreenAgrees
  <2> SUFFICES ASSUME TypeOK, Named, Once, Deletions, NEW s \in Sends
               PROVE  /\ shown[s] = "server" => Of(s) # {} /\ Of(s) \intersect deleted = {}
                      /\ phase[s] \in {"confirmed", "takenBack"} /\ shown[s] = "none" =>
                           \/ Gone(s) \/ deleting[s] \in {"out", "unknown"}
                           \/ phase[s] = "takenBack" /\ deleting[s] = "refused"
    BY DEF ScreenAgrees
  <2>1. server[s] # 0 => Of(s) = {server[s]}
    BY DEF Once
  <2>2. phase[s] = "confirmed" \/ deleting[s] # "no" => server[s] # 0
    BY DEF Named
  <2>3. deleting[s] \in {"no", "out", "done", "refused", "unknown"}
    BY DEF TypeOK
  <2> QED  BY <2>1, <2>2, <2>3 DEF Deletions, Gone
<1> QED  BY <1>1, <1>2, <1>3, Invariant, PTL DEF Spec
=============================================================================
