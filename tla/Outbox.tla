-------------------------------- MODULE Outbox --------------------------------
(***************************************************************************)
(* The sends of one conversation, from begin() to the answer of their Done   *)
(* (SlackBackend::Write, src/src/app/slack/slack_actions.cpp). Slack has no  *)
(* idempotency key: a post whose answer is lost is looked for in history,    *)
(* by its text and from an anchor taken at begin(), before it is posted      *)
(* again. Files go up first and are shared by one call that is never         *)
(* repeated; the shared message is then looked for the same way.             *)
(*                                                                           *)
(* Slack and the app have a clock each. A moment at Slack is a tick; the     *)
(* app's clock runs Skew ahead. A call given up on has either been done by   *)
(* then or never will be.                                                    *)
(***************************************************************************)
EXTENDS Naturals, FiniteSets

CONSTANTS
  Sends,
  Text,      \* Sends -> the text given to chat.postMessage
  Skew,
  Margin,    \* the 60 s the fallback anchor of a fresh conversation steps back
  Crowded,   \* more than a scan's limit of 100 may lie past its anchor
  Scans,     \* kUploadScans
  MaxLost    \* bound: answers lost (a transport error or a 429)

ASSUME OutboxAssumption ==
  /\ IsFiniteSet(Sends) /\ DOMAIN Text = Sends
  /\ Skew \in Nat /\ Margin \in Nat /\ Crowded \in BOOLEAN
  /\ Scans \in Nat /\ MaxLost \in Nat

InFlight == {"posting", "posted", "backoff", "scanning",
             "reading", "uploading", "sharing", "shared", "looking", "lookLater"}
Ended == {"confirmed", "takenBack", "failed"}

VARIABLES
  \* Slack.
  clock,
  posts,     \* ts -> the send it is of, deleted ones included
  deleted,   \* of those
  \* The Store's conversation.
  latest,    \* its newest ts, 0 in a fresh one
  shown,     \* of each send: its pending copy, the server's message, or nothing
  \* SlackBackend::Write.
  phase,     \* "new" before begin(); a Send is in `sends` while InFlight
  oldest,    \* the anchor of its scan
  undone, marked,
  scans,     \* attempts, of an upload's scan
  server,    \* the ts of the message that settled it, 0 = none
  answered,  \* its Done
  deleting,  \* its chat.delete
  lost

vars == <<clock, posts, deleted, latest, shown, phase, oldest, undone, marked, scans, server,
          answered, deleting, lost>>
slack == <<clock, posts, deleted>>

Goes(s, p) == phase' = [phase EXCEPT ![s] = p]
OneOf(a, b) == IF a > b THEN a ELSE b
Of(s) == {ts \in DOMAIN posts : posts[ts] = s}

-----------------------------------------------------------------------------
(* How a send ends. *)

\* finish: the first answer stands.
Finish(s, how) ==
  answered' = IF answered[s] = "no" THEN [answered EXCEPT ![s] = how] ELSE answered

\* The server's copy replaces the pending one; taken back meanwhile, it is
\* deleted instead.
ServerCopyGoes_Forgotten(s) == deleting
ServerCopyGoes(s) == [deleting EXCEPT ![s] = "out"]

Confirm(s, ts) ==
  /\ server' = [server EXCEPT ![s] = ts]
  /\ IF undone[s]
     THEN /\ Goes(s, "takenBack")
          /\ deleting' = ServerCopyGoes(s)
          /\ Finish(s, "failed")
          /\ UNCHANGED <<shown, latest>>
     ELSE /\ Goes(s, "confirmed")
          /\ shown' = [shown EXCEPT ![s] = "server"]
          /\ latest' = OneOf(latest, ts)
          /\ Finish(s, "ok")
          /\ UNCHANGED deleting

GhostGone_Kept(s) == shown
GhostGone(s) == [shown EXCEPT ![s] = "none"]

FailSend(s) ==
  /\ Goes(s, "failed")
  /\ shown' = GhostGone(s)
  /\ Finish(s, "failed")
  /\ UNCHANGED <<slack, latest, oldest, undone, marked, scans, server, deleting, lost>>

-----------------------------------------------------------------------------
(* Slack. *)

\* The post or the share takes place; its answer is on its way.
Land(s) ==
  /\ phase[s] \in {"posting", "sharing"}
  /\ clock' = clock + 1
  /\ posts' = [ts \in DOMAIN posts \union {clock'} |-> IF ts = clock' THEN s ELSE posts[ts]]
  /\ Goes(s, IF phase[s] = "posting" THEN "posted" ELSE "shared")
  /\ UNCHANGED <<deleted, latest, shown, oldest, undone, marked, scans, server, answered,
                 deleting, lost>>

\* A message arrives (inject), somebody else's of this moment as well.
Hear ==
  /\ latest < clock
  /\ latest' = clock
  /\ UNCHANGED <<slack, shown, phase, oldest, undone, marked, scans, server, answered, deleting,
                 lost>>

\* chat.delete goes as a read does: repeated some times, then given up, done
\* or not. Slack's refusal puts a message of the Store's back.
DeleteDone(s) ==
  /\ deleting[s] = "out"
  /\ deleting' = [deleting EXCEPT ![s] = "done"]
  /\ deleted' = deleted \union {server[s]}
  /\ UNCHANGED <<clock, posts, latest, shown, phase, oldest, undone, marked, scans, server,
                 answered, lost>>

DeleteRefused(s) ==
  /\ deleting[s] = "out"
  /\ deleting' = [deleting EXCEPT ![s] = "refused"]
  /\ shown' = IF phase[s] = "confirmed" THEN [shown EXCEPT ![s] = "server"] ELSE shown
  /\ UNCHANGED <<slack, latest, phase, oldest, undone, marked, scans, server, answered, lost>>

DeleteGivenUp(s) ==
  /\ deleting[s] = "out"
  /\ deleting' = [deleting EXCEPT ![s] = "unknown"]
  /\ deleted' \in {deleted, deleted \union {server[s]}}
  /\ UNCHANGED <<clock, posts, latest, shown, phase, oldest, undone, marked, scans, server,
                 answered, lost>>

-----------------------------------------------------------------------------
(* The user. *)

\* The newest ts the Store knows; with none, the app's clock less the margin.
Anchor(now) ==
  IF latest # 0 THEN latest ELSE IF now + Skew > Margin THEN now + Skew - Margin ELSE 0

\* begin: the anchor is taken, and the pending copy's own ts (the app's clock)
\* is the newest from then on.
Begin(s, files, agent) ==
  /\ phase[s] = "new"
  /\ clock' = clock + 1
  /\ oldest' = [oldest EXCEPT ![s] = Anchor(clock')]
  /\ latest' = OneOf(latest, clock' + Skew)
  /\ shown' = [shown EXCEPT ![s] = "pending"]
  /\ marked' = IF agent /\ ~files THEN marked \union {s} ELSE marked
  /\ Goes(s, IF files THEN "reading" ELSE "posting")
  /\ UNCHANGED <<posts, deleted, undone, scans, server, answered, deleting, lost>>

\* remove() of the copy in flight (undo send), or of the server's message.
Remove(s) ==
  /\ \/ /\ phase[s] \in InFlight /\ ~undone[s]
        /\ undone' = [undone EXCEPT ![s] = TRUE]
        /\ UNCHANGED deleting
     \/ /\ phase[s] = "confirmed" /\ shown[s] = "server"
        /\ deleting' = [deleting EXCEPT ![s] = "out"]
        /\ UNCHANGED undone
  /\ shown' = GhostGone(s)
  /\ UNCHANGED <<slack, latest, phase, oldest, marked, scans, server, answered, lost>>

-----------------------------------------------------------------------------
(* A text. *)

PostAnswered(s) ==
  /\ phase[s] = "posted"
  /\ \E ts \in Of(s) : (\A k \in Of(s) : k <= ts) /\ Confirm(s, ts)
  /\ UNCHANGED <<slack, oldest, undone, marked, scans, lost>>

\* The token may not mark agent posts: nothing was posted, again without.
MetadataRefused(s) ==
  /\ phase[s] = "posting" /\ s \in marked
  /\ marked' = marked \ {s}
  /\ UNCHANGED <<slack, latest, shown, phase, oldest, undone, scans, server, answered, deleting,
                 lost>>

\* Slack's own verdict, on the post or on the scan.
Refused(s) == phase[s] \in {"posting", "scanning"} /\ FailSend(s)

\* The answer of the post (landed or not) or of the scan is lost.
Ambiguous == {"posting", "posted", "scanning"}
Lose(s) ==
  /\ phase[s] \in Ambiguous /\ lost < MaxLost
  /\ lost' = lost + 1
  /\ Goes(s, "backoff")
  /\ UNCHANGED <<slack, latest, shown, oldest, undone, marked, scans, server, answered, deleting>>

AfterBackoff_Blind == "posting"
AfterBackoff == "scanning"
BackoffOver(s) ==
  /\ phase[s] = "backoff"
  /\ Goes(s, AfterBackoff)
  /\ UNCHANGED <<slack, latest, shown, oldest, undone, marked, scans, server, answered, deleting,
                 lost>>

\* The one page a scan reads of what came after the anchor: all of it, or what
\* the limit leaves of it.
Since(s) == {ts \in DOMAIN posts \ deleted : ts > oldest[s]}
Pages(s) == IF Crowded THEN SUBSET Since(s) ELSE {Since(s)}

\* My own messages with this text.
Found(page, s) == {ts \in page : Text[posts[ts]] = Text[s]}

\* Delivered after all: confirmed by it; absent: posted again.
Reconcile(s) ==
  /\ phase[s] = "scanning"
  /\ \E page \in Pages(s) :
       \/ \E ts \in Found(page, s) : Confirm(s, ts)
       \/ /\ Found(page, s) = {}
          /\ Goes(s, "posting")
          /\ UNCHANGED <<latest, shown, server, answered, deleting>>
  /\ UNCHANGED <<slack, oldest, undone, marked, scans, lost>>

-----------------------------------------------------------------------------
(* Files. *)

\* The worker is done with them: taken back, nothing readable, or up they go.
FilesRead(s) ==
  /\ phase[s] = "reading"
  /\ \/ /\ undone[s]
        /\ Goes(s, "takenBack") /\ Finish(s, "failed")
        /\ UNCHANGED <<slack, latest, shown, oldest, undone, marked, scans, server, deleting,
                       lost>>
     \/ ~undone[s] /\ FailSend(s)
     \/ /\ ~undone[s] /\ Goes(s, "uploading")
        /\ UNCHANGED <<slack, latest, shown, oldest, undone, marked, scans, server, answered,
                       deleting, lost>>

\* The last of them is up or has failed; with none up, so has the send.
Uploaded(s) ==
  /\ phase[s] = "uploading"
  /\ \/ FailSend(s)
     \/ /\ Goes(s, "sharing")
        /\ UNCHANGED <<slack, latest, shown, oldest, undone, marked, scans, server, answered,
                       deleting, lost>>

\* A retransmit would share them twice: any error ends it.
ShareFails(s) == phase[s] \in {"sharing", "shared"} /\ FailSend(s)

\* The answer names no ts: an agent's Done waits for the scan (awaitShare).
ShareAnswered(s, awaitShare) ==
  /\ phase[s] = "shared"
  /\ Goes(s, "looking")
  /\ IF awaitShare THEN UNCHANGED answered ELSE Finish(s, "ok")
  /\ UNCHANGED <<slack, latest, shown, oldest, undone, marked, scans, server, deleting, lost>>

Attempts_Uncounted(n) == n
Attempts(n) == n + 1

\* scanUpload, by the file ids: a share lags history, and a failed scan says
\* as much as an empty one.
ScanUpload(s) ==
  /\ phase[s] = "looking"
  /\ \/ /\ \E ts \in Of(s) : Confirm(s, ts)
        /\ UNCHANGED <<slack, oldest, undone, marked, scans, lost>>
     \/ /\ scans[s] < Scans
        /\ scans' = [scans EXCEPT ![s] = Attempts(@)]
        /\ Goes(s, "lookLater")
        /\ UNCHANGED <<slack, latest, shown, oldest, undone, marked, server, answered, deleting,
                       lost>>
     \/ scans[s] >= Scans /\ FailSend(s)

LookAgain(s) ==
  /\ phase[s] = "lookLater"
  /\ Goes(s, "looking")
  /\ UNCHANGED <<slack, latest, shown, oldest, undone, marked, scans, server, answered, deleting,
                 lost>>

-----------------------------------------------------------------------------
\* A fresh conversation, or one whose last message the Store knows.
Init ==
  /\ clock = 1 /\ posts = [ts \in {} |-> 0] /\ deleted = {} /\ latest \in {0, 1} /\ lost = 0
  /\ shown = [s \in Sends |-> "none"] /\ phase = [s \in Sends |-> "new"]
  /\ oldest = [s \in Sends |-> 0] /\ undone = [s \in Sends |-> FALSE] /\ marked = {}
  /\ scans = [s \in Sends |-> 0] /\ server = [s \in Sends |-> 0]
  /\ answered = [s \in Sends |-> "no"] /\ deleting = [s \in Sends |-> "no"]

\* What becomes of a send, whatever the user does.
Advance(s) ==
  \/ Land(s) \/ PostAnswered(s) \/ MetadataRefused(s) \/ Refused(s) \/ Lose(s)
  \/ BackoffOver(s) \/ Reconcile(s)
  \/ FilesRead(s) \/ Uploaded(s) \/ ShareFails(s)
  \/ \E awaitShare \in BOOLEAN : ShareAnswered(s, awaitShare)
  \/ ScanUpload(s) \/ LookAgain(s)

DeleteEnds(s) == DeleteDone(s) \/ DeleteRefused(s) \/ DeleteGivenUp(s)

Next ==
  \/ Hear
  \/ \E s \in Sends : \/ \E files, agent \in BOOLEAN : Begin(s, files, agent)
                      \/ Remove(s) \/ Advance(s) \/ DeleteEnds(s)

\* Every call is answered in the end, with an error if need be, and a
\* backoff's timer fires.
Spec ==
  /\ Init /\ [][Next]_vars
  /\ \A s \in Sends : WF_vars(Advance(s)) /\ WF_vars(DeleteEnds(s))

-----------------------------------------------------------------------------
(* Properties. *)

\* Every variable has its type: Slack's moments are behind its clock, the
\* app's at most Skew ahead of it.
TypeOK ==
  /\ clock \in Nat /\ latest \in 0..clock + Skew /\ lost \in 0..MaxLost
  /\ DOMAIN posts \subseteq 1..clock /\ posts \in [DOMAIN posts -> Sends]
  /\ deleted \subseteq DOMAIN posts
  /\ shown \in [Sends -> {"pending", "server", "none"}]
  /\ phase \in [Sends -> {"new"} \union InFlight \union Ended]
  /\ oldest \in [Sends -> 0..clock + Skew]
  /\ undone \in [Sends -> BOOLEAN] /\ marked \subseteq Sends
  /\ scans \in [Sends -> 0..Scans] /\ server \in [Sends -> {0} \union DOMAIN posts]
  /\ answered \in [Sends -> {"no", "ok", "failed"}]
  /\ deleting \in [Sends -> {"no", "out", "done", "refused", "unknown"}]

\* A send is posted at most once, whatever answers are lost and whatever else
\* the conversation brings while its scan waits (slack_actions.cpp:8-9: "a
\* blind retransmit would duplicate the message"). It holds for an app clock
\* that isn't ahead of Slack's and a conversation no scan's page cuts short.
NeverTwice == \A s \in Sends : Cardinality(Of(s)) <= 1

\* No ghosts: a pending copy is on screen exactly as long as its send is in
\* flight and not taken back (slack_actions.cpp:496-538, 752-757).
PendingMeansInFlight ==
  \A s \in Sends : shown[s] = "pending" <=> phase[s] \in InFlight /\ ~undone[s]

\* Every send is settled in the end, its Done answered: confirmed, failed or
\* taken back, however often its answers are lost within the bound.
EverySendSettles ==
  []<>(\A s \in Sends : phase[s] = "new" \/ (phase[s] \in Ended /\ answered[s] # "no"))

Gone(s) == Of(s) \subseteq deleted

\* A text taken back while in flight ends up on nobody's screen: not posted
\* at all, or deleted again, once for good, unless Slack refuses the scan or
\* the deletion fails for good (slack_actions.cpp:503-506, 1034-1042). Files are left out:
\* a share whose answer is lost, or whose message no scan finds, stays.
UndoneIsGone ==
  \A s \in Sends :
    undone[s] /\ phase[s] \in {"posting", "posted", "backoff", "scanning"}
      ~> [](Gone(s) \/ phase[s] = "failed" \/ deleting[s] \in {"refused", "unknown"})
=============================================================================
