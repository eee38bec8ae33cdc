------------------------------ MODULE SocketMode ------------------------------
(***************************************************************************)
(* slack::SocketMode (src/src/app/slack/socket_mode.{h,cpp}): the one       *)
(* app-level WebSocket every workspace of an app shares, and the recovery   *)
(* machinery around it.                                                     *)
(*                                                                          *)
(* The object runs on the UI thread: each of its handlers is one action.    *)
(* What runs beside it is modelled as its own steps: the reader thread of   *)
(* each net::WebSocket, which posts Opened / Text / Closed to the UI loop's *)
(* queue (loop), the HTTP answer of apps.connections.open, timers, and   *)
(* Slack itself (external: it counts connections, routes each event to one  *)
(* of those it counts, and never replays one).                              *)
(*                                                                          *)
(* Times are abstracted to what the handlers compare them with: a           *)
(* connection is durable or not, a close is inside the contention window or *)
(* not, and Elapse moves each of them.                                      *)
(***************************************************************************)
EXTENDS Naturals, Sequences, FiniteSets

CONSTANTS
  Socket,              \* net::WebSocket objects; one is reused once it is gone
  Request,             \* apps.connections.open calls in flight
  NoSocket, NoRequest, \* a null _ws / _pending, and _openReq = 0
  BackoffMin,          \* Timing::backoffMs
  BackoffMax,          \* Timing::backoffMaxMs
  ContentionThreshold, \* kContentionThreshold
  MaxLoop,             \* bound: messages waiting in the loop when Slack sends one
  MaxKicks,            \* bound: reconnectNow, networkChanged and suspend gaps
  MaxForeign,          \* bound: other devices' connections on the same app keys
  Spans,               \* bound: the spans of time that pass in one step
  Envelopes            \* bound: the disconnect envelopes Slack sends

ASSUME SocketAssumption ==
  /\ NoSocket \notin Socket /\ IsFiniteSet(Socket)
  /\ NoRequest \notin Request
ASSUME BoundsAssumption ==
  /\ BackoffMin \in Nat \ {0} /\ BackoffMax \in Nat /\ BackoffMin <= BackoffMax
  /\ ContentionThreshold \in Nat \ {0}
  /\ Spans \subseteq {"grace", "window", "notice"}
  /\ Envelopes \subseteq {"warning", "disconnect"}
  /\ MaxLoop \in Nat /\ MaxKicks \in Nat /\ MaxForeign \in Nat

VARIABLES
  started, stopped, \* _started, _stopped
  connecting,       \* _connecting, the single-flight guard
  openReq,          \* _openReq
  requests,         \* open calls net::Client still answers (not cancelled)
  ws, pending,      \* _ws (an open socket) and _pending (one not open yet)
  timer,            \* _reconnectTimer is armed
  backoff,          \* _reconnectMs
  hadHello,         \* _hadHello
  durable,          \* _ws is older than Timing::stableMs (_connectedSince)
  closeAsked,       \* _serverRequestedClose
  bareCloses,       \* _bareCloses still inside the window, up to the threshold
  noticed,          \* _lastNotice is less than kNoticeGapMs old
  otherConns,       \* _otherConnections
  grace,            \* _overlapPromoted is less than kOverlapGraceMs old
  banner,           \* a sink was told of contention (the parallel-usage banner)
  conn,             \* each socket's transport, as its reader thread sees it
  loop,             \* what the reader threads posted, in the UI loop's order
  served,           \* our connections Slack counts and routes events to
  missed,           \* an event was missed since the last hello that told the sinks
  kicks             \* how often reconnectNow, networkChanged, a suspend came

flight   == <<connecting, openReq, requests>>
contend  == <<bareCloses, noticed, otherConns, banner>>
link     == <<conn, loop>>
vars     == <<started, stopped, flight, ws, pending, timer, backoff, hadHello, durable,
              closeAsked, contend, grace, link, served, missed, kicks>>

-----------------------------------------------------------------------------
(* Messages of a socket's reader thread. n is the close code of "closed"     *)
(* (0: it never opened) and num_connections of "hello".                      *)

MsgType == {"opened", "hello", "event", "warning", "disconnect", "closed"}
Message == [socket : Socket, type : MsgType, n : Nat]
Msg(s, type, n) == [socket |-> s, type |-> type, n |-> n]

NeverOpened == 0
NormalClose == 1000
AbnormalClose == 1006

\* free: no such object; retired: unhooked, destroyed on a later loop turn;
\* closing: our close frame is out; dead: the peer is gone but nothing said so;
\* closed: its reader thread ended.
ConnState == {"free", "connecting", "open", "closing", "dead", "closed", "retired"}

Held == {ws, pending} \ {NoSocket}
connected == ws # NoSocket
Waiting(s, type) == \E i \in 1..Len(loop) : loop[i].socket = s /\ loop[i].type = type

Smaller(a, b) == IF a < b THEN a ELSE b
Minus(a, b) == IF a > b THEN a - b ELSE 0

\* retireSocket: callbacks unhooked, so nothing its reader posted is heard.
Retired(S) == [s \in Socket |-> IF s \in S THEN "retired" ELSE conn[s]]
\* What the sinks miss counts from the first hello on: before it they load all.
DroppedBy(S) == missed \/ (hadHello /\ \E s \in S : Waiting(s, "event"))

-----------------------------------------------------------------------------
(* The building blocks of the handlers.                                      *)

\* openAndConnect(): one cycle at a time. busy and live are _connecting and
\* the calls in flight as the caller left them.
MayOpen_NoSingleFlight(busy) == ~stopped
MayOpen(busy) == ~stopped /\ ~busy
OpenAndConnect(busy, live) ==
  IF MayOpen(busy)
  THEN /\ connecting' = TRUE
       /\ \E r \in Request \ live : openReq' = r /\ requests' = live \union {r}
  ELSE /\ connecting' = busy
       /\ requests' = live
       /\ openReq' = IF openReq \in live THEN openReq ELSE NoRequest

\* scheduleReconnect(): one pending at a time, and the next wait is longer.
\* base is _reconnectMs as the caller left it.
Longer(wait) == Smaller(wait * 2, BackoffMax)
ScheduleReconnect(base) ==
  /\ timer' = TRUE
  /\ backoff' = IF timer THEN base ELSE Longer(base)

\* teardown(): the call in flight is cancelled, both sockets go.
CancelOpen_Forgotten == requests
CancelOpen == requests \ {openReq}
Cleared_FlagKept == connecting
Cleared == FALSE \* _connecting after a teardown
Teardown ==
  /\ ws' = NoSocket /\ pending' = NoSocket /\ durable' = FALSE
  /\ conn' = Retired(Held) /\ UNCHANGED loop
  /\ missed' = DroppedBy(Held)

\* forceReconnect(), for a socket that is not stopped.
ForceReconnect ==
  /\ Teardown
  /\ timer' = FALSE
  /\ backoff' = BackoffMin
  /\ OpenAndConnect(Cleared, CancelOpen)

\* maybeNotifyContention(): one notice per window; the sinks hear it only
\* while a hello counted others. others is _otherConnections by now.
NotifyContention(others) ==
  /\ noticed' = TRUE
  /\ banner' = (banner \/ (~noticed /\ others > 0))

-----------------------------------------------------------------------------
Init ==
  /\ started = FALSE /\ stopped = FALSE
  /\ connecting = FALSE /\ openReq = NoRequest /\ requests = {}
  /\ ws = NoSocket /\ pending = NoSocket
  /\ timer = FALSE /\ backoff = BackoffMin
  /\ hadHello = FALSE /\ durable = FALSE /\ closeAsked = FALSE
  /\ bareCloses = 0 /\ noticed = FALSE /\ otherConns = 0 /\ grace = FALSE
  /\ banner = FALSE
  /\ conn = [s \in Socket |-> "free"] /\ loop = <<>>
  /\ served = {}
  /\ missed = FALSE /\ kicks = 0

(* Calls from the backends, the accounts controller and the OS. *)

Start ==
  /\ ~started
  /\ started' = TRUE
  /\ OpenAndConnect(connecting, requests)
  /\ UNCHANGED <<stopped, ws, pending, timer, backoff, hadHello, durable, closeAsked,
                 contend, grace, link, served, missed, kicks>>

Stop ==
  /\ ~stopped
  /\ stopped' = TRUE
  /\ Teardown
  /\ connecting' = Cleared /\ openReq' = NoRequest /\ requests' = CancelOpen
  /\ timer' = FALSE
  /\ UNCHANGED <<started, backoff, hadHello, closeAsked, contend, grace, served, kicks>>

\* The poll tick's health check: a socket that is down with nothing in flight.
EnsureConnected ==
  /\ started /\ ~stopped /\ ~connecting /\ ~connected
  /\ timer' = FALSE
  /\ OpenAndConnect(connecting, requests)
  /\ UNCHANGED <<started, stopped, ws, pending, backoff, hadHello, durable, closeAsked,
                 contend, grace, link, served, missed, kicks>>

Kick ==
  /\ started /\ ~stopped
  /\ kicks < MaxKicks
  /\ kicks' = kicks + 1
  /\ UNCHANGED <<started, stopped, hadHello, closeAsked, contend, grace, served>>

\* A poll found what the socket should have pushed.
ReconnectNow ==
  /\ Kick
  /\ IF connected
     THEN /\ backoff' = BackoffMin
          /\ OpenAndConnect(connecting, requests)
          /\ UNCHANGED <<ws, pending, timer, durable, link, missed>>
     ELSE ForceReconnect

\* networkChanged(true) while down; on a live socket it only pings.
NetworkBack ==
  /\ Kick
  /\ ~connected
  /\ ForceReconnect

\* A watchdog tick that finds a suspend gap on a live socket. (A tick with no
\* gap only pings; one without a live socket does nothing.)
WakeFromSuspend ==
  /\ Kick
  /\ connected
  /\ ForceReconnect

-----------------------------------------------------------------------------
(* Timers and answers. *)

ReconnectTimerFires ==
  /\ timer
  /\ timer' = FALSE
  /\ OpenAndConnect(connecting, requests)
  /\ UNCHANGED <<started, stopped, ws, pending, backoff, hadHello, durable, closeAsked,
                 contend, grace, link, served, missed, kicks>>

Answered(r) ==
  /\ r \in requests
  /\ requests' = requests \ {r}
  /\ openReq' = NoRequest
  /\ UNCHANGED <<started, stopped, ws, hadHello, durable, closeAsked, contend, grace,
                 served, kicks>>

\* apps.connections.open failed, or named no URL.
OpenFails(r) ==
  /\ Answered(r)
  /\ connecting' = FALSE
  /\ IF stopped THEN UNCHANGED <<timer, backoff>> ELSE ScheduleReconnect(backoff)
  /\ UNCHANGED <<pending, link, missed>>

\* connectWs(): into _pending; _ws, if any, is read until the new one opens.
OpenSucceeds(r) ==
  /\ Answered(r)
  /\ ~stopped
  /\ \E s \in Socket \ served :
       /\ conn[s] = "free"
       /\ pending' = s
       /\ conn' = [Retired({pending}) EXCEPT ![s] = "connecting"]
  /\ missed' = DroppedBy({pending})
  /\ UNCHANGED <<connecting, timer, backoff, loop>>

\* Time passes: 5 s (the overlap grace), a minute (the contention window, a
\* durable connection) or 5 minutes (the notice gap).
Elapse(span) ==
  /\ grace' = FALSE
  /\ bareCloses' \in (IF span = "grace" THEN 0..bareCloses ELSE {0})
  /\ durable' = (durable \/ (span # "grace" /\ connected))
  /\ noticed' = (noticed /\ span # "notice")
  /\ UNCHANGED <<started, stopped, flight, ws, pending, timer, backoff, hadHello,
                 closeAsked, otherConns, banner, link, served, missed, kicks>>

-----------------------------------------------------------------------------
(* The sockets' callbacks, in the order their readers posted them. *)

Take(s, type) ==
  /\ s \in Held
  /\ loop # <<>> /\ Head(loop).socket = s /\ Head(loop).type = type
  /\ loop' = Tail(loop)

\* A retired socket's message finds no callback.
Unheard ==
  /\ loop # <<>> /\ Head(loop).socket \notin Held
  /\ loop' = Tail(loop)
  /\ UNCHANGED <<started, stopped, flight, ws, pending, timer, backoff, hadHello, durable,
                 closeAsked, contend, grace, conn, served, missed, kicks>>

Replaced_LeftOpen == {}
Replaced == {ws}

\* onOpen: promote; an old socket still live (an overlap) goes only now.
OnOpen(s) ==
  /\ Take(s, "opened")
  /\ s = pending
  /\ ws' = s /\ pending' = NoSocket
  /\ conn' = Retired(Replaced)
  /\ missed' = DroppedBy(Replaced)
  /\ grace' = (connected \/ grace)
  /\ connecting' = FALSE
  /\ durable' = FALSE
  /\ UNCHANGED <<started, stopped, openReq, requests, timer, backoff, hadHello,
                 closeAsked, contend, served, kicks>>

\* onClosed for _pending: the attempt failed; a live _ws keeps serving.
OnClosedPending(s) ==
  /\ Take(s, "closed")
  /\ s = pending
  /\ pending' = NoSocket
  /\ conn' = Retired({s})
  /\ connecting' = FALSE
  /\ IF stopped THEN UNCHANGED <<timer, backoff>> ELSE ScheduleReconnect(backoff)
  /\ UNCHANGED <<started, stopped, openReq, requests, ws, hadHello, durable, closeAsked,
                 contend, grace, served, missed, kicks>>

\* noteBareClose: enough of them inside the window raise a notice.
NoteBareClose ==
  /\ bareCloses' = Smaller(bareCloses + 1, ContentionThreshold)
  /\ IF bareCloses + 1 >= ContentionThreshold
     THEN NotifyContention(otherConns)
     ELSE UNCHANGED <<noticed, banner>>
  /\ UNCHANGED otherConns

BackoffAfter_AnyClose == BackoffMin
BackoffAfter == IF durable THEN BackoffMin ELSE backoff

\* onClosed for _ws: a replacement already in flight finishes; else reconnect.
OnClosedLive(s) ==
  /\ Take(s, "closed")
  /\ s = ws
  /\ ws' = NoSocket
  /\ conn' = Retired({s})
  /\ closeAsked' = FALSE /\ durable' = FALSE
  /\ IF connecting \/ pending # NoSocket
     THEN UNCHANGED <<timer, backoff, contend>>
     ELSE /\ IF ~closeAsked /\ Head(loop).n = NormalClose
             THEN NoteBareClose ELSE UNCHANGED contend
          /\ IF stopped THEN UNCHANGED <<timer, backoff>>
             ELSE ScheduleReconnect(BackoffAfter)
  /\ UNCHANGED <<started, stopped, flight, pending, hadHello, grace, served, missed, kicks>>

Backfills_NotAfterSwap == hadHello /\ ~grace
Backfills == hadHello

\* onText "hello": count the others; a later hello means a gap to backfill.
OnHello(s) ==
  /\ Take(s, "hello")
  /\ LET ours == Cardinality(Held)
         others == Minus(Head(loop).n, ours + (IF grace THEN 1 ELSE 0))
     IN /\ otherConns' = others
        /\ IF others > 0 THEN NotifyContention(others) ELSE UNCHANGED <<noticed, banner>>
  /\ missed' = (missed /\ ~Backfills)
  /\ hadHello' = TRUE
  /\ UNCHANGED <<started, stopped, flight, ws, pending, timer, backoff, durable,
                 closeAsked, bareCloses, grace, conn, served, kicks>>

\* onText "disconnect" with reason "warning": an overlapping replacement.
OnWarning(s) ==
  /\ Take(s, "warning")
  /\ OpenAndConnect(connecting, requests)
  /\ UNCHANGED <<started, stopped, ws, pending, timer, backoff, hadHello, durable,
                 closeAsked, contend, grace, conn, served, missed, kicks>>

\* onText "disconnect" for good: our close follows, its Closed comes later.
\* eviction: the reason was too_many_websockets / too_many_connections.
OnDisconnect(s, eviction) ==
  /\ Take(s, "disconnect")
  /\ closeAsked' = TRUE
  /\ IF eviction THEN NotifyContention(otherConns) ELSE UNCHANGED <<noticed, banner>>
  /\ conn' = [x \in Socket |-> IF x = ws /\ conn[x] = "open" THEN "closing" ELSE conn[x]]
  /\ UNCHANGED <<started, stopped, flight, ws, pending, timer, backoff, hadHello, durable,
                 bareCloses, otherConns, grace, served, missed, kicks>>

\* onText "events_api": acked, and handed to every sink.
OnEvent(s) ==
  /\ Take(s, "event")
  /\ UNCHANGED <<started, stopped, flight, ws, pending, timer, backoff, hadHello, durable,
                 closeAsked, contend, grace, conn, served, missed, kicks>>

-----------------------------------------------------------------------------
(* The reader threads, the network and Slack. *)

slackUnchanged == UNCHANGED <<started, stopped, flight, ws, pending, timer, backoff,
                              hadHello, durable, closeAsked, contend, grace, kicks>>
Post(m) == loop' = Append(loop, m)
HasRoom == Len(loop) < MaxLoop

\* The handshake ends: Slack counts the socket and says hello with the total,
\* other devices' connections included.
ConnectOk(s) ==
  /\ conn[s] = "connecting"
  /\ conn' = [conn EXCEPT ![s] = "open"]
  /\ served' = served \union {s}
  /\ \E foreign \in 0..MaxForeign :
       loop' = loop \o <<Msg(s, "opened", 0),
                        Msg(s, "hello", Cardinality(served') + foreign)>>
  /\ slackUnchanged /\ UNCHANGED missed

\* ... or fails, or runs into open()'s timeout.
ConnectFails(s) ==
  /\ conn[s] = "connecting"
  /\ conn' = [conn EXCEPT ![s] = "closed"]
  /\ Post(Msg(s, "closed", NeverOpened))
  /\ slackUnchanged /\ UNCHANGED <<served, missed>>

\* Slack sends an envelope other than an event.
SlackSays(s, type) ==
  /\ conn[s] = "open" /\ HasRoom
  /\ Post(Msg(s, type, 0))
  /\ slackUnchanged /\ UNCHANGED <<conn, served, missed>>

\* Slack routes an event to one connection it counts. One it routes to a socket
\* the client let go of (retired, and still counted) leaves no trace here.
EventHappens ==
  /\ \/ \E s \in served :
           \/ /\ conn[s] \in {"open", "closing"} /\ HasRoom
              /\ Post(Msg(s, "event", 0))
              /\ UNCHANGED missed
           \/ /\ conn[s] \in {"dead", "closed"}
              /\ missed' = hadHello
              /\ UNCHANGED loop
     \/ /\ served = {}
        /\ missed' = hadHello
        /\ UNCHANGED loop
  /\ slackUnchanged /\ UNCHANGED <<conn, served>>

\* The connection ends in a way the reader sees: a close frame (the peer's own,
\* or the echo of ours) or an error. Slack may go on counting it for a while.
ConnectionEnds(s) ==
  /\ conn[s] \in {"open", "closing", "dead"}
  /\ conn' = [conn EXCEPT ![s] = "closed"]
  /\ \E code \in {NormalClose, AbnormalClose} :
       /\ conn[s] = "dead" => code = AbnormalClose
       /\ Post(Msg(s, "closed", code))
  /\ served' \in {served, served \ {s}}
  /\ slackUnchanged /\ UNCHANGED missed

\* The peer goes away and nothing says so (a suspend, a changed network).
DiesSilently(s) ==
  /\ conn[s] = "open"
  /\ conn' = [conn EXCEPT ![s] = "dead"]
  /\ slackUnchanged /\ UNCHANGED <<loop, served, missed>>

\* The loop turn that destroys a retired socket and joins its reader: it was
\* posted behind what the reader had posted by then.
Destroy(s) ==
  /\ conn[s] = "retired"
  /\ \A i \in 1..Len(loop) : loop[i].socket # s
  /\ conn' = [conn EXCEPT ![s] = "free"]
  /\ slackUnchanged /\ UNCHANGED <<loop, served, missed>>

\* Slack stops counting a connection that is gone.
SlackForgets(s) ==
  /\ s \in served /\ conn[s] \in {"free", "closed", "dead"}
  /\ served' = served \ {s}
  /\ slackUnchanged /\ UNCHANGED <<link, missed>>

-----------------------------------------------------------------------------
Calls == Start \/ Stop \/ EnsureConnected \/ ReconnectNow \/ NetworkBack \/ WakeFromSuspend
Timers == ReconnectTimerFires \/ \E span \in Spans : Elapse(span)
Answers == \E r \in Request : OpenFails(r) \/ OpenSucceeds(r)
Dispatch(s) ==
  \/ OnOpen(s) \/ OnClosedPending(s) \/ OnClosedLive(s)
  \/ OnHello(s) \/ OnWarning(s) \/ OnEvent(s)
  \/ \E eviction \in BOOLEAN : OnDisconnect(s, eviction)
World ==
  \/ \E s \in Socket :
       \/ ConnectOk(s) \/ ConnectFails(s) \/ ConnectionEnds(s) \/ DiesSilently(s)
       \/ Destroy(s) \/ SlackForgets(s)
       \/ \E type \in Envelopes : SlackSays(s, type)
  \/ EventHappens

Turn == Unheard \/ \E s \in Socket : Dispatch(s)

Next == Calls \/ Timers \/ Answers \/ Turn \/ World

Spec == Init /\ [][Next]_vars

\* The UI loop runs what is posted and due, every blocking call of a reader has
\* a timeout, and Slack does not refuse the app for ever. Nothing is assumed of
\* the callers.
Fairness ==
  /\ WF_vars(ReconnectTimerFires) /\ WF_vars(Turn)
  /\ \A r \in Request : WF_vars(OpenFails(r) \/ OpenSucceeds(r))
  /\ SF_vars(\E r \in Request : OpenSucceeds(r)) /\ SF_vars(\E s \in Socket : ConnectOk(s))
  /\ \A s \in Socket :
       /\ WF_vars(Destroy(s)) /\ WF_vars(SlackForgets(s))
       /\ WF_vars(ConnectOk(s) \/ ConnectFails(s))
       /\ WF_vars(ConnectionEnds(s) /\ conn[s] # "open")
FairSpec == Spec /\ Fairness

-----------------------------------------------------------------------------
(* Properties. *)

\* Every variable keeps its type; a null socket or call is told from a real one.
TypeOK ==
  /\ started \in BOOLEAN /\ stopped \in BOOLEAN /\ connecting \in BOOLEAN
  /\ openReq \in Request \union {NoRequest} /\ requests \in SUBSET Request
  /\ ws \in Socket \union {NoSocket} /\ pending \in Socket \union {NoSocket}
  /\ timer \in BOOLEAN /\ backoff \in BackoffMin..BackoffMax
  /\ hadHello \in BOOLEAN /\ durable \in BOOLEAN /\ closeAsked \in BOOLEAN
  /\ bareCloses \in 0..ContentionThreshold /\ noticed \in BOOLEAN
  /\ otherConns \in Nat /\ grace \in BOOLEAN /\ banner \in BOOLEAN
  /\ conn \in [Socket -> ConnState] /\ loop \in Seq(Message)
  /\ served \in SUBSET Socket
  /\ missed \in BOOLEAN /\ kicks \in 0..MaxKicks

\* One connect cycle at a time (openAndConnect's guard): while it runs there is
\* exactly one call in flight or one socket coming up, and none otherwise; a
\* cancelled call is never answered, so no second cycle can open behind it.
SingleFlight ==
  /\ requests = {openReq} \ {NoRequest}
  /\ connecting <=> (openReq # NoRequest \/ pending # NoSocket)
  /\ openReq = NoRequest \/ pending = NoSocket

\* Recovery never stalls: a started socket that is down has a connect cycle
\* really running (a call in flight, a socket coming up) or the timer armed, whichever handler left it so.
NeverStalled ==
  started /\ ~stopped /\ ~connected => openReq \in requests \/ pending # NoSocket \/ timer

\* No connection of ours goes unread: each live transport is the one held as
\* _ws or _pending, the two differ, and _ws is past its handshake.
NoUnreadSocket ==
  /\ \A s \in Socket : conn[s] \notin {"free", "retired"} <=> s \in Held
  /\ connected => ws # pending /\ conn[ws] # "connecting"

\* After stop() nothing of the connection is left to run: no socket, no call
\* in flight, no timer.
QuietAfterStop ==
  stopped => ~connected /\ pending = NoSocket /\ requests = {} /\ ~timer /\ ~connecting

\* A reader thread posts nothing before its handshake ends, and a socket is only
\* destroyed behind all it posted.
NoEarlyMessage ==
  \A i \in 1..Len(loop) : conn[loop[i].socket] \notin {"free", "connecting"}

\* The inductive invariant: the handlers keep these together, none alone.
IInv ==
  TypeOK /\ SingleFlight /\ NeverStalled /\ NoUnreadSocket /\ QuietAfterStop /\ NoEarlyMessage

\* An event missed in a gap is never forgotten: until the sinks are told to
\* backfill (reconnected), the connection is down, or about to be found down,
\* or the hello that tells them is still to be heard.
BackfilledGaps ==
  missed =>
    \/ ~connected
    \/ \E s \in Held : conn[s] \in {"dead", "closed"} \/ Waiting(s, "hello")

\* An evicted socket never reconnects once a second: the backoff shrinks only
\* after a durable connection, or when the user's network, a poll or a suspend
\* says the world changed (reconnectNow, networkChanged, checkLiveness).
BackoffHolds == [][backoff' < backoff => durable \/ kicks' # kicks]_vars

\* A started socket is connected again and again, whatever fails, until stop().
Recovers == []<>(started => connected \/ stopped)

\* A gap is backfilled in the end: the sinks hear reconnected after it.
GapsEndInBackfill ==
  missed ~> (~missed \/ stopped)
=============================================================================
