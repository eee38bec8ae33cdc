--------------------------- MODULE SocketModeProofs ---------------------------
(***************************************************************************)
(* SocketMode's type correctness, then its inductive invariant: the single *)
(* flight, the armed recovery, the held sockets and the quiet after stop.  *)
(* Last, Gaps: the order of the loop's messages and Slack's count of our   *)
(* sockets, under which no missed event is forgotten.                      *)
(***************************************************************************)
EXTENDS SocketMode, FiniteSetTheorems, SequenceTheorems, TLAPS

-----------------------------------------------------------------------------
(* What the building blocks of the handlers leave behind. *)

\* The sockets held are at most two: their number is a natural.
LEMMA HeldCount == Cardinality(Held) \in Nat
<1>1. IsFiniteSet({ws, pending})
  <2>1. IsFiniteSet({ws}) /\ {ws, pending} = {ws} \union {pending}
    BY FS_Singleton
  <2>2. IsFiniteSet({ws} \union {pending})
    BY <2>1, FS_AddElement
  <2> QED  BY <2>1, <2>2
<1>2. IsFiniteSet(Held)
  BY <1>1, FS_Subset DEF Held
<1> QED  BY <1>2, FS_CardinalityType

\* The sockets Slack counts are finitely many.
LEMMA ServedCount ==
  ASSUME NEW S \in SUBSET Socket PROVE Cardinality(S) \in Nat
  BY SocketAssumption, FS_Subset, FS_CardinalityType

\* retireSocket moves sockets to a state of its own.
LEMMA RetiredType ==
  ASSUME TypeOK, NEW S PROVE Retired(S) \in [Socket -> ConnState]
  BY DEF TypeOK, Retired, ConnState

\* What a retirement drops is a Boolean.
LEMMA DroppedByType ==
  ASSUME TypeOK, NEW S PROVE DroppedBy(S) \in BOOLEAN
  BY DEF TypeOK, DroppedBy

\* openAndConnect touches the connect cycle only.
LEMMA OpenAndConnectType ==
  ASSUME TypeOK, NEW busy \in BOOLEAN, NEW live \in SUBSET Request,
         OpenAndConnect(busy, live)
  PROVE  /\ connecting' \in BOOLEAN /\ openReq' \in Request \union {NoRequest}
         /\ requests' \in SUBSET Request
<1>1. CASE MayOpen(busy)
  BY <1>1 DEF OpenAndConnect
<1>2. CASE ~MayOpen(busy)
  BY <1>2 DEF OpenAndConnect, TypeOK
<1> QED  BY <1>1, <1>2

\* scheduleReconnect keeps the backoff within its bounds.
LEMMA ScheduleReconnectType ==
  ASSUME NEW base \in BackoffMin..BackoffMax, ScheduleReconnect(base)
  PROVE  timer' \in BOOLEAN /\ backoff' \in BackoffMin..BackoffMax
  BY BoundsAssumption DEF ScheduleReconnect, Longer, Smaller

\* What is left of the calls once the one in flight is cancelled.
LEMMA CancelOpenType ==
  ASSUME TypeOK PROVE CancelOpen \in SUBSET Request /\ Cleared \in BOOLEAN
  BY DEF TypeOK, CancelOpen, Cleared

\* teardown lets both sockets go.
LEMMA TeardownType ==
  ASSUME TypeOK, Teardown
  PROVE  /\ ws' \in Socket \union {NoSocket} /\ pending' \in Socket \union {NoSocket}
         /\ durable' \in BOOLEAN /\ missed' \in BOOLEAN
         /\ conn' \in [Socket -> ConnState] /\ loop' \in Seq(Message)
  BY RetiredType, DroppedByType DEF Teardown, TypeOK

\* forceReconnect: a teardown and a new cycle.
LEMMA ForceReconnectType ==
  ASSUME TypeOK, ForceReconnect
  PROVE  /\ ws' \in Socket \union {NoSocket} /\ pending' \in Socket \union {NoSocket}
         /\ durable' \in BOOLEAN /\ missed' \in BOOLEAN
         /\ conn' \in [Socket -> ConnState] /\ loop' \in Seq(Message)
         /\ timer' \in BOOLEAN /\ backoff' \in BackoffMin..BackoffMax
         /\ connecting' \in BOOLEAN /\ openReq' \in Request \union {NoRequest}
         /\ requests' \in SUBSET Request
<1>1. backoff' \in BackoffMin..BackoffMax
  BY BoundsAssumption DEF ForceReconnect
<1> QED  BY <1>1, TeardownType, OpenAndConnectType, CancelOpenType DEF ForceReconnect

\* A notice is Boolean, whatever the count that raised it.
LEMMA NotifyContentionType ==
  ASSUME TypeOK, NEW others, NotifyContention(others)
  PROVE  noticed' \in BOOLEAN /\ banner' \in BOOLEAN
  BY DEF TypeOK, NotifyContention

\* The bare closes counted stop at the threshold.
LEMMA NoteBareCloseType ==
  ASSUME TypeOK, NoteBareClose
  PROVE  /\ bareCloses' \in 0..ContentionThreshold /\ otherConns' \in Nat
         /\ noticed' \in BOOLEAN /\ banner' \in BOOLEAN
<1>1. bareCloses' \in 0..ContentionThreshold
  BY BoundsAssumption DEF TypeOK, NoteBareClose, Smaller
<1>2. noticed' \in BOOLEAN /\ banner' \in BOOLEAN
  BY NotifyContentionType DEF TypeOK, NoteBareClose
<1> QED  BY <1>1, <1>2 DEF TypeOK, NoteBareClose

\* A reader's message is well formed, and the loop with it.
LEMMA PostType ==
  ASSUME TypeOK, NEW s \in Socket, NEW type \in MsgType, NEW n \in Nat,
         Post(Msg(s, type, n))
  PROVE  loop' \in Seq(Message)
  BY DEF TypeOK, Post, Msg, Message

\* Taking the first message leaves a loop, and the message was well formed.
LEMMA TakeType ==
  ASSUME TypeOK, NEW s \in Socket, NEW type, Take(s, type)
  PROVE  loop' \in Seq(Message) /\ Head(loop) \in Message
  BY DEF TypeOK, Take

-----------------------------------------------------------------------------
(* Type correctness. *)

\* Every step keeps every variable in its type.
LEMMA TypeStep == TypeOK /\ [Next]_vars => TypeOK'
<1> SUFFICES ASSUME TypeOK, [Next]_vars PROVE TypeOK'
  OBVIOUS
<1>1. CASE Start
  BY <1>1, OpenAndConnectType DEF TypeOK, Start, flight, contend, link
<1>2. CASE Stop
  BY <1>2, TeardownType, CancelOpenType DEF TypeOK, Stop, flight, contend, link
<1>3. CASE EnsureConnected
  BY <1>3, OpenAndConnectType DEF TypeOK, EnsureConnected, flight, contend, link
<1>4. CASE ReconnectNow
  BY <1>4, OpenAndConnectType, ForceReconnectType, BoundsAssumption DEF TypeOK,
     ReconnectNow, Kick, flight, contend, link
<1>5. CASE NetworkBack
  BY <1>5, ForceReconnectType, BoundsAssumption DEF TypeOK, NetworkBack, Kick,
     flight, contend, link
<1>6. CASE WakeFromSuspend
  BY <1>6, ForceReconnectType, BoundsAssumption DEF TypeOK, WakeFromSuspend, Kick,
     flight, contend, link
<1>7. CASE ReconnectTimerFires
  <2>1. /\ connecting' \in BOOLEAN /\ openReq' \in Request \union {NoRequest}
        /\ requests' \in SUBSET Request
    <3>1. connecting \in BOOLEAN /\ requests \in SUBSET Request
      BY DEF TypeOK
    <3> QED  BY <1>7, <3>1, OpenAndConnectType DEF ReconnectTimerFires
  <2>2. timer' \in BOOLEAN
    BY <1>7 DEF ReconnectTimerFires
  <2> QED  BY <1>7, <2>1, <2>2 DEF TypeOK, ReconnectTimerFires, contend, link
<1>8. ASSUME NEW span \in Spans, Elapse(span) PROVE TypeOK'
  <2>1. durable' \in BOOLEAN /\ noticed' \in BOOLEAN /\ grace' \in BOOLEAN
    BY <1>8, Zenon DEF Elapse
  <2>2. bareCloses' \in 0..ContentionThreshold
    BY <1>8, BoundsAssumption DEF TypeOK, Elapse
  <2> QED  BY <1>8, <2>1, <2>2 DEF TypeOK, Elapse, flight, contend, link
<1>9. ASSUME NEW r \in Request, OpenFails(r) PROVE TypeOK'
  <2>1. timer' \in BOOLEAN /\ backoff' \in BackoffMin..BackoffMax
    <3>1. CASE stopped
      BY <1>9, <3>1 DEF TypeOK, OpenFails
    <3>2. CASE ~stopped
      BY <1>9, <3>2, ScheduleReconnectType DEF TypeOK, OpenFails
    <3> QED  BY <3>1, <3>2
  <2>2. /\ connecting' \in BOOLEAN /\ openReq' \in Request \union {NoRequest}
        /\ requests' \in SUBSET Request
    BY <1>9 DEF TypeOK, OpenFails, Answered
  <2> QED  BY <1>9, <2>1, <2>2 DEF TypeOK, OpenFails, Answered, contend, link
<1>10. ASSUME NEW r \in Request, OpenSucceeds(r) PROVE TypeOK'
  BY <1>10, RetiredType, DroppedByType DEF TypeOK, OpenSucceeds, Answered,
     ConnState, flight, contend, link
<1>11. CASE Unheard
  BY <1>11 DEF TypeOK, Unheard, flight, contend, link
<1>12. ASSUME NEW s \in Socket, OnOpen(s) PROVE TypeOK'
  BY <1>12, TakeType, RetiredType, DroppedByType DEF TypeOK, OnOpen, connected,
     flight, contend, link
<1>13. ASSUME NEW s \in Socket, OnClosedPending(s) PROVE TypeOK'
  <2>1. timer' \in BOOLEAN /\ backoff' \in BackoffMin..BackoffMax
    BY <1>13, ScheduleReconnectType DEF TypeOK, OnClosedPending
  <2>2. conn' \in [Socket -> ConnState] /\ loop' \in Seq(Message)
    BY <1>13, TakeType, RetiredType DEF OnClosedPending
  <2> QED  BY <1>13, <2>1, <2>2 DEF TypeOK, OnClosedPending, contend
<1>14. ASSUME NEW s \in Socket, OnClosedLive(s) PROVE TypeOK'
  <2>1. BackoffAfter \in BackoffMin..BackoffMax
    BY BoundsAssumption DEF TypeOK, BackoffAfter
  <2>2. timer' \in BOOLEAN /\ backoff' \in BackoffMin..BackoffMax
    BY <1>14, <2>1, ScheduleReconnectType DEF TypeOK, OnClosedLive
  <2>3. conn' \in [Socket -> ConnState] /\ loop' \in Seq(Message)
    BY <1>14, TakeType, RetiredType DEF OnClosedLive
  <2>4. /\ bareCloses' \in 0..ContentionThreshold /\ otherConns' \in Nat
        /\ noticed' \in BOOLEAN /\ banner' \in BOOLEAN
    BY <1>14, NoteBareCloseType DEF TypeOK, OnClosedLive, contend
  <2> QED  BY <1>14, <2>2, <2>3, <2>4 DEF TypeOK, OnClosedLive, flight
<1>15. ASSUME NEW s \in Socket, OnHello(s) PROVE TypeOK'
  <2>1. loop' \in Seq(Message) /\ Head(loop).n \in Nat
    BY <1>15, TakeType DEF OnHello, Message
  <2>2. otherConns' \in Nat
    BY <1>15, <2>1, HeldCount DEF OnHello, Minus
  <2>3. noticed' \in BOOLEAN /\ banner' \in BOOLEAN
    BY <1>15, NotifyContentionType DEF TypeOK, OnHello
  <2>4. missed' \in BOOLEAN
    BY <1>15 DEF TypeOK, OnHello
  <2> QED  BY <1>15, <2>1, <2>2, <2>3, <2>4 DEF TypeOK, OnHello, flight
<1>16. ASSUME NEW s \in Socket, OnWarning(s) PROVE TypeOK'
  BY <1>16, TakeType, OpenAndConnectType DEF TypeOK, OnWarning, flight, contend,
     link
<1>17. ASSUME NEW s \in Socket, NEW eviction \in BOOLEAN, OnDisconnect(s, eviction) PROVE TypeOK'
  BY <1>17, TakeType, NotifyContentionType DEF TypeOK, OnDisconnect, ConnState,
     flight, contend, link
<1>18. ASSUME NEW s \in Socket, OnEvent(s) PROVE TypeOK'
  BY <1>18, TakeType DEF TypeOK, OnEvent, flight, contend, link
<1>19. ASSUME NEW s \in Socket, ConnectOk(s) PROVE TypeOK'
  <2>1. served' \in SUBSET Socket
    BY <1>19 DEF TypeOK, ConnectOk
  <2>2. PICK foreign \in 0..MaxForeign :
          loop' = loop \o <<Msg(s, "opened", 0),
                           Msg(s, "hello", Cardinality(served') + foreign)>>
    BY <1>19 DEF ConnectOk
  <2>3. Cardinality(served') + foreign \in Nat
    BY <2>1, ServedCount, BoundsAssumption
  <2>4. /\ Msg(s, "opened", 0) \in Message
        /\ Msg(s, "hello", Cardinality(served') + foreign) \in Message
    BY <2>3 DEF Msg, Message, MsgType
  <2>5. loop' \in Seq(Message)
    BY <2>2, <2>4 DEF TypeOK
  <2> QED  BY <1>19, <2>1, <2>5 DEF TypeOK, ConnectOk, ConnState, slackUnchanged,
            flight, contend
<1>20. ASSUME NEW s \in Socket, ConnectFails(s) PROVE TypeOK'
  BY <1>20, PostType DEF TypeOK, ConnectFails, ConnState, MsgType, NeverOpened,
     slackUnchanged, flight, contend, link
<1>21. ASSUME NEW s \in Socket, NEW type \in Envelopes, SlackSays(s, type) PROVE TypeOK'
  BY <1>21, PostType, BoundsAssumption DEF TypeOK, SlackSays, MsgType,
     slackUnchanged, flight, contend, link
<1>22. CASE EventHappens
  BY <1>22, PostType DEF TypeOK, EventHappens, MsgType, slackUnchanged, flight,
     contend, link
<1>23. ASSUME NEW s \in Socket, ConnectionEnds(s) PROVE TypeOK'
  BY <1>23, PostType DEF TypeOK, ConnectionEnds, ConnState, MsgType, NormalClose,
     AbnormalClose, slackUnchanged, flight, contend, link
<1>24. ASSUME NEW s \in Socket, DiesSilently(s) PROVE TypeOK'
  BY <1>24 DEF TypeOK, DiesSilently, ConnState, slackUnchanged, flight, contend,
     link
<1>25. ASSUME NEW s \in Socket, Destroy(s) PROVE TypeOK'
  BY <1>25 DEF TypeOK, Destroy, ConnState, slackUnchanged, flight, contend, link
<1>26. ASSUME NEW s \in Socket, SlackForgets(s) PROVE TypeOK'
  BY <1>26 DEF TypeOK, SlackForgets, slackUnchanged, flight, contend, link
<1>27. CASE UNCHANGED vars
  BY <1>27 DEF TypeOK, vars, flight, contend, link
<1> QED  BY <1>1, <1>2, <1>3, <1>4, <1>5, <1>6, <1>7, <1>8, <1>9, <1>10, <1>11,
     <1>12, <1>13, <1>14, <1>15, <1>16, <1>17, <1>18, <1>19, <1>20, <1>21, <1>22,
     <1>23, <1>24, <1>25, <1>26, <1>27 DEF Next, Calls, Timers, Answers, Turn,
     Dispatch, World

\* The initial state is well typed.
LEMMA TypeInit == Init => TypeOK
<1>1. BackoffMin \in BackoffMin..BackoffMax /\ 0 \in 0..ContentionThreshold
      /\ 0 \in 0..MaxKicks
  BY BoundsAssumption
<1>2. Init => /\ conn \in [Socket -> ConnState] /\ loop \in Seq(Message)
              /\ requests \in SUBSET Request /\ served \in SUBSET Socket
  BY DEF Init, ConnState
<1>3. Init => /\ bareCloses \in 0..ContentionThreshold /\ kicks \in 0..MaxKicks
              /\ backoff \in BackoffMin..BackoffMax /\ otherConns \in Nat
  BY <1>1 DEF Init
<1> QED  BY <1>2, <1>3 DEF Init, TypeOK

\* Init and every step keep the types, for every number of sockets and calls.
THEOREM TypeCorrect == Spec => []TypeOK
BY TypeInit, TypeStep, PTL DEF Spec

-----------------------------------------------------------------------------
(* The inductive invariant. *)

\* Retiring sockets, and dropping the loop's first message or not, leaves every
\* waiting message one of a socket past its handshake.
LEMMA RetireKeepsOrder ==
  ASSUME TypeOK, NoEarlyMessage, NEW S, conn' = Retired(S),
         loop' = loop \/ (loop # <<>> /\ loop' = Tail(loop))
  PROVE  NoEarlyMessage'
<1>1. \A i \in 1..Len(loop) : /\ loop[i].socket \in Socket
                            /\ conn'[loop[i].socket] \notin {"free", "connecting"}
  <2> TAKE i \in 1..Len(loop)
  <2>1. loop[i] \in Message
    BY DEF TypeOK
  <2>2. loop[i].socket \in Socket
    BY <2>1 DEF Message
  <2> QED  BY <2>2 DEF NoEarlyMessage, Retired
<1>2. CASE loop' = loop
  BY <1>1, <1>2 DEF NoEarlyMessage
<1>3. CASE loop # <<>> /\ loop' = Tail(loop)
  <2>1. ASSUME NEW i \in 1..Len(loop')
        PROVE  loop'[i] = loop[i + 1] /\ i + 1 \in 1..Len(loop)
    BY <1>3 DEF TypeOK
  <2> QED  BY <1>1, <2>1 DEF NoEarlyMessage
<1> QED  BY <1>2, <1>3

\* A socket past its handshake may post.
LEMMA PostKeepsOrder ==
  ASSUME TypeOK, NoEarlyMessage, NEW s \in Socket, NEW type \in MsgType, NEW n \in Nat,
         conn[s] \notin {"free", "connecting"}, conn' = conn, Post(Msg(s, type, n))
  PROVE  NoEarlyMessage'
  BY DEF TypeOK, NoEarlyMessage, Post, Msg, Message

\* Every step keeps the inductive invariant.
LEMMA InvariantStep == IInv /\ [Next]_vars => IInv'
<1> SUFFICES ASSUME IInv, [Next]_vars PROVE IInv'
  OBVIOUS
<1>0. TypeOK'
  BY TypeStep DEF IInv
<1> DEFINE Safe == SingleFlight /\ NeverStalled /\ NoUnreadSocket /\ QuietAfterStop
<1>a. SUFFICES Safe' /\ NoEarlyMessage'
  BY <1>0 DEF IInv
<1> USE DEF IInv, Held, connected, flight, contend, link
<1>1. CASE Start
  BY <1>1, SocketAssumption DEF TypeOK, SingleFlight, NeverStalled, QuietAfterStop,
     NoUnreadSocket, NoEarlyMessage, Start, OpenAndConnect, MayOpen
<1>2. CASE Stop
  <2>1. SingleFlight' /\ NeverStalled' /\ QuietAfterStop'
    BY <1>2, SocketAssumption DEF TypeOK, SingleFlight, NeverStalled,
       QuietAfterStop, NoUnreadSocket, Stop, Teardown, Cleared, CancelOpen
  <2>2. NoUnreadSocket'
    BY <1>2, SocketAssumption DEF TypeOK, SingleFlight, NoUnreadSocket,
       NoEarlyMessage, Stop, Teardown, Cleared, CancelOpen, Retired
  <2>3. NoEarlyMessage'
    BY <1>2, RetireKeepsOrder DEF Stop, Teardown
  <2> QED  BY <2>1, <2>2, <2>3
<1>3. CASE EnsureConnected
  BY <1>3, SocketAssumption DEF TypeOK, SingleFlight, NeverStalled, QuietAfterStop,
     NoUnreadSocket, NoEarlyMessage, EnsureConnected, OpenAndConnect, MayOpen
<1>4. CASE ReconnectNow
  <2>1. SingleFlight' /\ NeverStalled' /\ QuietAfterStop'
    BY <1>4, SocketAssumption DEF TypeOK, SingleFlight, NeverStalled,
       QuietAfterStop, NoUnreadSocket, ReconnectNow, OpenAndConnect, MayOpen,
       ForceReconnect, Teardown, Cleared, CancelOpen, Kick
  <2>2. NoUnreadSocket'
    BY <1>4, SocketAssumption DEF TypeOK, SingleFlight, NoUnreadSocket,
       NoEarlyMessage, ReconnectNow, OpenAndConnect, MayOpen, ForceReconnect,
       Teardown, Cleared, CancelOpen, Kick, Retired
  <2>3. NoEarlyMessage'
    BY <1>4, RetireKeepsOrder DEF NoEarlyMessage, ReconnectNow, ForceReconnect,
       Teardown
  <2> QED  BY <2>1, <2>2, <2>3
<1>5. CASE NetworkBack
  <2>1. SingleFlight' /\ NeverStalled' /\ QuietAfterStop'
    BY <1>5, SocketAssumption DEF TypeOK, SingleFlight, NeverStalled,
       QuietAfterStop, NoUnreadSocket, NetworkBack, OpenAndConnect, MayOpen,
       ForceReconnect, Teardown, Cleared, CancelOpen, Kick
  <2>2. NoUnreadSocket'
    BY <1>5, SocketAssumption DEF TypeOK, SingleFlight, NoUnreadSocket,
       NoEarlyMessage, NetworkBack, OpenAndConnect, MayOpen, ForceReconnect,
       Teardown, Cleared, CancelOpen, Kick, Retired
  <2>3. NoEarlyMessage'
    BY <1>5, RetireKeepsOrder DEF NetworkBack, ForceReconnect, Teardown
  <2> QED  BY <2>1, <2>2, <2>3
<1>6. CASE WakeFromSuspend
  <2>1. SingleFlight' /\ NeverStalled' /\ QuietAfterStop'
    BY <1>6, SocketAssumption DEF TypeOK, SingleFlight, NeverStalled,
       QuietAfterStop, NoUnreadSocket, WakeFromSuspend, OpenAndConnect, MayOpen,
       ForceReconnect, Teardown, Cleared, CancelOpen, Kick
  <2>2. NoUnreadSocket'
    BY <1>6, SocketAssumption DEF TypeOK, SingleFlight, NoUnreadSocket,
       NoEarlyMessage, WakeFromSuspend, OpenAndConnect, MayOpen, ForceReconnect,
       Teardown, Cleared, CancelOpen, Kick, Retired
  <2>3. NoEarlyMessage'
    BY <1>6, RetireKeepsOrder DEF WakeFromSuspend, ForceReconnect, Teardown
  <2> QED  BY <2>1, <2>2, <2>3
<1>7. CASE ReconnectTimerFires
  BY <1>7, SocketAssumption DEF TypeOK, SingleFlight, NeverStalled, QuietAfterStop,
     NoUnreadSocket, NoEarlyMessage, ReconnectTimerFires, OpenAndConnect, MayOpen
<1>8. ASSUME NEW span \in Spans, Elapse(span) PROVE Safe' /\ NoEarlyMessage'
  BY <1>8, SocketAssumption DEF TypeOK, SingleFlight, NeverStalled, QuietAfterStop,
     NoUnreadSocket, NoEarlyMessage, Elapse
<1>9. ASSUME NEW r \in Request, OpenFails(r) PROVE Safe' /\ NoEarlyMessage'
  BY <1>9, SocketAssumption DEF TypeOK, SingleFlight, NeverStalled, QuietAfterStop,
     NoUnreadSocket, NoEarlyMessage, OpenFails, Answered, ScheduleReconnect
<1>10. ASSUME NEW r \in Request, OpenSucceeds(r) PROVE Safe' /\ NoEarlyMessage'
  <2>1. SingleFlight' /\ NeverStalled' /\ QuietAfterStop'
    BY <1>10, SocketAssumption DEF TypeOK, SingleFlight, NeverStalled,
       QuietAfterStop, NoUnreadSocket, OpenSucceeds, Answered, Retired
  <2>2. NoUnreadSocket'
    BY <1>10, SocketAssumption DEF TypeOK, SingleFlight, NoUnreadSocket,
       NoEarlyMessage, OpenSucceeds, Answered, Retired
  <2>3. NoEarlyMessage'
    <3>1. ASSUME NEW i \in 1..Len(loop)
          PROVE  loop[i].socket \in Socket
      <4>1. loop[i] \in Message
        BY DEF TypeOK
      <4> QED  BY <4>1 DEF Message
    <3> QED  BY <1>10, <3>1 DEF TypeOK, NoEarlyMessage, OpenSucceeds, Retired
  <2> QED  BY <2>1, <2>2, <2>3
<1>11. CASE Unheard
  <2>1. Safe'
    BY <1>11, SocketAssumption DEF TypeOK, SingleFlight, NeverStalled,
       QuietAfterStop, NoUnreadSocket, Unheard
  <2>2. NoEarlyMessage'
    BY <1>11 DEF TypeOK, NoEarlyMessage, Unheard
  <2> QED  BY <2>1, <2>2
<1>12. ASSUME NEW s \in Socket, OnOpen(s) PROVE Safe' /\ NoEarlyMessage'
  <2>1. SingleFlight' /\ NeverStalled' /\ QuietAfterStop'
    BY <1>12, SocketAssumption DEF TypeOK, SingleFlight, NeverStalled,
       QuietAfterStop, NoUnreadSocket, OnOpen, Take, Retired, Replaced
  <2>2. NoUnreadSocket'
    BY <1>12, SocketAssumption DEF TypeOK, SingleFlight, NoUnreadSocket,
       NoEarlyMessage, OnOpen, Take, Retired, Replaced, Message
  <2>3. NoEarlyMessage'
    BY <1>12, RetireKeepsOrder DEF Take, OnOpen, Replaced
  <2> QED  BY <2>1, <2>2, <2>3
<1>13. ASSUME NEW s \in Socket, OnClosedPending(s) PROVE Safe' /\ NoEarlyMessage'
  <2>1. SingleFlight' /\ NeverStalled' /\ QuietAfterStop'
    BY <1>13, SocketAssumption DEF TypeOK, SingleFlight, NeverStalled,
       QuietAfterStop, NoUnreadSocket, OnClosedPending, Take, ScheduleReconnect,
       Retired
  <2>2. NoUnreadSocket'
    BY <1>13, SocketAssumption DEF TypeOK, SingleFlight, NoUnreadSocket,
       NoEarlyMessage, OnClosedPending, Take, ScheduleReconnect, Retired
  <2>3. NoEarlyMessage'
    BY <1>13, RetireKeepsOrder DEF Take, OnClosedPending
  <2> QED  BY <2>1, <2>2, <2>3
<1>14. ASSUME NEW s \in Socket, OnClosedLive(s) PROVE Safe' /\ NoEarlyMessage'
  <2>1. SingleFlight' /\ NeverStalled' /\ QuietAfterStop'
    BY <1>14, SocketAssumption DEF TypeOK, SingleFlight, NeverStalled,
       QuietAfterStop, NoUnreadSocket, OnClosedLive, Take, ScheduleReconnect,
       Retired
  <2>2. NoUnreadSocket'
    BY <1>14, SocketAssumption DEF TypeOK, SingleFlight, NoUnreadSocket,
       NoEarlyMessage, OnClosedLive, Take, ScheduleReconnect, Retired
  <2>3. NoEarlyMessage'
    BY <1>14, RetireKeepsOrder DEF Take, OnClosedLive
  <2> QED  BY <2>1, <2>2, <2>3
<1>15. ASSUME NEW s \in Socket, OnHello(s) PROVE Safe' /\ NoEarlyMessage'
  <2>1. Safe'
    BY <1>15, SocketAssumption DEF TypeOK, SingleFlight, NeverStalled,
       QuietAfterStop, NoUnreadSocket, OnHello, Take
  <2>2. NoEarlyMessage'
    BY <1>15 DEF TypeOK, NoEarlyMessage, OnHello, Take
  <2> QED  BY <2>1, <2>2
<1>16. ASSUME NEW s \in Socket, OnWarning(s) PROVE Safe' /\ NoEarlyMessage'
  <2>1. Safe'
    BY <1>16, SocketAssumption DEF TypeOK, SingleFlight, NeverStalled,
       QuietAfterStop, NoUnreadSocket, OnWarning, Take, OpenAndConnect, MayOpen
  <2>2. NoEarlyMessage'
    BY <1>16 DEF TypeOK, NoEarlyMessage, OnWarning, Take
  <2> QED  BY <2>1, <2>2
<1>17. ASSUME NEW s \in Socket, NEW eviction \in BOOLEAN, OnDisconnect(s, eviction)
       PROVE  Safe' /\ NoEarlyMessage'
  <2>1. SingleFlight' /\ NeverStalled' /\ QuietAfterStop'
    BY <1>17, SocketAssumption DEF TypeOK, SingleFlight, NeverStalled,
       QuietAfterStop, NoUnreadSocket, OnDisconnect, Take
  <2>2. NoUnreadSocket'
    BY <1>17, SocketAssumption DEF TypeOK, SingleFlight, NoUnreadSocket,
       NoEarlyMessage, OnDisconnect, Take
  <2>3. NoEarlyMessage'
    <3>1. \A x \in Socket : conn'[x] \in {"free", "connecting"} => conn[x] \in {"free", "connecting"}
      BY <1>17 DEF OnDisconnect
    <3>2. \A i \in 1..Len(loop') : i + 1 \in 1..Len(loop) /\ loop'[i] = loop[i + 1]
      BY <1>17 DEF TypeOK, OnDisconnect, Take
    <3>3. \A i \in 1..Len(loop) : loop[i].socket \in Socket
      <4>1. \A i \in 1..Len(loop) : loop[i] \in Message
        BY DEF TypeOK
      <4> QED  BY <4>1 DEF Message
    <3> QED  BY <3>1, <3>2, <3>3 DEF NoEarlyMessage
  <2> QED  BY <2>1, <2>2, <2>3
<1>18. ASSUME NEW s \in Socket, OnEvent(s) PROVE Safe' /\ NoEarlyMessage'
  <2>1. Safe'
    BY <1>18, SocketAssumption DEF TypeOK, SingleFlight, NeverStalled,
       QuietAfterStop, NoUnreadSocket, OnEvent, Take
  <2>2. NoEarlyMessage'
    BY <1>18 DEF TypeOK, NoEarlyMessage, OnEvent, Take
  <2> QED  BY <2>1, <2>2
<1>19. ASSUME NEW s \in Socket, ConnectOk(s) PROVE Safe' /\ NoEarlyMessage'
  <2>1. SingleFlight' /\ NeverStalled' /\ QuietAfterStop'
    BY <1>19, SocketAssumption DEF TypeOK, SingleFlight, NeverStalled,
       QuietAfterStop, NoUnreadSocket, ConnectOk, slackUnchanged
  <2>2. NoUnreadSocket'
    BY <1>19, SocketAssumption DEF TypeOK, SingleFlight, NoUnreadSocket,
       NoEarlyMessage, ConnectOk, slackUnchanged
  <2>3. NoEarlyMessage'
    BY <1>19, SMTT(30) DEF TypeOK, NoEarlyMessage, ConnectOk, Msg, Message, slackUnchanged
  <2> QED  BY <2>1, <2>2, <2>3
<1>20. ASSUME NEW s \in Socket, ConnectFails(s) PROVE Safe' /\ NoEarlyMessage'
  <2>1. SingleFlight' /\ NeverStalled' /\ QuietAfterStop'
    BY <1>20, SocketAssumption DEF TypeOK, SingleFlight, NeverStalled,
       QuietAfterStop, NoUnreadSocket, ConnectFails, slackUnchanged
  <2>2. NoUnreadSocket'
    BY <1>20, SocketAssumption DEF TypeOK, SingleFlight, NoUnreadSocket,
       NoEarlyMessage, ConnectFails, slackUnchanged
  <2>3. NoEarlyMessage'
    BY <1>20 DEF TypeOK, NoEarlyMessage, ConnectFails, Post, Msg, Message,
       slackUnchanged
  <2> QED  BY <2>1, <2>2, <2>3
<1>21. ASSUME NEW s \in Socket, NEW type \in Envelopes, SlackSays(s, type)
       PROVE  Safe' /\ NoEarlyMessage'
  <2>1. Safe'
    BY <1>21, SocketAssumption DEF TypeOK, SingleFlight, NeverStalled,
       QuietAfterStop, NoUnreadSocket, SlackSays, slackUnchanged
  <2>2. NoEarlyMessage'
    BY <1>21 DEF TypeOK, NoEarlyMessage, SlackSays, Post, Msg, Message,
       slackUnchanged
  <2> QED  BY <2>1, <2>2
<1>22. CASE EventHappens
  <2>1. Safe'
    BY <1>22, SocketAssumption DEF TypeOK, SingleFlight, NeverStalled,
       QuietAfterStop, NoUnreadSocket, EventHappens, slackUnchanged
  <2>2. NoEarlyMessage'
    BY <1>22, PostKeepsOrder DEF TypeOK, MsgType, NoEarlyMessage, EventHappens,
       slackUnchanged
  <2> QED  BY <2>1, <2>2
<1>23. ASSUME NEW s \in Socket, ConnectionEnds(s) PROVE Safe' /\ NoEarlyMessage'
  <2>1. SingleFlight' /\ NeverStalled' /\ QuietAfterStop'
    BY <1>23, SocketAssumption DEF TypeOK, SingleFlight, NeverStalled,
       QuietAfterStop, NoUnreadSocket, ConnectionEnds, slackUnchanged
  <2>2. NoUnreadSocket'
    BY <1>23, SocketAssumption DEF TypeOK, SingleFlight, NoUnreadSocket,
       NoEarlyMessage, ConnectionEnds, slackUnchanged
  <2>3. NoEarlyMessage'
    BY <1>23 DEF TypeOK, NoEarlyMessage, ConnectionEnds, Post, Msg, Message,
       slackUnchanged
  <2> QED  BY <2>1, <2>2, <2>3
<1>24. ASSUME NEW s \in Socket, DiesSilently(s) PROVE Safe' /\ NoEarlyMessage'
  <2>1. SingleFlight' /\ NeverStalled' /\ QuietAfterStop'
    BY <1>24, SocketAssumption DEF TypeOK, SingleFlight, NeverStalled,
       QuietAfterStop, NoUnreadSocket, DiesSilently, slackUnchanged
  <2>2. NoUnreadSocket'
    BY <1>24, SocketAssumption DEF TypeOK, SingleFlight, NoUnreadSocket,
       NoEarlyMessage, DiesSilently, slackUnchanged
  <2>3. NoEarlyMessage'
    BY <1>24 DEF TypeOK, NoEarlyMessage, DiesSilently, Message, slackUnchanged
  <2> QED  BY <2>1, <2>2, <2>3
<1>25. ASSUME NEW s \in Socket, Destroy(s) PROVE Safe' /\ NoEarlyMessage'
  <2>1. SingleFlight' /\ NeverStalled' /\ QuietAfterStop'
    BY <1>25, SocketAssumption DEF TypeOK, SingleFlight, NeverStalled,
       QuietAfterStop, NoUnreadSocket, Destroy, slackUnchanged
  <2>2. NoUnreadSocket'
    BY <1>25, SocketAssumption DEF TypeOK, SingleFlight, NoUnreadSocket,
       NoEarlyMessage, Destroy, slackUnchanged
  <2>3. NoEarlyMessage'
    BY <1>25 DEF TypeOK, NoEarlyMessage, Destroy, Message, slackUnchanged
  <2> QED  BY <2>1, <2>2, <2>3
<1>26. ASSUME NEW s \in Socket, SlackForgets(s) PROVE Safe' /\ NoEarlyMessage'
  BY <1>26, SocketAssumption DEF TypeOK, SingleFlight, NeverStalled, QuietAfterStop,
     NoUnreadSocket, NoEarlyMessage, SlackForgets, slackUnchanged
<1>27. CASE UNCHANGED vars
  BY <1>27 DEF SingleFlight, NeverStalled, QuietAfterStop, NoUnreadSocket,
     NoEarlyMessage, vars
<1> QED  BY <1>1, <1>2, <1>3, <1>4, <1>5, <1>6, <1>7, <1>8, <1>9, <1>10, <1>11,
   <1>12, <1>13, <1>14, <1>15, <1>16, <1>17, <1>18, <1>19, <1>20, <1>21, <1>22,
   <1>23, <1>24, <1>25, <1>26, <1>27 DEF Next, Calls, Timers, Answers, Turn,
   Dispatch, World

\* The inductive invariant holds in every reachable state.
THEOREM Invariant == Spec => []IInv
<1>1. Init => IInv
  <2>1. Init => TypeOK
    BY TypeInit
  <2> QED  BY <2>1, SocketAssumption DEF Init, IInv, SingleFlight, NeverStalled,
            NoUnreadSocket, QuietAfterStop, NoEarlyMessage, Held, connected
<1> QED  BY <1>1, InvariantStep, PTL DEF Spec

\* One connect cycle at a time, for every number of sockets and calls.
THEOREM SingleFlightHolds == Spec => []SingleFlight
BY Invariant, PTL DEF IInv

\* A started socket that is down always has its recovery on the way.
THEOREM NeverStalledHolds == Spec => []NeverStalled
BY Invariant, PTL DEF IInv

\* No connection of ours is ever left unread.
THEOREM NoUnreadSocketHolds == Spec => []NoUnreadSocket
BY Invariant, PTL DEF IInv

\* stop() leaves nothing of the connection behind.
THEOREM QuietAfterStopHolds == Spec => []QuietAfterStop
BY Invariant, PTL DEF IInv

-----------------------------------------------------------------------------
(* The backoff. *)

\* scheduleReconnect never shortens the wait it was given.
LEMMA ScheduleReconnectGrows ==
  ASSUME NEW base \in BackoffMin..BackoffMax, ScheduleReconnect(base)
  PROVE  backoff' \in Int /\ backoff' >= base
  BY BoundsAssumption DEF ScheduleReconnect, Longer, Smaller

\* No step shortens the backoff but after a durable connection or a kick.
LEMMA BackoffStep ==
  TypeOK /\ [Next]_vars => (backoff' < backoff => durable \/ kicks' # kicks)
<1> SUFFICES ASSUME TypeOK, Next, ~durable, kicks' = kicks PROVE ~(backoff' < backoff)
  BY DEF vars, TypeOK
<1>0. backoff \in BackoffMin..BackoffMax /\ backoff \in Int /\ kicks \in Int
  BY BoundsAssumption DEF TypeOK
<1>1. CASE Calls
  BY <1>0, <1>1 DEF Calls, Start, Stop, EnsureConnected, ReconnectNow, NetworkBack,
     WakeFromSuspend, Kick
<1>2. CASE Timers
  BY <1>0, <1>2 DEF Timers, ReconnectTimerFires, Elapse
<1>3. CASE Answers
  BY <1>0, <1>3, ScheduleReconnectGrows DEF Answers, OpenFails, OpenSucceeds
<1>4. CASE Turn
  <2>1. ASSUME NEW s \in Socket, OnClosedLive(s) PROVE ~(backoff' < backoff)
    <3>1. BackoffAfter = backoff
      BY DEF BackoffAfter
    <3> QED  BY <1>0, <2>1, <3>1, ScheduleReconnectGrows DEF OnClosedLive
  <2>2. ASSUME NEW s \in Socket, OnClosedPending(s) PROVE ~(backoff' < backoff)
    BY <1>0, <2>2, ScheduleReconnectGrows DEF OnClosedPending
  <2> QED  BY <1>0, <1>4, <2>1, <2>2 DEF Turn, Unheard, Dispatch, OnOpen, OnHello,
            OnWarning, OnDisconnect, OnEvent
<1>5. CASE World
  BY <1>0, <1>5 DEF World, ConnectOk, ConnectFails, SlackSays, EventHappens,
     ConnectionEnds, DiesSilently, Destroy, SlackForgets, slackUnchanged
<1> QED  BY <1>1, <1>2, <1>3, <1>4, <1>5 DEF Next

\* The reconnect backoff holds for every pair of bounds.
THEOREM BackoffHoldsAlways == Spec => BackoffHolds
BY TypeCorrect, BackoffStep, PTL DEF Spec, BackoffHolds

-----------------------------------------------------------------------------
(* The gaps: what makes up for an event that was missed. *)

\* A reader posts its hello behind its Opened, and nothing behind its Closed.
WaitingIn(q, s, type) == \E i \in 1..Len(q) : q[i].socket = s /\ q[i].type = type
Follows(q) ==
  \A i \in 1..Len(q) : q[i].type = "opened" =>
    \E j \in 1..Len(q) : j > i /\ q[j].socket = q[i].socket /\ q[j].type = "hello"
Final(q) == \A i, j \in 1..Len(q) : i < j /\ q[i].socket = q[j].socket => q[i].type # "closed"
Ended(q, c) == \A s \in Socket : WaitingIn(q, s, "closed") => c[s] \in {"closed", "retired"}
Ordered == Follows(loop) /\ Final(loop) /\ Ended(loop, conn)

\* Slack counts every connection that is up, and no socket of ours before it is.
Counted ==
  /\ \A s \in Socket : conn[s] \in {"open", "closing"} => s \in served
  /\ pending \in served => WaitingIn(loop, pending, "opened")

\* While the sinks do not know of a miss, the live socket is gone or its hello is to
\* come, or the socket that replaces it has opened.
Healing ==
  missed /\ connected =>
    \/ conn[ws] \in {"dead", "closed"} \/ WaitingIn(loop, ws, "hello")
    \/ pending # NoSocket /\ WaitingIn(loop, pending, "opened")

Gaps == Ordered /\ Counted /\ (missed => hadHello) /\ Healing

\* Taking the oldest message: the others wait on, a hello behind its Opened.
LEMMA TailOf ==
  ASSUME NEW q \in Seq(Message), q # <<>>, Follows(q), Final(q)
  PROVE  /\ Follows(Tail(q)) /\ Final(Tail(q))
         /\ \A s, t : WaitingIn(q, s, t) <=>
                        WaitingIn(Tail(q), s, t) \/ (Head(q).socket = s /\ Head(q).type = t)
         /\ Head(q).type = "opened" => WaitingIn(Tail(q), Head(q).socket, "hello")
         /\ Head(q).type = "closed" => \A t : ~WaitingIn(Tail(q), Head(q).socket, t)
<1> DEFINE r == Tail(q)
           h == Head(q)
<1>1. /\ r \in Seq(Message) /\ Len(q) \in Nat \ {0} /\ Len(r) = Len(q) - 1 /\ h = q[1] /\ 1 \in 1..Len(q)
      /\ \A i \in 1..Len(r) : i + 1 \in 1..Len(q) /\ r[i] = q[i + 1]
  OBVIOUS
<1> HIDE DEF r, h
<1>2. \A i \in 1..Len(q) : i = 1 \/ (i - 1 \in 1..Len(r) /\ r[i - 1] = q[i])
  BY <1>1
<1>3. Follows(r)
  <2> SUFFICES ASSUME NEW i \in 1..Len(r), r[i].type = "opened"
               PROVE  \E j \in 1..Len(r) : j > i /\ r[j].socket = r[i].socket /\ r[j].type = "hello"
    BY DEF Follows
  <2>1. PICK k \in 1..Len(q) : k > i + 1 /\ q[k].socket = q[i + 1].socket /\ q[k].type = "hello"
    BY <1>1 DEF Follows
  <2>2. k - 1 \in 1..Len(r) /\ k - 1 > i /\ r[k - 1] = q[k]
    BY <1>1, <1>2, <2>1
  <2> QED  BY <1>1, <2>1, <2>2
<1>4. Final(r)
  <2> SUFFICES ASSUME NEW i \in 1..Len(r), NEW j \in 1..Len(r), i < j, r[i].socket = r[j].socket
               PROVE  r[i].type # "closed"
    BY DEF Final
  <2>1. i + 1 \in 1..Len(q) /\ j + 1 \in 1..Len(q) /\ i + 1 < j + 1 /\ r[i] = q[i + 1] /\ r[j] = q[j + 1]
    BY <1>1
  <2> QED  BY <2>1 DEF Final
<1>5. ASSUME NEW s, NEW t
      PROVE  WaitingIn(q, s, t) <=> WaitingIn(r, s, t) \/ (h.socket = s /\ h.type = t)
  <2>1. WaitingIn(q, s, t) => WaitingIn(r, s, t) \/ (h.socket = s /\ h.type = t)
    BY <1>1, <1>2 DEF WaitingIn
  <2>2. WaitingIn(r, s, t) => WaitingIn(q, s, t)
    BY <1>1 DEF WaitingIn
  <2>3. h.socket = s /\ h.type = t => WaitingIn(q, s, t)
    BY <1>1 DEF WaitingIn
  <2> QED  BY <2>1, <2>2, <2>3
<1>6. h.type = "opened" => WaitingIn(r, h.socket, "hello")
  <2> SUFFICES ASSUME h.type = "opened" PROVE WaitingIn(r, h.socket, "hello")
    OBVIOUS
  <2>1. PICK k \in 1..Len(q) : k > 1 /\ q[k].socket = h.socket /\ q[k].type = "hello"
    BY <1>1 DEF Follows
  <2>2. k - 1 \in 1..Len(r) /\ r[k - 1] = q[k]
    BY <1>1, <1>2, <2>1
  <2> QED  BY <2>1, <2>2 DEF WaitingIn
<1>7. ASSUME h.type = "closed", NEW t PROVE ~WaitingIn(r, h.socket, t)
  <2> SUFFICES ASSUME NEW i \in 1..Len(r), r[i].socket = h.socket PROVE FALSE
    BY DEF WaitingIn
  <2>1. i + 1 \in 1..Len(q) /\ 1 < i + 1 /\ r[i] = q[i + 1]
    BY <1>1
  <2> QED  BY <1>1, <1>7, <2>1 DEF Final
<1> QED  BY <1>3, <1>4, <1>5, <1>6, <1>7 DEF r, h

\* A message of a socket whose Closed is not posted.
LEMMA PostOf ==
  ASSUME NEW q \in Seq(Message), Follows(q), Final(q), NEW m \in Message, m.type # "opened",
         ~WaitingIn(q, m.socket, "closed")
  PROVE  /\ Follows(Append(q, m)) /\ Final(Append(q, m))
         /\ \A s, t : WaitingIn(Append(q, m), s, t) <=>
                        WaitingIn(q, s, t) \/ (m.socket = s /\ m.type = t)
<1> DEFINE r == Append(q, m)
           n == Len(q)
<1>1. /\ Len(r) = n + 1 /\ n \in Nat /\ r[n + 1] = m /\ \A i \in 1..n : r[i] = q[i]
  BY AppendProperties
<1>2. \A i \in 1..Len(r) : i \in 1..n \/ i = n + 1
  BY <1>1
<1>l. n = Len(q)
  OBVIOUS
<1> HIDE DEF r, n
<1>3. Follows(r)
  <2> SUFFICES ASSUME NEW i \in 1..Len(r), r[i].type = "opened"
               PROVE  \E j \in 1..Len(r) : j > i /\ r[j].socket = r[i].socket /\ r[j].type = "hello"
    BY DEF Follows
  <2>1. i \in 1..n /\ r[i] = q[i]
    BY <1>1, <1>2
  <2>2. PICK j \in 1..n : j > i /\ q[j].socket = q[i].socket /\ q[j].type = "hello"
    BY <1>l, <2>1 DEF Follows
  <2> QED  BY <1>1, <2>1, <2>2
<1>4. Final(r)
  <2> SUFFICES ASSUME NEW i \in 1..Len(r), NEW j \in 1..Len(r), i < j, r[i].socket = r[j].socket
               PROVE  r[i].type # "closed"
    BY DEF Final
  <2>1. i \in 1..n /\ r[i] = q[i]
    BY <1>1, <1>2
  <2>2. CASE j \in 1..n
    BY <1>1, <1>l, <2>1, <2>2 DEF Final
  <2>3. CASE j = n + 1
    BY <1>1, <1>l, <2>1, <2>3 DEF WaitingIn
  <2> QED  BY <1>2, <2>2, <2>3
<1>5. ASSUME NEW s, NEW t
      PROVE  WaitingIn(r, s, t) <=> WaitingIn(q, s, t) \/ (m.socket = s /\ m.type = t)
  <2>1. WaitingIn(r, s, t) => WaitingIn(q, s, t) \/ (m.socket = s /\ m.type = t)
    BY <1>1, <1>2, <1>l DEF WaitingIn
  <2>2. WaitingIn(q, s, t) => WaitingIn(r, s, t)
    BY <1>1, <1>l DEF WaitingIn
  <2>3. m.socket = s /\ m.type = t => WaitingIn(r, s, t)
    <3>1. n + 1 \in 1..Len(r)
      BY <1>1
    <3> QED  BY <1>1, <3>1 DEF WaitingIn
  <2> QED  BY <2>1, <2>2, <2>3
<1> QED  BY <1>3, <1>4, <1>5 DEF r

\* The handshake's end: Opened and hello, one behind the other.
LEMMA HelloOf ==
  ASSUME NEW q \in Seq(Message), Follows(q), Final(q), NEW o \in Message, NEW h \in Message,
         o.type = "opened", h.type = "hello", h.socket = o.socket, ~WaitingIn(q, o.socket, "closed")
  PROVE  /\ Follows(q \o <<o, h>>) /\ Final(q \o <<o, h>>)
         /\ WaitingIn(q \o <<o, h>>, o.socket, "opened")
         /\ \A s, t : WaitingIn(q, s, t) => WaitingIn(q \o <<o, h>>, s, t)
         /\ \A s : WaitingIn(q \o <<o, h>>, s, "closed") => WaitingIn(q, s, "closed")
<1> DEFINE r == q \o <<o, h>>
           n == Len(q)
<1>1. /\ Len(r) = n + 2 /\ n \in Nat /\ r[n + 1] = o /\ r[n + 2] = h /\ \A i \in 1..n : r[i] = q[i]
  OBVIOUS
<1>l. n = Len(q)
  OBVIOUS
<1> HIDE DEF r, n
<1>2. /\ \A i \in 1..Len(r) : i \in 1..n \/ i = n + 1 \/ i = n + 2
      /\ n + 1 \in 1..Len(r) /\ n + 2 \in 1..Len(r) /\ \A i \in 1..n : i \in 1..Len(r)
  BY <1>1
<1>3. Follows(r)
  <2> SUFFICES ASSUME NEW i \in 1..Len(r), r[i].type = "opened"
               PROVE  \E j \in 1..Len(r) : j > i /\ r[j].socket = r[i].socket /\ r[j].type = "hello"
    BY DEF Follows
  <2>1. CASE i \in 1..n
    <3>1. PICK j \in 1..n : j > i /\ q[j].socket = q[i].socket /\ q[j].type = "hello"
      BY <1>1, <1>l, <2>1 DEF Follows
    <3> QED  BY <1>1, <1>2, <2>1, <3>1
  <2>2. CASE i = n + 1
    <3>1. n + 2 > i
      BY <1>1, <2>2
    <3> QED  BY <1>1, <1>2, <2>2, <3>1
  <2>3. CASE i = n + 2
    BY <1>1, <2>3
  <2> QED  BY <1>2, <2>1, <2>2, <2>3
<1>4. Final(r)
  <2> SUFFICES ASSUME NEW i \in 1..Len(r), NEW j \in 1..Len(r), i < j, r[i].socket = r[j].socket,
                      r[i].type = "closed"
               PROVE  FALSE
    BY DEF Final
  <2>1. i \in 1..n /\ r[i] = q[i]
    BY <1>1, <1>2
  <2>2. CASE j \in 1..n
    BY <1>1, <1>l, <2>1, <2>2 DEF Final
  <2>3. CASE j = n + 1 \/ j = n + 2
    <3>1. r[j].socket = o.socket
      BY <1>1, <2>3
    <3> QED  BY <1>l, <2>1, <3>1 DEF WaitingIn
  <2> QED  BY <1>2, <2>2, <2>3
<1>5. WaitingIn(r, o.socket, "opened")
  BY <1>1, <1>2 DEF WaitingIn
<1>6. ASSUME NEW s, NEW t, WaitingIn(q, s, t) PROVE WaitingIn(r, s, t)
  BY <1>1, <1>2, <1>6, <1>l DEF WaitingIn
<1>7. ASSUME NEW s, WaitingIn(r, s, "closed") PROVE WaitingIn(q, s, "closed")
  <2>1. PICK i \in 1..Len(r) : r[i].socket = s /\ r[i].type = "closed"
    BY <1>7 DEF WaitingIn
  <2>2. i \in 1..n /\ r[i] = q[i]
    BY <1>1, <1>2, <2>1
  <2> QED  BY <1>l, <2>1, <2>2 DEF WaitingIn
<1> QED  BY <1>3, <1>4, <1>5, <1>6, <1>7 DEF r

\* The order outlives a step that posts nothing and takes at most the oldest message.
LEMMA OrderedKept ==
  ASSUME TypeOK, Ordered,
         loop' = loop \/ (loop # <<>> /\ loop' = Tail(loop)),
         \A s \in Socket : conn[s] \in {"closed", "retired"} /\ WaitingIn(loop, s, "closed")
                             => conn'[s] \in {"closed", "retired"}
  PROVE  Ordered'
<1>0. Follows(loop) /\ Final(loop) /\ Ended(loop, conn) /\ loop \in Seq(Message)
  BY DEF Ordered, TypeOK
<1>1. CASE loop' = loop
  BY <1>0, <1>1 DEF Ordered, Ended
<1>2. CASE loop # <<>> /\ loop' = Tail(loop)
  <2>1. Follows(Tail(loop)) /\ Final(Tail(loop))
    BY <1>0, <1>2, TailOf
  <2>2. \A s : WaitingIn(Tail(loop), s, "closed") => WaitingIn(loop, s, "closed")
    BY <1>0, <1>2, TailOf
  <2>3. Ended(loop', conn')
    BY <1>0, <1>2, <2>2 DEF Ended
  <2> QED  BY <1>2, <2>1, <2>3 DEF Ordered
<1> QED  BY <1>1, <1>2

\* ... and a post by a reader that has not ended; what waited still waits.
LEMMA OrderedPost ==
  ASSUME TypeOK, Ordered, NEW s \in Socket, NEW type \in MsgType, NEW n \in Nat,
         type # "opened", conn[s] \notin {"closed", "retired"}, Post(Msg(s, type, n)),
         \A x \in Socket : conn[x] \in {"closed", "retired"} => conn'[x] = conn[x],
         type = "closed" => conn'[s] = "closed"
  PROVE  Ordered' /\ \A x, t : WaitingIn(loop, x, t) => WaitingIn(loop', x, t)
<1> DEFINE m == Msg(s, type, n)
<1>0. Follows(loop) /\ Final(loop) /\ Ended(loop, conn) /\ loop \in Seq(Message)
  BY DEF Ordered, TypeOK
<1>1. m \in Message /\ m.socket = s /\ m.type = type /\ loop' = Append(loop, m)
  BY DEF Msg, Message, Post
<1> HIDE DEF m
<1>2. ~WaitingIn(loop, m.socket, "closed")
  BY <1>0, <1>1 DEF Ended
<1>3. Follows(loop') /\ Final(loop')
  BY <1>0, <1>1, <1>2, PostOf
<1>4. \A x, t : WaitingIn(loop', x, t) <=> WaitingIn(loop, x, t) \/ (m.socket = x /\ m.type = t)
  BY <1>0, <1>1, <1>2, PostOf
<1>5. Ended(loop', conn')
  BY <1>0, <1>1, <1>4 DEF Ended
<1> QED  BY <1>3, <1>4, <1>5 DEF Ordered

\* A step of the client that leaves the sockets and the loop alone.
LEMMA GapsSame ==
  ASSUME Gaps, UNCHANGED <<loop, conn, served, ws, pending, missed, hadHello>>
  PROVE  Gaps'
BY DEF Gaps, Ordered, Follows, Final, Ended, WaitingIn, Counted, Healing, connected

\* A teardown leaves nothing live: whatever it dropped waits for the next hello.
LEMMA TeardownGaps ==
  ASSUME IInv, Gaps, Teardown, UNCHANGED <<served, hadHello>>
  PROVE  Gaps'
<1>0. TypeOK /\ NoUnreadSocket /\ ws' = NoSocket /\ pending' = NoSocket /\ loop' = loop
      /\ conn' = Retired(Held) /\ missed' = DroppedBy(Held)
  BY DEF IInv, Teardown
<1>1. \A s \in Socket : conn'[s] = IF s \in Held THEN "retired" ELSE conn[s]
  BY <1>0 DEF Retired
<1>2. Ordered'
  BY <1>0, <1>1, OrderedKept DEF Gaps
<1>3. Counted'
  <2>1. NoSocket \notin served
    BY <1>0, SocketAssumption DEF TypeOK
  <2> QED  BY <1>0, <1>1, <2>1 DEF Gaps, Counted
<1>4. missed' => hadHello'
  BY <1>0 DEF Gaps, DroppedBy
<1>5. Healing'
  BY <1>0 DEF Healing, connected
<1> QED  BY <1>2, <1>3, <1>4, <1>5 DEF Gaps

\* Taking a message that is no live socket's Opened or hello.
LEMMA TakeGaps ==
  ASSUME IInv, Gaps, loop # <<>>, loop' = Tail(loop),
         Head(loop).socket \notin Held \/ Head(loop).type \notin {"opened", "hello"},
         conn' \in [Socket -> ConnState],
         \A s \in Socket : conn'[s] = conn[s] \/ (conn[s] = "open" /\ conn'[s] = "closing"),
         UNCHANGED <<served, ws, pending, missed, hadHello>>
  PROVE  Gaps'
<1>0. TypeOK /\ loop \in Seq(Message) /\ Ordered /\ Follows(loop) /\ Final(loop)
  BY DEF IInv, Gaps, Ordered, TypeOK
<1>1. Ordered'
  BY <1>0, OrderedKept
<1>2. \A s, t : WaitingIn(loop, s, t) => WaitingIn(loop', s, t) \/ (Head(loop).socket = s /\ Head(loop).type = t)
  BY <1>0, TailOf
<1>3. \A s \in Held, t \in {"opened", "hello"} : WaitingIn(loop, s, t) => WaitingIn(loop', s, t)
  BY <1>2
<1>4. Counted'
  <2>1. pending \in served => pending \in Held
    BY <1>0, SocketAssumption DEF TypeOK, Held
  <2>2. pending' \in served' => WaitingIn(loop', pending', "opened")
    BY <1>3, <2>1 DEF Gaps, Counted
  <2>3. \A s \in Socket : conn'[s] \in {"open", "closing"} => s \in served'
    BY DEF Gaps, Counted
  <2> QED  BY <2>2, <2>3 DEF Counted
<1>5. Healing'
  <2> SUFFICES ASSUME missed, connected
               PROVE  \/ conn'[ws] \in {"dead", "closed"} \/ WaitingIn(loop', ws, "hello")
                      \/ pending # NoSocket /\ WaitingIn(loop', pending, "opened")
    BY DEF Healing, connected
  <2>1. ws \in Socket /\ ws \in Held
    BY <1>0 DEF TypeOK, connected, Held
  <2>2. pending # NoSocket => pending \in Held
    BY DEF Held
  <2>3. conn[ws] \in {"dead", "closed"} => conn'[ws] \in {"dead", "closed"}
    BY <2>1
  <2> QED  BY <1>3, <2>1, <2>2, <2>3 DEF Gaps, Healing
<1> QED  BY <1>1, <1>4, <1>5 DEF Gaps

\* A hello tells the sinks to backfill: nothing is missed any more.
LEMMA HelloGaps ==
  ASSUME IInv, Gaps, NEW s \in Socket, OnHello(s) PROVE Gaps'
<1>0. TypeOK /\ loop \in Seq(Message) /\ Ordered /\ Follows(loop) /\ Final(loop)
      /\ loop # <<>> /\ Head(loop).socket = s /\ Head(loop).type = "hello" /\ loop' = Tail(loop)
      /\ conn' = conn /\ served' = served /\ pending' = pending
  BY DEF IInv, Gaps, Ordered, TypeOK, OnHello, Take
<1>1. Ordered'
  BY <1>0, OrderedKept
<1>2. Counted'
  <2>1. WaitingIn(loop, pending, "opened") => WaitingIn(loop', pending, "opened")
    <3>1. \A x, t : WaitingIn(loop, x, t) => WaitingIn(loop', x, t) \/ (Head(loop).socket = x /\ Head(loop).type = t)
      BY <1>0, TailOf
    <3> QED  BY <1>0, <3>1
  <2> QED  BY <1>0, <2>1 DEF Gaps, Counted
<1>3. ~missed'
  BY DEF Gaps, OnHello, Backfills
<1> QED  BY <1>1, <1>2, <1>3 DEF Gaps, Healing

\* A socket that is promoted brings its hello, right behind its Opened.
LEMMA OpenGaps ==
  ASSUME IInv, Gaps, NEW s \in Socket, OnOpen(s) PROVE Gaps'
<1>0. TypeOK /\ loop \in Seq(Message) /\ Ordered /\ Follows(loop) /\ Final(loop)
      /\ loop # <<>> /\ Head(loop).socket = s /\ Head(loop).type = "opened" /\ loop' = Tail(loop)
      /\ conn' = Retired({ws}) /\ served' = served /\ pending' = NoSocket /\ ws' = s
      /\ hadHello' = hadHello /\ missed' = DroppedBy({ws})
  BY DEF IInv, Gaps, Ordered, TypeOK, OnOpen, Take, Replaced
<1>1. \A x \in Socket : conn'[x] = IF x = ws THEN "retired" ELSE conn[x]
  BY <1>0 DEF Retired
<1>2. Ordered'
  BY <1>0, <1>1, OrderedKept
<1>3. Counted'
  <2>1. NoSocket \notin served
    BY <1>0, SocketAssumption DEF TypeOK
  <2> QED  BY <1>0, <1>1, <2>1 DEF Gaps, Counted
<1>4. missed' => hadHello'
  BY <1>0 DEF Gaps, DroppedBy
<1>5. WaitingIn(loop', ws', "hello")
  BY <1>0, TailOf
<1> QED  BY <1>2, <1>3, <1>4, <1>5 DEF Gaps, Healing

\* A replacement that failed had not opened: what made up for the miss still does.
LEMMA ClosedPendingGaps ==
  ASSUME IInv, Gaps, NEW s \in Socket, OnClosedPending(s) PROVE Gaps'
<1>0. TypeOK /\ NoUnreadSocket /\ loop \in Seq(Message) /\ Ordered /\ Follows(loop) /\ Final(loop)
      /\ loop # <<>> /\ Head(loop).socket = s /\ Head(loop).type = "closed" /\ loop' = Tail(loop)
      /\ conn' = Retired({s}) /\ served' = served /\ pending = s /\ pending' = NoSocket /\ ws' = ws
      /\ hadHello' = hadHello /\ missed' = missed
  BY DEF IInv, Gaps, Ordered, TypeOK, OnClosedPending, Take
<1>1. \A x \in Socket : conn'[x] = IF x = s THEN "retired" ELSE conn[x]
  BY <1>0 DEF Retired
<1>2. Ordered'
  BY <1>0, <1>1, OrderedKept
<1>3. Counted'
  <2>1. NoSocket \notin served
    BY <1>0, SocketAssumption DEF TypeOK
  <2> QED  BY <1>0, <1>1, <2>1 DEF Gaps, Counted
<1>4. Healing'
  <2> SUFFICES ASSUME missed, connected
               PROVE  conn'[ws] \in {"dead", "closed"} \/ WaitingIn(loop', ws, "hello")
    BY <1>0 DEF Healing, connected
  <2>1. ws \in Socket /\ ws # s
    BY <1>0 DEF TypeOK, connected, NoUnreadSocket
  <2>2. \A x, t : WaitingIn(loop, x, t) => WaitingIn(loop', x, t) \/ (Head(loop).socket = x /\ Head(loop).type = t)
    BY <1>0, TailOf
  <2>3. ~WaitingIn(loop, s, "opened")
    <3>1. ~WaitingIn(loop', s, "opened")
      BY <1>0, TailOf
    <3> QED  BY <1>0, <2>2, <3>1
  <2>4. conn'[ws] = conn[ws]
    BY <1>1, <2>1
  <2> QED  BY <1>0, <2>1, <2>2, <2>3, <2>4 DEF Gaps, Healing
<1> QED  BY <1>0, <1>2, <1>3, <1>4 DEF Gaps

\* The live socket closed: the next one's hello is still to come.
LEMMA ClosedLiveGaps ==
  ASSUME IInv, Gaps, NEW s \in Socket, OnClosedLive(s) PROVE Gaps'
<1>0. TypeOK /\ NoUnreadSocket /\ loop \in Seq(Message) /\ Ordered /\ Follows(loop) /\ Final(loop)
      /\ loop # <<>> /\ Head(loop).socket = s /\ Head(loop).type = "closed" /\ loop' = Tail(loop)
      /\ conn' = Retired({s}) /\ served' = served /\ pending' = pending /\ ws = s /\ ws' = NoSocket
      /\ hadHello' = hadHello /\ missed' = missed
  BY DEF IInv, Gaps, Ordered, TypeOK, OnClosedLive, Take
<1>1. \A x \in Socket : conn'[x] = IF x = s THEN "retired" ELSE conn[x]
  BY <1>0 DEF Retired
<1>2. Ordered'
  BY <1>0, <1>1, OrderedKept
<1>3. Counted'
  <2>1. \A x, t : WaitingIn(loop, x, t) => WaitingIn(loop', x, t) \/ (Head(loop).socket = x /\ Head(loop).type = t)
    BY <1>0, TailOf
  <2>2. pending' \in served' => WaitingIn(loop', pending', "opened")
    BY <1>0, <2>1 DEF Gaps, Counted
  <2>3. \A x \in Socket : conn'[x] \in {"open", "closing"} => x \in served'
    BY <1>0, <1>1 DEF Gaps, Counted
  <2> QED  BY <2>2, <2>3 DEF Counted
<1>4. Healing'
  BY <1>0 DEF Healing, connected
<1> QED  BY <1>0, <1>2, <1>3, <1>4 DEF Gaps

\* A new socket comes up in an empty place: nothing of it waits, and Slack does not
\* count it.
LEMMA ComesUpGaps ==
  ASSUME IInv, Gaps, NEW r \in Request, OpenSucceeds(r) PROVE Gaps'
<1>0. TypeOK /\ NoUnreadSocket /\ NoEarlyMessage /\ SingleFlight /\ loop \in Seq(Message) /\ Ordered
      /\ loop' = loop /\ served' = served /\ ws' = ws /\ hadHello' = hadHello /\ missed' = DroppedBy({pending})
  BY DEF IInv, Gaps, TypeOK, OpenSucceeds, Answered
<1>1. pending = NoSocket
  BY <1>0 DEF SingleFlight, TypeOK, OpenSucceeds, Answered
<1>2. PICK s \in Socket \ served :
        conn[s] = "free" /\ pending' = s /\ conn' = [Retired({pending}) EXCEPT ![s] = "connecting"]
  BY DEF OpenSucceeds
<1>3. \A x \in Socket : conn'[x] = IF x = s THEN "connecting" ELSE conn[x]
  BY <1>0, <1>1, <1>2, SocketAssumption DEF Retired
<1>4. \A i \in 1..Len(loop) : loop[i].socket \in Socket /\ loop[i].socket # s
  <2> TAKE i \in 1..Len(loop)
  <2>1. loop[i] \in Message
    BY <1>0
  <2>2. loop[i].socket \in Socket
    BY <2>1 DEF Message
  <2> QED  BY <1>0, <1>2, <2>2 DEF NoEarlyMessage
<1>5. Ordered'
  <2>1. \A t : ~WaitingIn(loop, s, t)
    BY <1>4 DEF WaitingIn
  <2> QED  BY <1>0, <1>3, <2>1, OrderedKept
<1>6. Counted'
  <2>1. pending' \notin served'
    BY <1>0, <1>2
  <2>2. ASSUME NEW x \in Socket, conn'[x] \in {"open", "closing"} PROVE x \in served'
    <3>1. conn[x] = conn'[x]
      BY <1>3, <2>2
    <3> QED  BY <1>0, <2>2, <3>1 DEF Gaps, Counted
  <2> QED  BY <2>1, <2>2 DEF Counted
<1>7. missed' = missed
  <2>1. ~Waiting(NoSocket, "event")
    BY <1>4, SocketAssumption DEF Waiting
  <2> QED  BY <1>0, <1>1, <2>1 DEF DroppedBy, TypeOK
<1>8. Healing'
  <2> SUFFICES ASSUME missed, connected
               PROVE  conn'[ws] \in {"dead", "closed"} \/ WaitingIn(loop, ws, "hello")
    BY <1>0, <1>7 DEF Healing, connected
  <2>1. ws \in Socket /\ (conn[ws] \in {"dead", "closed"} => conn'[ws] = conn[ws])
    BY <1>0, <1>2, <1>3 DEF TypeOK, connected
  <2> QED  BY <1>1, <2>1 DEF Gaps, Healing
<1> QED  BY <1>0, <1>5, <1>6, <1>7, <1>8 DEF Gaps

\* A step beside the client's own: what makes up for a miss outlives it, for a dead
\* socket stays dead until the client hears of it, and what waits goes on waiting.
LEMMA HealingKept ==
  ASSUME IInv, Gaps, UNCHANGED <<ws, pending, hadHello>>, missed' = missed,
         \A s \in Socket : conn[s] \in {"dead", "closed"} /\ s \in Held => conn'[s] \in {"dead", "closed"},
         \A s, t : WaitingIn(loop, s, t) => WaitingIn(loop', s, t)
  PROVE  (missed' => hadHello') /\ Healing'
<1>1. missed' => hadHello'
  BY DEF Gaps
<1>2. Healing'
  <2> SUFFICES ASSUME missed, connected
               PROVE  \/ conn'[ws] \in {"dead", "closed"} \/ WaitingIn(loop', ws, "hello")
                      \/ pending # NoSocket /\ WaitingIn(loop', pending, "opened")
    BY DEF Healing, connected
  <2>1. ws \in Socket /\ ws \in Held
    BY DEF IInv, TypeOK, connected, Held
  <2> QED  BY <2>1 DEF Gaps, Healing
<1> QED  BY <1>1, <1>2

\* The handshake ends well: Slack counts the socket, whose Opened and hello wait.
LEMMA ConnectOkGaps ==
  ASSUME IInv, Gaps, NEW s \in Socket, ConnectOk(s) PROVE Gaps'
<1>0. TypeOK /\ loop \in Seq(Message) /\ Ordered /\ Follows(loop) /\ Final(loop) /\ Ended(loop, conn)
      /\ conn[s] = "connecting" /\ conn' = [conn EXCEPT ![s] = "open"] /\ served' = served \union {s}
      /\ UNCHANGED <<ws, pending, hadHello>> /\ missed' = missed
  BY DEF IInv, Gaps, Ordered, TypeOK, ConnectOk, slackUnchanged
<1>1. PICK foreign \in 0..MaxForeign :
        loop' = loop \o <<Msg(s, "opened", 0), Msg(s, "hello", Cardinality(served') + foreign)>>
  BY DEF ConnectOk
<1>2. Cardinality(served') + foreign \in Nat
  <2>1. served' \in SUBSET Socket
    BY <1>0 DEF TypeOK
  <2> QED  BY <2>1, ServedCount, BoundsAssumption
<1> DEFINE o == Msg(s, "opened", 0)
           h == Msg(s, "hello", Cardinality(served') + foreign)
<1>3. o \in Message /\ h \in Message /\ o.type = "opened" /\ h.type = "hello"
      /\ h.socket = o.socket /\ o.socket = s /\ loop' = loop \o <<o, h>>
  BY <1>1, <1>2 DEF Msg, Message, MsgType
<1>4. \A x \in Socket : conn'[x] = IF x = s THEN "open" ELSE conn[x]
  BY <1>0 DEF TypeOK
<1> HIDE DEF o, h
<1>5. ~WaitingIn(loop, o.socket, "closed")
  BY <1>0, <1>3 DEF Ended
<1>6. Follows(loop') /\ Final(loop') /\ WaitingIn(loop', s, "opened")
  BY <1>0, <1>3, <1>5, HelloOf
<1>7. \A x, t : WaitingIn(loop, x, t) => WaitingIn(loop', x, t)
  BY <1>0, <1>3, <1>5, HelloOf
<1>8. \A x : WaitingIn(loop', x, "closed") => WaitingIn(loop, x, "closed")
  BY <1>0, <1>3, <1>5, HelloOf
<1>9. Ordered'
  <2>1. Ended(loop', conn')
    BY <1>0, <1>4, <1>8 DEF Ended
  <2> QED  BY <1>6, <2>1 DEF Ordered
<1>10. Counted'
  <2>1. \A x \in Socket : conn'[x] \in {"open", "closing"} => x \in served'
    BY <1>0, <1>4 DEF Gaps, Counted
  <2>2. pending' \in served' => WaitingIn(loop', pending', "opened")
    BY <1>0, <1>6, <1>7 DEF Gaps, Counted
  <2> QED  BY <2>1, <2>2 DEF Counted
<1>11. (missed' => hadHello') /\ Healing'
  <2>1. \A x \in Socket : conn[x] \in {"dead", "closed"} => conn'[x] = conn[x]
    BY <1>0, <1>4
  <2> QED  BY <1>0, <1>7, <2>1, HealingKept
<1> QED  BY <1>9, <1>10, <1>11 DEF Gaps

\* A reader's or Slack's post that is no Opened: nothing else of the gaps moves.
LEMMA PostGaps ==
  ASSUME IInv, Gaps, NEW s \in Socket, NEW type \in MsgType, NEW n \in Nat,
         type # "opened", conn[s] \notin {"closed", "retired"}, Post(Msg(s, type, n)),
         \A x \in Socket : conn'[x] = conn[x] \/ (x = s /\ conn'[x] = "closed"),
         type = "closed" => conn'[s] = "closed",
         UNCHANGED <<ws, pending, hadHello>>, missed' = missed,
         served' = served \/ (served' = served \ {s} /\ conn'[s] = "closed")
  PROVE  Gaps'
<1>0. TypeOK /\ Ordered
  BY DEF IInv, Gaps
<1>1. \A x \in Socket : conn[x] \in {"closed", "retired"} => conn'[x] = conn[x]
  OBVIOUS
<1>2. Ordered' /\ \A x, t : WaitingIn(loop, x, t) => WaitingIn(loop', x, t)
  BY <1>0, <1>1, OrderedPost
<1>3. Counted'
  <2>1. ASSUME NEW x \in Socket, conn'[x] \in {"open", "closing"} PROVE x \in served'
    <3>1. conn[x] = conn'[x] /\ (x # s \/ served' = served)
      BY <2>1
    <3> QED  BY <2>1, <3>1 DEF Gaps, Counted
  <2>2. pending' \in served' => WaitingIn(loop', pending', "opened")
    BY <1>2 DEF Gaps, Counted
  <2> QED  BY <2>1, <2>2 DEF Counted
<1>4. (missed' => hadHello') /\ Healing'
  <2>1. \A x \in Socket : conn[x] \in {"dead", "closed"} => conn'[x] \in {"dead", "closed"}
    OBVIOUS
  <2> QED  BY <1>2, <2>1, HealingKept
<1> QED  BY <1>2, <1>3, <1>4 DEF Gaps

\* An event Slack routes where nobody hears it: to a connection that is gone, or to none.
LEMMA LostEventGaps ==
  ASSUME IInv, Gaps, missed' = hadHello, UNCHANGED <<loop, conn, served, ws, pending, hadHello>>,
         served = {} \/ \E s \in served : conn[s] \in {"dead", "closed"}
  PROVE  Gaps'
<1>0. TypeOK /\ NoUnreadSocket
  BY DEF IInv
<1>1. Ordered' /\ Counted'
  BY DEF Gaps, Ordered, Follows, Final, Ended, WaitingIn, Counted
<1>2. Healing'
  <2> SUFFICES ASSUME connected
               PROVE  \/ conn[ws] \in {"dead", "closed"}
                      \/ pending # NoSocket /\ WaitingIn(loop, pending, "opened")
    BY DEF Healing, connected, WaitingIn
  <2>1. /\ ws \in Socket /\ conn[ws] \in ConnState /\ conn[ws] # "connecting"
        /\ conn[ws] \notin {"free", "retired"}
    BY <1>0 DEF TypeOK, connected, NoUnreadSocket, Held
  <2>2. CASE served = {}
    BY <2>1, <2>2 DEF Gaps, Counted, ConnState
  <2>3. ASSUME NEW s \in served, conn[s] \in {"dead", "closed"}
        PROVE  \/ conn[ws] \in {"dead", "closed"}
               \/ pending # NoSocket /\ WaitingIn(loop, pending, "opened")
    <3>1. s \in Socket /\ s \in {ws, pending} /\ s # NoSocket
      BY <1>0, <2>3 DEF TypeOK, NoUnreadSocket, Held
    <3> QED  BY <2>3, <3>1 DEF Gaps, Counted
  <2> QED  BY <2>2, <2>3
<1> QED  BY <1>1, <1>2 DEF Gaps

\* A step of the world that posts nothing and loses nothing.
LEMMA SilentGaps ==
  ASSUME IInv, Gaps, UNCHANGED <<loop, ws, pending, missed, hadHello>>,
         \A s \in Socket : \/ conn'[s] = conn[s]
                           \/ conn[s] = "open" /\ conn'[s] = "dead"
                           \/ conn[s] = "retired" /\ conn'[s] = "free" /\ ~WaitingIn(loop, s, "closed"),
         served' \subseteq served,
         \A s \in served \ served' : conn'[s] \notin {"open", "closing"}
  PROVE  Gaps'
<1>0. TypeOK /\ Ordered
  BY DEF IInv, Gaps
<1>1. Ordered'
  BY <1>0, OrderedKept
<1>2. Counted'
  <2>1. \A s \in Socket : conn'[s] \in {"open", "closing"} => conn'[s] = conn[s] /\ s \in served
    BY DEF Gaps, Counted
  <2>2. pending' \in served' => WaitingIn(loop', pending', "opened")
    BY DEF Gaps, Counted
  <2> QED  BY <2>1, <2>2 DEF Counted
<1>3. (missed' => hadHello') /\ Healing'
  <2>1. \A s \in Socket : conn[s] \in {"dead", "closed"} => conn'[s] \in {"dead", "closed"}
    OBVIOUS
  <2> QED  BY <2>1, HealingKept
<1> QED  BY <1>1, <1>2, <1>3 DEF Gaps

\* Every step of the client keeps what makes up for the gaps.
LEMMA ClientGaps ==
  ASSUME IInv, IInv', Gaps, Calls \/ Timers \/ Answers \/ Turn PROVE Gaps'
<1>1. CASE Start
  BY <1>1, GapsSame DEF Start, link
<1>2. CASE Stop
  BY <1>2, TeardownGaps DEF Stop
<1>3. CASE EnsureConnected
  BY <1>3, GapsSame DEF EnsureConnected, link
<1>4. CASE ReconnectNow
  <2>1. CASE connected
    BY <1>4, <2>1, GapsSame DEF ReconnectNow, Kick, link
  <2>2. CASE ~connected
    BY <1>4, <2>2, TeardownGaps DEF ReconnectNow, Kick, ForceReconnect
  <2> QED  BY <2>1, <2>2
<1>5. CASE NetworkBack \/ WakeFromSuspend
  BY <1>5, TeardownGaps DEF NetworkBack, WakeFromSuspend, Kick, ForceReconnect
<1>6. CASE Timers
  BY <1>6, GapsSame DEF Timers, ReconnectTimerFires, Elapse, link
<1>7. ASSUME NEW r \in Request, OpenFails(r) PROVE Gaps'
  BY <1>7, GapsSame DEF OpenFails, Answered, link
<1>8. ASSUME NEW r \in Request, OpenSucceeds(r) PROVE Gaps'
  BY <1>8, ComesUpGaps
<1>9. conn' \in [Socket -> ConnState]
  BY DEF IInv, TypeOK
<1>10. CASE Unheard
  BY <1>9, <1>10, TakeGaps DEF Unheard
<1>11. ASSUME NEW s \in Socket, OnWarning(s) \/ OnEvent(s) PROVE Gaps'
  BY <1>9, <1>11, TakeGaps DEF OnWarning, OnEvent, Take
<1>12. ASSUME NEW s \in Socket, NEW eviction \in BOOLEAN, OnDisconnect(s, eviction) PROVE Gaps'
  <2>1. \A x \in Socket : conn'[x] = conn[x] \/ (conn[x] = "open" /\ conn'[x] = "closing")
    BY <1>12 DEF OnDisconnect
  <2> QED  BY <1>9, <1>12, <2>1, TakeGaps DEF OnDisconnect, Take
<1>13. ASSUME NEW s \in Socket, OnHello(s) \/ OnOpen(s) \/ OnClosedPending(s) \/ OnClosedLive(s)
       PROVE  Gaps'
  BY <1>13, HelloGaps, OpenGaps, ClosedPendingGaps, ClosedLiveGaps
<1> QED  BY <1>1, <1>2, <1>3, <1>4, <1>5, <1>6, <1>7, <1>8, <1>10, <1>11, <1>12, <1>13
         DEF Calls, Answers, Turn, Dispatch

\* ... and so does every step of the readers, the network and Slack.
LEMMA WorldGaps ==
  ASSUME IInv, Gaps, World PROVE Gaps'
<1>0. TypeOK /\ Ended(loop, conn)
  BY DEF IInv, Gaps, Ordered
<1>1. ASSUME NEW s \in Socket, ConnectOk(s) PROVE Gaps'
  BY <1>1, ConnectOkGaps
<1>2. ASSUME NEW s \in Socket, ConnectFails(s) PROVE Gaps'
  <2>1. \A x \in Socket : conn'[x] = IF x = s THEN "closed" ELSE conn[x]
    BY <1>0, <1>2 DEF TypeOK, ConnectFails
  <2>2. "closed" \in MsgType /\ NeverOpened \in Nat
    BY DEF MsgType, NeverOpened
  <2> QED  BY <1>2, <2>1, <2>2, PostGaps DEF ConnectFails, slackUnchanged
<1>3. ASSUME NEW s \in Socket, ConnectionEnds(s) PROVE Gaps'
  <2>1. \A x \in Socket : conn'[x] = IF x = s THEN "closed" ELSE conn[x]
    BY <1>0, <1>3 DEF TypeOK, ConnectionEnds
  <2>2. PICK code \in {NormalClose, AbnormalClose} : Post(Msg(s, "closed", code))
    BY <1>3 DEF ConnectionEnds
  <2>3. "closed" \in MsgType /\ code \in Nat
    BY DEF MsgType, NormalClose, AbnormalClose
  <2> QED  BY <1>3, <2>1, <2>2, <2>3, PostGaps DEF ConnectionEnds, slackUnchanged
<1>4. ASSUME NEW s \in Socket, NEW type \in Envelopes, SlackSays(s, type) PROVE Gaps'
  <2>1. type \in MsgType /\ type # "opened" /\ type # "closed"
    BY BoundsAssumption DEF MsgType
  <2> QED  BY <1>4, <2>1, PostGaps DEF SlackSays, slackUnchanged
<1>5. CASE EventHappens
  <2>1. ASSUME NEW s \in served, conn[s] \in {"open", "closing"}, Post(Msg(s, "event", 0)), missed' = missed
        PROVE  Gaps'
    <3>1. s \in Socket /\ "event" \in MsgType
      BY <1>0 DEF TypeOK, MsgType
    <3> QED  BY <1>5, <2>1, <3>1, PostGaps DEF EventHappens, slackUnchanged
  <2>2. CASE /\ missed' = hadHello /\ loop' = loop
             /\ served = {} \/ \E s \in served : conn[s] \in {"dead", "closed"}
    BY <1>5, <2>2, LostEventGaps DEF EventHappens, slackUnchanged
  <2> QED  BY <1>5, <2>1, <2>2 DEF EventHappens
<1>6. ASSUME NEW s \in Socket, DiesSilently(s) PROVE Gaps'
  <2>1. \A x \in Socket : conn'[x] = conn[x] \/ (conn[x] = "open" /\ conn'[x] = "dead")
    BY <1>0, <1>6 DEF TypeOK, DiesSilently
  <2> QED  BY <1>6, <2>1, SilentGaps DEF DiesSilently, slackUnchanged
<1>7. ASSUME NEW s \in Socket, Destroy(s) PROVE Gaps'
  <2>1. ~WaitingIn(loop, s, "closed")
    BY <1>7 DEF Destroy, WaitingIn
  <2>2. \A x \in Socket : \/ conn'[x] = conn[x]
                          \/ conn[x] = "retired" /\ conn'[x] = "free" /\ ~WaitingIn(loop, x, "closed")
    BY <1>0, <1>7, <2>1 DEF TypeOK, Destroy
  <2> QED  BY <1>7, <2>2, SilentGaps DEF Destroy, slackUnchanged
<1>8. ASSUME NEW s \in Socket, SlackForgets(s) PROVE Gaps'
  BY <1>8, SilentGaps DEF SlackForgets, slackUnchanged, link
<1> QED  BY <1>1, <1>2, <1>3, <1>4, <1>5, <1>6, <1>7, <1>8 DEF World

\* The gaps' invariant is inductive on top of IInv.
THEOREM GapsHold == Spec => []Gaps
<1>1. Init => Gaps
  <2>1. Init => Ordered
    BY DEF Init, Ordered, Follows, Final, Ended, WaitingIn
  <2>2. Init => Counted /\ Healing /\ ~missed
    BY DEF Init, Counted, Healing
  <2> QED  BY <2>1, <2>2 DEF Gaps
<1>2. IInv /\ IInv' /\ Gaps /\ [Next]_vars => Gaps'
  <2> SUFFICES ASSUME IInv, IInv', Gaps, [Next]_vars PROVE Gaps'
    OBVIOUS
  <2>1. CASE Next
    BY <2>1, ClientGaps, WorldGaps DEF Next
  <2>2. CASE UNCHANGED vars
    BY <2>2, GapsSame DEF vars, link
  <2> QED  BY <2>1, <2>2
<1> QED  BY <1>1, <1>2, Invariant, PTL DEF Spec

\* An event missed in a gap is never forgotten, whatever the sockets and the loop do.
THEOREM BackfilledGapsHolds == Spec => []BackfilledGaps
<1>1. IInv /\ Gaps => BackfilledGaps
  <2> SUFFICES ASSUME IInv, Gaps, missed, connected
               PROVE  \E s \in Held : conn[s] \in {"dead", "closed"} \/ Waiting(s, "hello")
    BY DEF BackfilledGaps
  <2>1. ws \in Held
    BY DEF Held, connected
  <2>2. pending # NoSocket => pending \in Held
    BY DEF Held
  <2>3. \A s : WaitingIn(loop, s, "hello") <=> Waiting(s, "hello")
    BY DEF WaitingIn, Waiting
  <2>4. \A s : WaitingIn(loop, s, "opened") => WaitingIn(loop, s, "hello")
    BY DEF Gaps, Ordered, Follows, WaitingIn
  <2> QED  BY <2>1, <2>2, <2>3, <2>4 DEF Gaps, Healing
<1> QED  BY <1>1, Invariant, GapsHold, PTL
=============================================================================
