------------------------------- MODULE NetClient -------------------------------
(***************************************************************************)
(* net::Client (src/src/net/client.cpp): requests sent and cancelled on the *)
(* UI thread, run one per pool task by worker threads, answered by closures *)
(* posted to the UI loop. The worker pool is the TaskQueue it promises to   *)
(* be (WorkerPool implements that); the task a request posts runs the       *)
(* oldest request queued then, not necessarily its own.                     *)
(*                                                                          *)
(* send() and cancel() touch the queue once under the mutex and nothing the *)
(* workers see besides the cancel flag, so each is one step.                *)
(***************************************************************************)
EXTENDS Naturals, Sequences, FiniteSets, SequencesExt

CONSTANTS
  Request, NoRequest,
  Noisy,       \* requests whose caller set onProgress
  MaxWorkers,  \* kMaxWorkers
  MaxRedirects \* Request::maxRedirects

ASSUME ClientAssumption ==
  NoRequest \notin Request /\ Noisy \subseteq Request
  /\ MaxWorkers \in Nat \ {0} /\ MaxRedirects \in Nat

VARIABLES
  sent,     \* requests send() was called for; each posts the pool task of its name
  pending,  \* Impl::pending
  flag,     \* the requests whose detail::Cancel is set
  queue,    \* Impl::queue
  stopping, \* Impl::stopping
  closing,  \* where the destructor is
  at,       \* where the worker of each pool task is
  job,      \* the request it took
  hop,      \* the redirects it followed
  loop,     \* closures posted to the UI loop
  log,      \* what each request's caller was told, or did, last
  poolQueue, poolRunning, poolDone, poolDropped, poolStopping

pool   == <<poolQueue, poolRunning, poolDone, poolDropped, poolStopping>>
ui     == <<sent, pending, flag, log, closing>>
worker == <<at, job, hop>>
vars   == <<ui, worker, queue, stopping, loop, pool>>

Pool == INSTANCE TaskQueue WITH
  Task <- Request, MaxRunning <- MaxWorkers, queue <- poolQueue, running <- poolRunning,
  done <- poolDone, dropped <- poolDropped, stopping <- poolStopping

\* idle: no worker; start: in runNext; hop: about to send; wire: in perform;
\* got: it has the answer; post: deliver() saw the Client alive.
Place == {"idle", "start", "hop", "wire", "got", "post"}
Closing == {"no", "begun", "joining", "gone"}
Closure == [req : Request, kind : {"progress", "done"}]
Told == {"progress", "done", "cancelled", "gone"}

Init ==
  /\ sent = {} /\ pending = {} /\ flag = {} /\ queue = <<>>
  /\ stopping = FALSE /\ closing = "no"
  /\ at = [k \in Request |-> "idle"] /\ job = [k \in Request |-> NoRequest]
  /\ hop = [k \in Request |-> 0]
  /\ loop = <<>> /\ log = [r \in Request |-> <<>>]
  /\ Pool!Init

-----------------------------------------------------------------------------
(* The UI thread's calls. *)

Tell(r, what) == log' = [log EXCEPT ![r] = Append(@, what)]

NeedsTask_IfQueueWasEmpty == queue = <<>>
NeedsTask == TRUE
Send(r) ==
  /\ closing = "no" /\ r \notin sent
  /\ sent' = sent \union {r} /\ pending' = pending \union {r}
  /\ queue' = Append(queue, r)
  /\ IF NeedsTask THEN Pool!Post(r, FALSE) ELSE UNCHANGED pool
  /\ UNCHANGED <<flag, log, closing, worker, stopping, loop>>

\* Ids are unique: it is there once at most.
Without(q, r) ==
  IF \E i \in DOMAIN q : q[i] = r THEN RemoveAt(q, CHOOSE i \in DOMAIN q : q[i] = r) ELSE q

\* Its task stays in the pool, and finds the queue one shorter.
Cancel(r) ==
  /\ closing = "no" /\ r \in pending
  /\ flag' = flag \union {r}
  /\ pending' = pending \ {r}
  /\ queue' = Without(queue, r)
  /\ Tell(r, "cancelled")
  /\ UNCHANGED <<sent, closing, worker, stopping, loop, pool>>

\* ~Client: everything is cancelled under the mutex ...
DestroyBegins ==
  /\ closing = "no"
  /\ closing' = "begun"
  /\ stopping' = TRUE
  /\ flag' = flag \union pending
  /\ queue' = <<>>
  /\ UNCHANGED <<sent, pending, log, worker, loop, pool>>

\* ... the pool drops its tasks and joins its workers ...
PoolStops ==
  /\ closing = "begun"
  /\ closing' = "joining"
  /\ Pool!Stop
  /\ UNCHANGED <<sent, pending, flag, log, worker, queue, stopping, loop>>

Joined_NotAwaited == TRUE
Joined == poolRunning = {}
\* ... and the callbacks go unheard.
DestroyEnds ==
  /\ closing = "joining" /\ Joined
  /\ closing' = "gone"
  /\ log' = [r \in Request |-> IF r \in pending THEN Append(log[r], "gone") ELSE log[r]]
  /\ pending' = {}
  /\ UNCHANGED <<sent, flag, worker, queue, stopping, loop, pool>>

-----------------------------------------------------------------------------
(* A worker, in the pool task k. *)

Over(k) ==
  /\ Pool!Finish(k)
  /\ at' = [at EXCEPT ![k] = "idle"] /\ job' = [job EXCEPT ![k] = NoRequest]
  /\ hop' = [hop EXCEPT ![k] = 0]

GoTo(k, place) ==
  /\ at' = [at EXCEPT ![k] = place]
  /\ UNCHANGED <<job, hop, pool>>

TakeTask(k) ==
  /\ Pool!Take /\ k = Head(poolQueue)
  /\ at' = [at EXCEPT ![k] = "start"]
  /\ UNCHANGED <<ui, job, hop, queue, stopping, loop>>

\* runNext: the oldest request; none, when one was cancelled meanwhile.
RunNext(k) ==
  /\ at[k] = "start"
  /\ IF stopping \/ queue = <<>>
     THEN Over(k) /\ UNCHANGED queue
     ELSE /\ job' = [job EXCEPT ![k] = Head(queue)] /\ queue' = Tail(queue)
          /\ at' = [at EXCEPT ![k] = "hop"]
          /\ UNCHANGED <<hop, pool>>
  /\ UNCHANGED <<ui, stopping, loop>>

\* run: a hop, unless it was cancelled before (or the URL is none, the first time).
BeginHop(k) ==
  /\ at[k] = "hop"
  /\ IF job[k] \in flag THEN Over(k)
     ELSE GoTo(k, "wire") \/ (hop[k] = 0 /\ GoTo(k, "got"))
  /\ UNCHANGED <<ui, queue, stopping, loop>>

MayRedirect_OffByOne(k) == hop[k] <= MaxRedirects
MayRedirect(k) == hop[k] < MaxRedirects

\* perform returns: a redirect to follow, or what done will hear.
Exchange(k) ==
  /\ at[k] = "wire"
  /\ \/ GoTo(k, "got")
     \/ /\ MayRedirect(k)
        /\ at' = [at EXCEPT ![k] = "hop"] /\ hop' = [hop EXCEPT ![k] = @ + 1]
        /\ UNCHANGED <<job, pool>>
  /\ UNCHANGED <<ui, queue, stopping, loop>>

\* report: some of the body came. Bounded: one closure waits at a time.
Report(k) ==
  /\ at[k] = "wire" /\ job[k] \in Noisy /\ ~stopping
  /\ LET note == [req |-> job[k], kind |-> "progress"]
     IN /\ \A i \in 1..Len(loop) : loop[i] # note
        /\ Len(log[job[k]]) < 2
        /\ loop' = Append(loop, note)
  /\ UNCHANGED <<ui, worker, queue, stopping, pool>>

\* The handler's finished() reads the answer; then deliver: to nobody once stopping.
HandleAnswer(k) ==
  /\ at[k] = "got"
  /\ IF stopping THEN Over(k) ELSE GoTo(k, "post")
  /\ UNCHANGED <<ui, queue, stopping, loop>>

PostAnswer(k) ==
  /\ at[k] = "post"
  /\ loop' = Append(loop, [req |-> job[k], kind |-> "done"])
  /\ Over(k)
  /\ UNCHANGED <<ui, queue, stopping>>

-----------------------------------------------------------------------------
(* The UI loop runs a closure (never while the destructor blocks it). *)

Heard_Always(r) == TRUE
Heard(r) == r \in pending \* find(id), of a Client still there

Turn ==
  /\ closing \in {"no", "gone"} /\ loop # <<>>
  /\ loop' = Tail(loop)
  /\ LET r == Head(loop).req
         kind == Head(loop).kind
     IN IF Heard(r)
        THEN /\ Tell(r, kind)
             /\ pending' = IF kind = "done" THEN pending \ {r} ELSE pending
        ELSE UNCHANGED <<log, pending>>
  /\ UNCHANGED <<sent, flag, closing, worker, queue, stopping, pool>>

-----------------------------------------------------------------------------
Calls == DestroyBegins \/ PoolStops \/ DestroyEnds \/ \E r \in Request : Send(r) \/ Cancel(r)
Work(k) == RunNext(k) \/ BeginHop(k) \/ Exchange(k) \/ HandleAnswer(k) \/ PostAnswer(k)
Next == Calls \/ Turn \/ \E k \in Request : TakeTask(k) \/ Work(k) \/ Report(k)

Spec == Init /\ [][Next]_vars

\* Workers run and each exchange has a timeout; the UI loop runs what is posted,
\* and a destructor under way goes on. (That the pool takes its tasks is what
\* WorkerPool's EveryTaskRuns checks.)
Fairness ==
  /\ \A k \in Request : WF_vars(TakeTask(k)) /\ WF_vars(Work(k))
  /\ WF_vars(Turn) /\ WF_vars(PoolStops) /\ WF_vars(DestroyEnds)
FairSpec == Spec /\ Fairness

-----------------------------------------------------------------------------
(* Properties. *)

\* Every variable keeps its type, the redirects within their limit.
TypeOK ==
  /\ sent \in SUBSET Request /\ pending \in SUBSET sent /\ flag \in SUBSET sent
  /\ queue \in Seq(Request) /\ stopping \in BOOLEAN /\ closing \in Closing
  /\ at \in [Request -> Place] /\ job \in [Request -> Request \union {NoRequest}]
  /\ hop \in [Request -> 0..MaxRedirects]
  /\ loop \in Seq(Closure) /\ log \in [Request -> Seq(Told)]

\* A caller is told nothing after the end: no callback after done, after cancel
\* ("done of that request never runs"), or after the Client is gone, whatever the
\* workers have posted by then.
NothingAfterTheEnd ==
  \A r \in Request : \A i \in 1..Len(log[r]) : i < Len(log[r]) => log[r][i] = "progress"

\* No request is left behind in the queue: for each there is a pool task still to
\* look for one, though tasks take the oldest and cancellations leave holes.
TasksEnough ==
  Len(queue) <= Len(poolQueue) + Cardinality({k \in Request : at[k] = "start"})

\* Once ~Client returned no worker is left to touch it.
QuietOnceGone == closing = "gone" => poolRunning = {} /\ poolQueue = <<>> /\ queue = <<>>

\* Every request ends: its caller is answered, cancels it, or ends the Client.
EveryRequestEnds == \A r \in Request : r \in pending ~> r \notin pending
=============================================================================
