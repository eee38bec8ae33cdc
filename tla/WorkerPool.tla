------------------------------ MODULE WorkerPool ------------------------------
(***************************************************************************)
(* base::WorkerPool (src/src/base/thread.{h,cpp}): worker threads that take *)
(* posted tasks and park between them. One action is one critical section   *)
(* of the pool's mutex, or what a thread does between two of them: a task,  *)
(* a notification after the unlock, a join.                                 *)
(*                                                                          *)
(* A wait_until may return at any time (notified, spuriously, at its        *)
(* deadline), and the deadline may have passed at any recheck, which is     *)
(* also all that setIdleMs changes. Creating a thread may fail.             *)
(***************************************************************************)
EXTENDS Naturals, Sequences, FiniteSets

CONSTANTS
  Task, NoTask,
  Worker,     \* Worker objects; one is reused once its thread is gone
  MaxWorkers, \* Options::maxWorkers
  MaxParked,  \* Options::maxParked
  MaxFailures \* bound: threads the OS refuses

ASSUME PoolAssumption ==
  /\ NoTask \notin Task
  /\ IsFiniteSet(Worker) /\ MaxWorkers \in Nat \ {0} /\ MaxWorkers <= Cardinality(Worker)
  /\ MaxParked \in Nat /\ MaxFailures \in Nat

VARIABLES
  queue,    \* _queue
  workers,  \* _workers
  parked,   \* _parked
  stopping, \* _stopping
  state,    \* where each worker's thread is
  task,     \* the task it runs
  notifies, \* posts past their unlock and before their notify_one
  stopper,  \* where stop() is
  joining,  \* the workers stop() took over and has not joined yet
  done, dropped,
  failures

tasks   == <<queue, done, dropped>>
threads == <<workers, parked, state, task>>
closing == <<stopping, stopper, joining>>
vars    == <<tasks, threads, closing, notifies, failures>>

\* none: no thread; ready: it waits for the mutex at the loop's top; asleep: in
\* wait_until; woken: out of it, waiting for the mutex; ended: loop() returned.
WorkerState == {"none", "ready", "asleep", "woken", "running", "ended"}
StopState == {"none", "swapped", "joining", "joined"}

Alive == {w \in Worker : state[w] # "none"}
Parked == {w \in Worker : state[w] \in {"asleep", "woken"}}
Coming == {w \in Worker : state[w] \in {"ready", "woken"}}
Free == {w \in workers : state[w] # "running"}
Running == {task[w] : w \in Worker} \ {NoTask}
Queued == {queue[i] : i \in 1..Len(queue)}
Posted == Queued \union Running \union done \union dropped

Init ==
  /\ queue = <<>> /\ done = {} /\ dropped = {}
  /\ workers = {} /\ parked = 0
  /\ state = [w \in Worker |-> "none"] /\ task = [w \in Worker |-> NoTask]
  /\ stopping = FALSE /\ stopper = "none" /\ joining = {}
  /\ notifies = 0 /\ failures = 0

-----------------------------------------------------------------------------
(* post(). *)

\* More queued than the parked workers can take, and room under the cap.
NeedsWorker_BeforePush(q) == Len(queue) > parked /\ Cardinality(workers) < MaxWorkers
NeedsWorker_OffByOne(q) == Len(q) > parked /\ Cardinality(workers) <= MaxWorkers
NeedsWorker(q) == Len(q) > parked /\ Cardinality(workers) < MaxWorkers

StartWorker ==
  \E w \in Worker \ workers :
    /\ state[w] = "none"
    /\ workers' = workers \union {w}
    /\ state' = [state EXCEPT ![w] = "ready"]
    /\ UNCHANGED failures

StartFails ==
  /\ failures < MaxFailures
  /\ failures' = failures + 1
  /\ UNCHANGED <<workers, state>>

Post(t, front) ==
  /\ t \notin Posted /\ ~stopping
  /\ queue' = IF front THEN <<t>> \o queue ELSE Append(queue, t)
  /\ IF NeedsWorker(queue')
     THEN StartWorker \/ StartFails
     ELSE UNCHANGED <<workers, state, failures>>
  /\ notifies' = notifies + 1
  /\ UNCHANGED <<done, dropped, parked, task, closing>>

\* Dropped once stopped: no notification either.
PostTooLate(t) ==
  /\ t \notin Posted /\ stopping
  /\ dropped' = dropped \union {t}
  /\ UNCHANGED <<queue, done, threads, closing, notifies, failures>>

Woken(S) == [w \in Worker |-> IF w \in S /\ state[w] = "asleep" THEN "woken" ELSE state[w]]

\* post's notify_one: one sleeper, if there is any.
NotifyOne_Lost == state' = state
NotifyOne ==
  IF \E w \in Worker : state[w] = "asleep"
  THEN \E w \in Worker : state[w] = "asleep" /\ state' = Woken({w})
  ELSE UNCHANGED state
Notify ==
  /\ notifies > 0
  /\ notifies' = notifies - 1
  /\ NotifyOne
  /\ UNCHANGED <<tasks, workers, parked, task, closing, failures>>

-----------------------------------------------------------------------------
(* loop(). *)

MayPark == queue = <<>> /\ ~stopping /\ parked < MaxParked

\* The three ways on with the mutex held: the pool stops; idle long enough (or
\* enough are parked), so the thread detaches itself and ends; a task.
EndForStop(w) ==
  /\ stopping
  /\ state' = [state EXCEPT ![w] = "ended"]
  /\ UNCHANGED <<queue, workers, task>>

Retire(w) ==
  /\ ~stopping /\ queue = <<>>
  /\ state' = [state EXCEPT ![w] = "none"]
  /\ workers' = workers \ {w}
  /\ UNCHANGED <<queue, task>>

NextTask_Newest == queue[Len(queue)]
NextTask == Head(queue)
Take(w) ==
  /\ ~stopping /\ queue # <<>>
  /\ state' = [state EXCEPT ![w] = "running"]
  /\ task' = [task EXCEPT ![w] = NextTask]
  /\ queue' = Tail(queue)
  /\ UNCHANGED workers

GoOn(w) == EndForStop(w) \/ Retire(w) \/ Take(w)

\* The loop's top: park, or go on at once.
Enter(w) ==
  /\ state[w] = "ready"
  /\ IF MayPark
     THEN /\ state' = [state EXCEPT ![w] = "asleep"]
          /\ parked' = parked + 1
          /\ UNCHANGED <<queue, workers, task>>
     ELSE GoOn(w) /\ UNCHANGED parked
  /\ UNCHANGED <<done, dropped, closing, notifies, failures>>

\* wait_until returned: sleep again, or leave the parking and go on.
SleepsAgain == queue = <<>> /\ ~stopping
SleepAgain(w) ==
  /\ state[w] = "woken" /\ SleepsAgain
  /\ state' = [state EXCEPT ![w] = "asleep"]
  /\ UNCHANGED <<tasks, workers, parked, task, closing, notifies, failures>>

Unpark(w) ==
  /\ state[w] = "woken"
  /\ parked' = parked - 1
  /\ GoOn(w)
  /\ UNCHANGED <<done, dropped, closing, notifies, failures>>

\* The deadline passes, or the wait returns for no reason.
WakesByItself(w) ==
  /\ state[w] = "asleep"
  /\ state' = Woken({w})
  /\ UNCHANGED <<tasks, workers, parked, task, closing, notifies, failures>>

\* The task ends, and what it held goes, outside the mutex.
Finish(w) ==
  /\ state[w] = "running"
  /\ state' = [state EXCEPT ![w] = "ready"]
  /\ task' = [task EXCEPT ![w] = NoTask]
  /\ done' = done \union {task[w]}
  /\ UNCHANGED <<queue, dropped, workers, parked, closing, notifies, failures>>

-----------------------------------------------------------------------------
(* stop(), called once (by the owner, or its destructor). *)

TakenOver_ParkedForgotten == workers \ Parked
TakenOver == workers
StopSwaps ==
  /\ ~stopping
  /\ stopping' = TRUE
  /\ dropped' = dropped \union Queued
  /\ queue' = <<>>
  /\ joining' = TakenOver /\ workers' = {}
  /\ stopper' = "swapped"
  /\ UNCHANGED <<done, parked, state, task, notifies, failures>>

NotifyAll_Lost == state
NotifyAll == Woken(Worker)
StopNotifies ==
  /\ stopper = "swapped"
  /\ stopper' = "joining"
  /\ state' = NotifyAll
  /\ UNCHANGED <<tasks, workers, parked, task, stopping, joining, notifies, failures>>

Join(w) ==
  /\ stopper = "joining" /\ w \in joining /\ state[w] = "ended"
  /\ joining' = joining \ {w}
  /\ state' = [state EXCEPT ![w] = "none"]
  /\ UNCHANGED <<tasks, workers, parked, task, stopping, stopper, notifies, failures>>

StopReturns ==
  /\ stopper = "joining" /\ joining = {}
  /\ stopper' = "joined"
  /\ UNCHANGED <<tasks, threads, stopping, joining, notifies, failures>>

-----------------------------------------------------------------------------
\* Tasks differ in name alone, so the name of the next one is fixed.
Fresh == CHOOSE t \in Task : t \notin Posted
Callers ==
  \/ \E t \in Task \ Posted : t = Fresh /\ (PostTooLate(t) \/ \E front \in BOOLEAN : Post(t, front))
  \/ Notify
Loop(w) == Enter(w) \/ SleepAgain(w) \/ Unpark(w) \/ Finish(w)
Stopper == StopSwaps \/ StopNotifies \/ StopReturns \/ \E w \in Worker : Join(w)

Next == Callers \/ (\E w \in Worker : Loop(w) \/ WakesByItself(w)) \/ Stopper

Spec == Init /\ [][Next]_vars

\* Threads run and their tasks end; a caller inside post() or stop() goes on.
\* Nothing makes a sleeping worker wake by itself: notifications must do.
Fairness ==
  /\ WF_vars(Notify)
  /\ \A w \in Worker : WF_vars(Enter(w)) /\ WF_vars(Unpark(w) \/ SleepAgain(w)) /\ WF_vars(Finish(w))
  /\ WF_vars(StopNotifies) /\ WF_vars(StopReturns) /\ \A w \in Worker : WF_vars(Join(w))
FairSpec == Spec /\ Fairness

-----------------------------------------------------------------------------
(* Properties. *)

\* Every variable keeps its type, _parked within its limit.
TypeOK ==
  /\ queue \in Seq(Task) /\ done \in SUBSET Task /\ dropped \in SUBSET Task
  /\ workers \in SUBSET Worker /\ parked \in 0..MaxParked
  /\ state \in [Worker -> WorkerState] /\ task \in [Worker -> Task \union {NoTask}]
  /\ stopping \in BOOLEAN /\ stopper \in StopState /\ joining \in SUBSET Worker
  /\ notifies \in Nat /\ failures \in 0..MaxFailures

\* Never more threads than the cap, those stop() is still joining included.
Capped == Cardinality(Alive) <= MaxWorkers

\* No capacity is lost to a race of posts, parking and retiring: every queued
\* task has a free worker coming for it or parked for it, or the cap is reached.
Served ==
  failures = 0 /\ ~stopping =>
    \/ Len(queue) <= Cardinality(Free)
    \/ Cardinality(workers) = MaxWorkers

\* No wake-up is lost: while a worker sleeps on, each queued task has another
\* one on its way to the mutex, or a notification still to come.
NoLostWakeup ==
  (\E w \in Worker : state[w] = "asleep") /\ ~stopping =>
    Len(queue) <= Cardinality(Coming) + notifies

\* Every live thread is in _workers, or taken over by stop(), which leaves no task.
Registered ==
  /\ stopping <=> stopper # "none"
  /\ ~stopping => workers = Alive /\ joining = {}
  /\ stopping => workers = {} /\ joining = Alive /\ queue = <<>>
  /\ stopper = "joined" => joining = {}

\* _parked counts the parked threads, and a worker holds a task while it runs it.
Counted ==
  /\ parked = Cardinality(Parked)
  /\ \A w \in Worker : task[w] # NoTask <=> state[w] = "running"

\* No task is in two places.
OnePlace ==
  /\ \A i, j \in 1..Len(queue) : queue[i] = queue[j] => i = j
  /\ \A v, w \in Worker : task[v] = task[w] /\ task[v] # NoTask => v = w
  /\ Queued \cap Running = {}

\* The inductive invariant.
IInv ==
  TypeOK /\ Registered /\ Counted /\ OnePlace /\ Capped /\ Served /\ NoLostWakeup

\* Once stop() returned no thread is left to touch the pool, and no task runs.
StopLeavesNothing == stopper = "joined" => Alive = {} /\ Running = {} /\ queue = <<>>

\* The pool is what its header promises: TaskQueue, with the threads hidden.
Promise == INSTANCE TaskQueue WITH running <- Running, MaxRunning <- MaxWorkers
Implements == Promise!Spec

\* Every queued task runs in the end, or is dropped by stop(), as long as the OS
\* gives threads: no task waits behind workers that sleep.
EveryTaskRuns ==
  \A t \in Task : t \in Queued ~> (t \in done \union dropped \/ failures > 0)

\* stop() returns: every parked worker hears of it, every task under way ends.
StopEnds == stopping ~> stopper = "joined"
=============================================================================
