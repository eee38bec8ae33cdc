------------------------------- MODULE TaskQueue -------------------------------
(***************************************************************************)
(* What base::WorkerPool (src/src/base/thread.h) promises its callers: up   *)
(* to MaxRunning posted tasks run at a time, oldest first, a front post     *)
(* jumps the queue, each runs once, and stop() drops what is queued. There  *)
(* are no threads, no parking and no wake-ups here: WorkerPool implements   *)
(* this, and NetClient is built on it.                                      *)
(***************************************************************************)
EXTENDS Naturals, Sequences, FiniteSets

CONSTANTS
  Task,      \* each is posted once at most
  MaxRunning \* Options::maxWorkers

VARIABLES
  queue,   \* posted and not yet taken, the next first
  running, \* taken and not yet over
  done,    \* ran to their end
  dropped, \* never to run: the pool was stopped
  stopping

vars == <<queue, running, done, dropped, stopping>>

Queued == {queue[i] : i \in 1..Len(queue)}
Posted == Queued \union running \union done \union dropped

Init ==
  queue = <<>> /\ running = {} /\ done = {} /\ dropped = {} /\ stopping = FALSE

Post(t, front) ==
  /\ t \notin Posted
  /\ IF stopping
     THEN dropped' = dropped \union {t} /\ UNCHANGED queue
     ELSE queue' = (IF front THEN <<t>> \o queue ELSE Append(queue, t)) /\ UNCHANGED dropped
  /\ UNCHANGED <<running, done, stopping>>

Take ==
  /\ queue # <<>> /\ Cardinality(running) < MaxRunning
  /\ queue' = Tail(queue)
  /\ running' = running \union {Head(queue)}
  /\ UNCHANGED <<done, dropped, stopping>>

Finish(t) ==
  /\ t \in running
  /\ running' = running \ {t}
  /\ done' = done \union {t}
  /\ UNCHANGED <<queue, dropped, stopping>>

Stop ==
  /\ stopping' = TRUE
  /\ queue' = <<>>
  /\ dropped' = dropped \union Queued
  /\ UNCHANGED <<running, done>>

Next ==
  \/ \E t \in Task : Finish(t) \/ \E front \in BOOLEAN : Post(t, front)
  \/ Take \/ Stop

Spec == Init /\ [][Next]_vars
=============================================================================
