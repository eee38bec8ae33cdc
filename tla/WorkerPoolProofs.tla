--------------------------- MODULE WorkerPoolProofs ---------------------------
(***************************************************************************)
(* WorkerPool's inductive invariant: the threads registered and counted, no *)
(* capacity and no wake-up lost; and that the pool implements TaskQueue.    *)
(***************************************************************************)
EXTENDS WorkerPool, FiniteSetTheorems, SequenceTheorems, TLAPS

-----------------------------------------------------------------------------
(* Counting workers. *)

\* Every set of workers has a number.
LEMMA Countable ==
  ASSUME NEW S \in SUBSET Worker PROVE IsFiniteSet(S) /\ Cardinality(S) \in Nat
  BY PoolAssumption, FS_Subset, FS_CardinalityType

\* One worker more.
LEMMA Grows ==
  ASSUME NEW S \in SUBSET Worker, NEW w \in Worker \ S
  PROVE  Cardinality(S \union {w}) = Cardinality(S) + 1
  BY Countable, FS_AddElement

\* One worker less, or the same.
LEMMA Shrinks ==
  ASSUME NEW S \in SUBSET Worker, NEW w
  PROVE  Cardinality(S \ {w}) = IF w \in S THEN Cardinality(S) - 1 ELSE Cardinality(S)
  BY Countable, FS_RemoveElement

\* A part has no more workers than the whole.
LEMMA Within ==
  ASSUME NEW T \in SUBSET Worker, NEW S \in SUBSET T
  PROVE  Cardinality(S) <= Cardinality(T)
  BY Countable, FS_Subset

\* Where one worker's step leaves it among the alive, the parked and the coming.
LEMMA Moved ==
  ASSUME TypeOK, NEW w \in Worker, NEW x \in WorkerState, state' = [state EXCEPT ![w] = x]
  PROVE  /\ state' \in [Worker -> WorkerState]
         /\ Alive' = IF x # "none" THEN Alive \union {w} ELSE Alive \ {w}
         /\ Parked' = IF x \in {"asleep", "woken"} THEN Parked \union {w} ELSE Parked \ {w}
         /\ Coming' = IF x \in {"ready", "woken"} THEN Coming \union {w} ELSE Coming \ {w}
<1>1. state' \in [Worker -> WorkerState] /\ state'[w] = x
  BY DEF TypeOK
<1>2. \A v \in Worker : v # w => state'[v] = state[v]
  BY DEF TypeOK
<1> QED  BY <1>1, <1>2 DEF Alive, Parked, Coming

\* Waking one sleeper moves it alone.
LEMMA WokenOne ==
  ASSUME TypeOK, NEW w \in Worker, state[w] = "asleep"
  PROVE  Woken({w}) = [state EXCEPT ![w] = "woken"]
  BY DEF TypeOK, Woken

\* Waking sleepers moves nobody in or out of the threads alive and parked.
LEMMA WokenMany ==
  ASSUME TypeOK, NEW S, state' = Woken(S)
  PROVE  /\ state' \in [Worker -> WorkerState]
         /\ Alive' = Alive /\ Parked' = Parked
         /\ \A w \in Worker : state'[w] = "running" <=> state[w] = "running"
  BY DEF TypeOK, Woken, WorkerState, Alive, Parked

-----------------------------------------------------------------------------
(* A step of the loop that goes on: it ends, retires or takes a task. *)

\* Whatever a thread in the loop does next keeps the invariant.
LEMMA GoOnKeeps ==
  ASSUME IInv, NEW w \in Worker, state[w] \in {"ready", "woken"}, GoOn(w),
         parked' = Cardinality(Parked \ {w}),
         UNCHANGED <<done, dropped, closing, notifies, failures>>
  PROVE  IInv'
<1> USE DEF closing
<1>a. TypeOK /\ Registered /\ Counted /\ OnePlace /\ Capped /\ Served /\ NoLostWakeup
  BY DEF IInv
<1>b. w \in Alive /\ w \in Coming /\ task[w] = NoTask
  BY <1>a DEF Alive, Coming, Counted
<1>c. parked' \in 0..MaxParked
  <2>1. Parked \in SUBSET Worker /\ Parked \ {w} \in SUBSET Parked
    BY DEF Parked
  <2>2. Cardinality(Parked \ {w}) <= parked /\ Cardinality(Parked \ {w}) \in Nat
    BY <1>a, <2>1, Within, Countable DEF Counted
  <2> QED  BY <1>a, <2>2, PoolAssumption DEF TypeOK
<1>d. Alive \in SUBSET Worker /\ Coming \in SUBSET Worker /\ Free \in SUBSET Worker
  BY <1>a DEF Alive, Coming, Free, TypeOK
<1>1. CASE EndForStop(w)
  <2>1. Alive' = Alive /\ Parked' = Parked \ {w} /\ state' \in [Worker -> WorkerState]
    <3>1. "ended" \in WorkerState /\ state' = [state EXCEPT ![w] = "ended"]
      BY <1>1 DEF EndForStop, WorkerState
    <3>2. Alive' = Alive \union {w} /\ Parked' = Parked \ {w} /\ state' \in [Worker -> WorkerState]
      BY <1>a, <3>1, Moved
    <3> QED  BY <1>b, <3>2
  <2>2. TypeOK'
    BY <1>1, <1>a, <1>c, <2>1 DEF TypeOK, EndForStop
  <2>3. Registered' /\ Capped' /\ Served' /\ NoLostWakeup'
    BY <1>1, <1>a, <2>1 DEF Registered, Capped, Served, NoLostWakeup, EndForStop
  <2>4. Counted'
    BY <1>1, <1>a, <1>b, <2>1 DEF Counted, EndForStop, TypeOK
  <2>5. OnePlace'
    BY <1>1, <1>a DEF OnePlace, EndForStop, Queued, Running
  <2> QED  BY <2>2, <2>3, <2>4, <2>5 DEF IInv
<1>2. CASE Retire(w)
  <2>1. Alive' = Alive \ {w} /\ Parked' = Parked \ {w} /\ state' \in [Worker -> WorkerState]
    BY <1>2, <1>a, Moved DEF Retire, WorkerState
  <2>2. TypeOK'
    BY <1>2, <1>a, <1>c, <2>1 DEF TypeOK, Retire
  <2>3. Registered'
    BY <1>2, <1>a, <2>1 DEF Registered, Retire
  <2>4. Capped'
    BY <1>a, <1>d, <2>1, Within, Countable, PoolAssumption DEF Capped
  <2>5. Len(queue') = 0
    BY <1>2 DEF Retire
  <2>6. Served'
    <3>1. Free' \in SUBSET Worker
      BY <2>2 DEF Free, TypeOK
    <3> QED  BY <2>5, <3>1, Countable DEF Served
  <2>7. NoLostWakeup'
    <3>1. Coming' \in SUBSET Worker /\ notifies' \in Nat
      BY <2>2 DEF Coming, TypeOK
    <3> QED  BY <2>5, <3>1, Countable DEF NoLostWakeup
  <2>8. Counted'
    BY <1>2, <1>a, <1>b, <2>1 DEF Counted, Retire, TypeOK
  <2>9. OnePlace'
    BY <1>2, <1>a DEF OnePlace, Retire, Queued, Running
  <2> QED  BY <2>2, <2>3, <2>4, <2>6, <2>7, <2>8, <2>9 DEF IInv
<1>3. CASE Take(w)
  <2>1. /\ Alive' = Alive /\ Parked' = Parked \ {w} /\ Coming' = Coming \ {w}
        /\ state' \in [Worker -> WorkerState] /\ state'[w] = "running"
        /\ \A v \in Worker : v # w => state'[v] = state[v]
    <3>1. "running" \in WorkerState /\ state' = [state EXCEPT ![w] = "running"]
      BY <1>3 DEF Take, WorkerState
    <3>2. /\ Alive' = Alive \union {w} /\ Parked' = Parked \ {w} /\ Coming' = Coming \ {w}
          /\ state' \in [Worker -> WorkerState]
      BY <1>a, <3>1, Moved
    <3> QED  BY <1>a, <1>b, <3>1, <3>2 DEF TypeOK
  <2>2. /\ Len(queue) \in Nat \ {0} /\ Len(queue') = Len(queue) - 1
        /\ queue' \in Seq(Task) /\ Head(queue) \in Task /\ Head(queue) = queue[1]
        /\ \A i \in 1..Len(queue') : i + 1 \in 1..Len(queue) /\ queue'[i] = queue[i + 1]
    BY <1>3, <1>a DEF Take, TypeOK
  <2>3. /\ task'[w] = Head(queue) /\ task' \in [Worker -> Task \union {NoTask}]
        /\ \A v \in Worker : v # w => task'[v] = task[v]
    BY <1>3, <1>a, <2>2 DEF Take, TypeOK, NextTask
  <2>4. TypeOK'
    BY <1>3, <1>a, <1>c, <2>1, <2>2, <2>3 DEF TypeOK, Take
  <2>5. Registered' /\ Capped'
    BY <1>3, <1>a, <2>1 DEF Registered, Capped, Take
  <2>6. Served'
    <3>1. Free' = Free \ {w} /\ w \in Free
      BY <1>3, <1>a, <1>b, <2>1 DEF Free, Take, Registered, Alive
    <3>2. Cardinality(Free') = Cardinality(Free) - 1 /\ Cardinality(Free) \in Nat
      BY <1>d, <3>1, Shrinks, Countable
    <3> QED  BY <1>3, <1>a, <2>2, <3>2 DEF Served, Take
  <2>7. NoLostWakeup'
    <3>1. Cardinality(Coming') = Cardinality(Coming) - 1 /\ Cardinality(Coming) \in Nat
      BY <1>b, <1>d, <2>1, Shrinks, Countable
    <3>2. (\E v \in Worker : state'[v] = "asleep") => \E v \in Worker : state[v] = "asleep"
      BY <2>1
    <3>3. notifies' = notifies /\ notifies \in Nat
      BY <1>a DEF TypeOK
    <3> QED  BY <1>3, <1>a, <2>2, <3>1, <3>2, <3>3 DEF NoLostWakeup, Take
  <2>8. Counted'
    BY <1>a, <2>1, <2>2, <2>3, PoolAssumption DEF Counted
  <2>9. OnePlace'
    <3>1. Head(queue) \in Queued
      BY <2>2 DEF Queued
    <3>2. \A i, j \in 1..Len(queue') : queue'[i] = queue'[j] => i = j
      BY <1>a, <2>2 DEF OnePlace
    <3>3. \A v \in Worker : task[v] # Head(queue)
      BY <1>a, <2>2, <3>1, PoolAssumption DEF OnePlace, Running
    <3>4. \A u, v \in Worker : task'[u] = task'[v] /\ task'[u] # NoTask => u = v
      BY <1>a, <2>3, <3>3 DEF OnePlace
    <3>5. Running' \subseteq Running \union {Head(queue)}
      BY <2>3 DEF Running
    <3>6. Queued' \subseteq Queued /\ Head(queue) \notin Queued'
      BY <1>a, <2>2 DEF Queued, OnePlace
    <3> QED  BY <1>a, <3>2, <3>4, <3>5, <3>6 DEF OnePlace
  <2> QED  BY <2>4, <2>5, <2>6, <2>7, <2>8, <2>9 DEF IInv
<1> QED  BY <1>1, <1>2, <1>3 DEF GoOn

-----------------------------------------------------------------------------
(* The other steps. *)

\* What a push at either end of a queue makes of it.
LEMMA PushFront ==
  ASSUME NEW q \in Seq(Task), NEW t \in Task
  PROVE  /\ <<t>> \o q \in Seq(Task) /\ Len(<<t>> \o q) = Len(q) + 1
         /\ (<<t>> \o q)[1] = t
         /\ \A i \in 2..Len(q) + 1 : (<<t>> \o q)[i] = q[i - 1] /\ i - 1 \in 1..Len(q)
<1>1. <<t>> \in Seq(Task) /\ Len(<<t>>) = 1 /\ <<t>>[1] = t /\ Len(q) \in Nat
  OBVIOUS
<1>2. /\ <<t>> \o q \in Seq(Task) /\ Len(<<t>> \o q) = Len(<<t>>) + Len(q)
      /\ \A i \in 1..Len(<<t>>) + Len(q) : (<<t>> \o q)[i] =
           IF i <= Len(<<t>>) THEN <<t>>[i] ELSE q[i - Len(<<t>>)]
  BY <1>1, ConcatProperties
<1>3. (<<t>> \o q)[1] = t
  BY <1>1, <1>2
<1>4. \A i \in 2..Len(q) + 1 : (<<t>> \o q)[i] = q[i - 1] /\ i - 1 \in 1..Len(q)
  BY <1>1, <1>2
<1> QED  BY <1>1, <1>2, <1>3, <1>4

\* A queue with one task more, at either end, still holds each task once.
LEMMA Pushed ==
  ASSUME NEW q \in Seq(Task), NEW t \in Task, NEW front \in BOOLEAN, NEW r,
         r = IF front THEN <<t>> \o q ELSE Append(q, t),
         \A i \in 1..Len(q) : q[i] # t,
         \A i, j \in 1..Len(q) : q[i] = q[j] => i = j
  PROVE  /\ r \in Seq(Task) /\ Len(r) = Len(q) + 1
         /\ {r[i] : i \in 1..Len(r)} \subseteq {q[i] : i \in 1..Len(q)} \union {t}
         /\ \A i, j \in 1..Len(r) : r[i] = r[j] => i = j
<1>0. Len(q) \in Nat
  OBVIOUS
<1>1. CASE front
  <2>1. r = <<t>> \o q
    BY <1>1
  <2>2. /\ r \in Seq(Task) /\ Len(r) = Len(q) + 1 /\ r[1] = t
        /\ \A i \in 2..Len(q) + 1 : r[i] = q[i - 1] /\ i - 1 \in 1..Len(q)
    BY <2>1, PushFront
  <2> HIDE <2>1
  <2>3. \A i \in 1..Len(r) : i = 1 \/ (i \in 2..Len(q) + 1 /\ r[i] = q[i - 1])
    BY <1>0, <2>2
  <2>4. ASSUME NEW i \in 1..Len(r), NEW j \in 1..Len(r), r[i] = r[j] PROVE i = j
    <3>1. CASE i = 1 /\ j = 1
      BY <3>1
    <3>2. CASE i = 1 /\ j # 1
      BY <1>0, <2>2, <2>3, <2>4, <3>2
    <3>3. CASE i # 1 /\ j = 1
      BY <1>0, <2>2, <2>3, <2>4, <3>3
    <3>4. CASE i # 1 /\ j # 1
      <4>1. q[i - 1] = q[j - 1] /\ i - 1 \in 1..Len(q) /\ j - 1 \in 1..Len(q)
        BY <1>0, <2>2, <2>3, <2>4, <3>4
      <4> QED  BY <1>0, <2>2, <2>3, <4>1, <3>4
    <3> QED  BY <3>1, <3>2, <3>3, <3>4
  <2> QED  BY <2>2, <2>3, <2>4
<1>2. CASE ~front
  <2>1. r = Append(q, t)
    BY <1>2
  <2>2. /\ r \in Seq(Task) /\ Len(r) = Len(q) + 1 /\ r[Len(q) + 1] = t
        /\ \A i \in 1..Len(q) : r[i] = q[i]
    BY <2>1, AppendProperties
  <2>3. \A i \in 1..Len(r) : i = Len(q) + 1 \/ (i \in 1..Len(q) /\ r[i] = q[i])
    BY <1>0, <2>2
  <2>4. ASSUME NEW i \in 1..Len(r), NEW j \in 1..Len(r), r[i] = r[j] PROVE i = j
    <3>1. CASE i = Len(q) + 1 /\ j = Len(q) + 1
      BY <3>1
    <3>2. CASE i = Len(q) + 1 /\ j # Len(q) + 1
      BY <1>0, <2>2, <2>3, <2>4, <3>2
    <3>3. CASE i # Len(q) + 1 /\ j = Len(q) + 1
      BY <1>0, <2>2, <2>3, <2>4, <3>3
    <3>4. CASE i # Len(q) + 1 /\ j # Len(q) + 1
      <4>1. q[i] = q[j] /\ i \in 1..Len(q) /\ j \in 1..Len(q)
        BY <1>0, <2>2, <2>3, <2>4, <3>4
      <4> QED  BY <1>0, <2>2, <2>3, <4>1, <3>4
    <3> QED  BY <3>1, <3>2, <3>3, <3>4
  <2> QED  BY <2>2, <2>3, <2>4
<1> QED  BY <1>1, <1>2

\* A post keeps the invariant: it starts a worker where one is missing.
LEMMA PostKeeps ==
  ASSUME IInv, NEW t \in Task, NEW front \in BOOLEAN, Post(t, front)
  PROVE  IInv'
<1> USE DEF closing
<1>a. TypeOK /\ Registered /\ Counted /\ OnePlace /\ Capped /\ Served /\ NoLostWakeup
  BY DEF IInv
<1>b. /\ ~stopping /\ t \notin Posted /\ workers = Alive
      /\ UNCHANGED <<done, dropped, parked, task, closing>>
      /\ notifies' = notifies + 1 /\ notifies \in Nat
  BY <1>a DEF Post, Registered, TypeOK
<1>c. /\ queue' \in Seq(Task) /\ Len(queue') = Len(queue) + 1 /\ Len(queue) \in Nat
      /\ Queued' \subseteq Queued \union {t}
      /\ \A i, j \in 1..Len(queue') : queue'[i] = queue'[j] => i = j
  <2>1. queue \in Seq(Task) /\ queue' = IF front THEN <<t>> \o queue ELSE Append(queue, t)
    BY <1>a DEF Post, TypeOK
  <2>2. \A i \in 1..Len(queue) : queue[i] # t
    BY <1>b DEF Posted, Queued
  <2>3. \A i, j \in 1..Len(queue) : queue[i] = queue[j] => i = j
    BY <1>a DEF OnePlace
  <2>4. Len(queue) \in Nat
    BY <2>1
  <2>5. /\ queue' \in Seq(Task) /\ Len(queue') = Len(queue) + 1
        /\ {queue'[i] : i \in 1..Len(queue')} \subseteq {queue[i] : i \in 1..Len(queue)} \union {t}
        /\ \A i, j \in 1..Len(queue') : queue'[i] = queue'[j] => i = j
    BY <2>1, <2>2, <2>3, Pushed
  <2>6. Queued' \subseteq Queued \union {t}
    BY <2>5 DEF Queued
  <2> QED  BY <2>4, <2>5, <2>6
<1>d. OnePlace'
  <2>1. Running' = Running /\ t \notin Running
    BY <1>b DEF Running, Posted
  <2> QED  BY <1>a, <1>b, <1>c, <2>1 DEF OnePlace
<1>e. Alive \in SUBSET Worker /\ Coming \in SUBSET Worker /\ Free \in SUBSET Worker
      /\ Parked \in SUBSET Free
  BY <1>a, <1>b DEF Alive, Coming, Free, TypeOK, Parked
<1>f. Cardinality(Alive) \in Nat /\ Cardinality(Coming) \in Nat /\ Cardinality(Free) \in Nat
      /\ parked <= Cardinality(Free) /\ parked \in Nat
  BY <1>a, <1>e, Countable, Within DEF Counted
<1>1. CASE NeedsWorker(queue') /\ StartWorker
  <2>1. PICK w \in Worker \ workers :
          /\ state[w] = "none" /\ workers' = workers \union {w}
          /\ state' = [state EXCEPT ![w] = "ready"]
    BY <1>1 DEF StartWorker
  <2>2. /\ state' \in [Worker -> WorkerState]
        /\ Alive' = Alive \union {w} /\ Parked' = Parked \ {w} /\ Coming' = Coming \union {w}
    <3>1. "ready" \in WorkerState
      BY DEF WorkerState
    <3> QED  BY <1>a, <2>1, <3>1, Moved
  <2>3. w \notin Alive /\ w \notin Parked /\ w \notin Coming /\ w \notin Free
    BY <1>b, <2>1 DEF Alive, Parked, Coming, Free
  <2>4. failures' = failures
    BY <1>1 DEF StartWorker
  <2>5. TypeOK'
    BY <1>a, <1>b, <1>c, <2>1, <2>2, <2>4 DEF TypeOK
  <2>6. Registered'
    BY <1>a, <1>b, <2>1, <2>2 DEF Registered
  <2>7. Counted'
    <3>1. Parked' = Parked
      BY <2>2, <2>3
    <3> QED  BY <1>a, <1>b, <2>1, <3>1 DEF Counted, TypeOK
  <2>8. Capped'
    <3>1. Cardinality(Alive') = Cardinality(Alive) + 1
      BY <1>e, <2>1, <2>2, <2>3, Grows
    <3>2. Cardinality(Alive) < MaxWorkers
      BY <1>1, <1>b DEF NeedsWorker
    <3> QED  BY <1>f, <3>1, <3>2, PoolAssumption DEF Capped
  <2>9. Served'
    <3>1. Free' = Free \union {w}
      BY <1>a, <2>1 DEF Free, TypeOK
    <3>2. Cardinality(Free') = Cardinality(Free) + 1
      BY <1>e, <2>1, <2>3, <3>1, Grows
    <3>3. Cardinality(workers) # MaxWorkers
      BY <1>1, <1>b, <1>f, PoolAssumption DEF NeedsWorker
    <3> QED  BY <1>a, <1>b, <1>c, <1>f, <2>4, <3>2, <3>3 DEF Served
  <2>10. NoLostWakeup'
    <3>1. Cardinality(Coming') = Cardinality(Coming) + 1
      BY <1>e, <2>1, <2>2, <2>3, Grows
    <3>2. (\E v \in Worker : state'[v] = "asleep") => \E v \in Worker : state[v] = "asleep"
      BY <1>a, <2>1 DEF TypeOK
    <3> QED  BY <1>a, <1>b, <1>c, <1>f, <3>1, <3>2 DEF NoLostWakeup
  <2> QED  BY <1>d, <2>5, <2>6, <2>7, <2>8, <2>9, <2>10 DEF IInv
<1>2. CASE UNCHANGED <<workers, state>> /\ (~NeedsWorker(queue') \/ failures' > 0)
  <2>1. Alive' = Alive /\ Parked' = Parked /\ Coming' = Coming /\ Free' = Free
    BY <1>2 DEF Alive, Parked, Coming, Free
  <2>2. failures' \in 0..MaxFailures /\ failures' >= failures
    <3>1. failures' = failures \/ (failures < MaxFailures /\ failures' = failures + 1)
      <4>1. CASE NeedsWorker(queue')
        BY <4>1, <1>b DEF Post, StartWorker, StartFails
      <4>2. CASE ~NeedsWorker(queue')
        BY <4>2 DEF Post
      <4> QED  BY <4>1, <4>2
    <3>2. failures \in 0..MaxFailures
      BY <1>a DEF TypeOK
    <3> QED  BY <3>1, <3>2, PoolAssumption
  <2>3. TypeOK'
    BY <1>2, <1>a, <1>b, <1>c, <2>2 DEF TypeOK
  <2>4. Registered' /\ Counted' /\ Capped'
    BY <1>2, <1>a, <1>b, <2>1 DEF Registered, Counted, Capped
  <2>5. Served'
    <3>1. CASE failures' > 0
      BY <3>1, <2>2 DEF Served
    <3>2. CASE ~NeedsWorker(queue')
      <4>1. Len(queue') <= parked \/ Cardinality(Alive) >= MaxWorkers
        BY <1>b, <1>c, <1>f, <3>2, PoolAssumption DEF NeedsWorker
      <4>2. Len(queue') <= Cardinality(Free) \/ Cardinality(Alive) = MaxWorkers
        BY <1>a, <1>c, <1>f, <4>1, PoolAssumption DEF Capped
      <4> QED  BY <1>2, <1>b, <2>1, <4>2 DEF Served
    <3> QED  BY <1>2, <3>1, <3>2
  <2>6. NoLostWakeup'
    BY <1>2, <1>a, <1>b, <1>c, <1>f, <2>1 DEF NoLostWakeup
  <2> QED  BY <1>d, <2>3, <2>4, <2>5, <2>6 DEF IInv
<1>3. \/ NeedsWorker(queue') /\ StartWorker
      \/ UNCHANGED <<workers, state>> /\ (~NeedsWorker(queue') \/ failures' > 0)
  <2>1. CASE NeedsWorker(queue')
    <3>1. StartFails => failures' > 0
      BY <1>a, PoolAssumption DEF StartFails, TypeOK
    <3> QED  BY <2>1, <3>1 DEF Post, StartFails
  <2>2. CASE ~NeedsWorker(queue')
    BY <2>2 DEF Post
  <2> QED  BY <2>1, <2>2
<1> QED  BY <1>1, <1>2, <1>3

\* A worker that wakes, or a wake-up with nobody to take it, keeps the invariant.
LEMMA WakeKeeps ==
  ASSUME IInv, notifies' \in Nat,
         UNCHANGED <<tasks, workers, parked, task, closing, failures>>,
         \/ notifies' = notifies - 1 /\ state' = state /\ \A w \in Worker : state[w] # "asleep"
         \/ /\ notifies' = notifies - 1 \/ notifies' = notifies
            /\ \E w \in Worker : state[w] = "asleep" /\ state' = Woken({w})
  PROVE  IInv'
<1> USE DEF closing, tasks
<1>a. TypeOK /\ Registered /\ Counted /\ OnePlace /\ Capped /\ Served /\ NoLostWakeup
  BY DEF IInv
<1>b. OnePlace'
  BY <1>a DEF OnePlace, Queued, Running
<1>1. CASE state' = state /\ \A w \in Worker : state[w] # "asleep"
  <2>1. TypeOK' /\ Registered' /\ Counted' /\ Capped'
    BY <1>1, <1>a DEF TypeOK, Registered, Counted, Capped, Alive, Parked
  <2>2. Served' /\ NoLostWakeup'
    BY <1>1, <1>a DEF Served, Free, NoLostWakeup
  <2> QED  BY <1>b, <2>1, <2>2 DEF IInv
<1>2. CASE /\ notifies' = notifies - 1 \/ notifies' = notifies
           /\ \E w \in Worker : state[w] = "asleep" /\ state' = Woken({w})
  <2>1. PICK w \in Worker : state[w] = "asleep" /\ state' = Woken({w})
    BY <1>2
  <2>2. /\ state' \in [Worker -> WorkerState] /\ Alive' = Alive /\ Parked' = Parked
        /\ \A v \in Worker : state'[v] = "running" <=> state[v] = "running"
    BY <1>a, <2>1, WokenMany
  <2>3. TypeOK' /\ Registered' /\ Capped'
    BY <1>a, <2>2 DEF TypeOK, Registered, Capped
  <2>4. Counted'
    BY <1>a, <2>2 DEF Counted
  <2>5. Served'
    <3>1. Free' = Free
      BY <1>a, <2>2 DEF Free, TypeOK
    <3> QED  BY <1>a, <3>1 DEF Served
  <2>6. NoLostWakeup'
    <3>1. state' = [state EXCEPT ![w] = "woken"] /\ "woken" \in WorkerState
      BY <1>a, <2>1, WokenOne DEF WorkerState
    <3>2. Coming' = Coming \union {w}
      BY <1>a, <3>1, Moved
    <3>3. w \notin Coming /\ Coming \in SUBSET Worker
      BY <2>1 DEF Coming
    <3>4. Cardinality(Coming') = Cardinality(Coming) + 1 /\ Cardinality(Coming) \in Nat
      BY <3>2, <3>3, Grows, Countable
    <3>5. Len(queue) \in Nat /\ notifies \in Nat
      BY <1>a DEF TypeOK
    <3> QED  BY <1>2, <1>a, <2>1, <3>4, <3>5 DEF NoLostWakeup
  <2> QED  BY <1>b, <2>3, <2>4, <2>5, <2>6 DEF IInv
<1> QED  BY <1>1, <1>2

\* Going to sleep, at first or again, keeps the invariant: nothing is queued.
LEMMA SleepKeeps ==
  ASSUME IInv, NEW w \in Worker, state' = [state EXCEPT ![w] = "asleep"], queue = <<>>,
         \/ state[w] = "ready" /\ parked < MaxParked /\ parked' = parked + 1
         \/ state[w] = "woken" /\ parked' = parked,
         UNCHANGED <<tasks, workers, task, closing, notifies, failures>>
  PROVE  IInv'
<1> USE DEF closing, tasks
<1>a. TypeOK /\ Registered /\ Counted /\ OnePlace /\ Capped /\ Served /\ NoLostWakeup
  BY DEF IInv
<1>1. "asleep" \in WorkerState
  BY DEF WorkerState
<1>2. /\ state' \in [Worker -> WorkerState] /\ Alive' = Alive \union {w}
      /\ Parked' = Parked \union {w}
  BY <1>a, <1>1, Moved
<1>3. Alive' = Alive
  BY <1>2 DEF Alive
<1>4. parked' = Cardinality(Parked')
  <2>1. Parked \in SUBSET Worker
    BY DEF Parked
  <2>2. CASE state[w] = "ready" /\ parked' = parked + 1
    BY <1>2, <1>a, <2>1, <2>2, Grows DEF Parked, Counted
  <2>3. CASE state[w] = "woken" /\ parked' = parked
    <3>1. Parked' = Parked
      BY <1>2, <2>3 DEF Parked
    <3> QED  BY <1>a, <2>3, <3>1 DEF Counted
  <2> QED  BY <2>2, <2>3
<1>5. parked' \in 0..MaxParked
  BY <1>a, PoolAssumption DEF TypeOK
<1>6. TypeOK'
  BY <1>a, <1>2, <1>5 DEF TypeOK
<1>7. Registered' /\ Capped'
  BY <1>a, <1>3 DEF Registered, Capped
<1>8. Counted'
  BY <1>a, <1>4 DEF Counted, TypeOK
<1>9. OnePlace'
  BY <1>a DEF OnePlace, Queued, Running
<1>10. Served' /\ NoLostWakeup'
  <2>1. Free' \in SUBSET Worker /\ Coming' \in SUBSET Worker /\ notifies' \in Nat
    BY <1>6 DEF Free, Coming, TypeOK
  <2>2. Cardinality(Free') \in Nat /\ Cardinality(Coming') \in Nat /\ Len(queue') = 0
    BY <2>1, Countable
  <2> QED  BY <2>1, <2>2 DEF Served, NoLostWakeup
<1> QED  BY <1>6, <1>7, <1>8, <1>9, <1>10 DEF IInv

\* A task that ends makes its worker free.
LEMMA FinishKeeps ==
  ASSUME IInv, NEW w \in Worker, Finish(w) PROVE IInv'
<1> USE DEF closing
<1>a. TypeOK /\ Registered /\ Counted /\ OnePlace /\ Capped /\ Served /\ NoLostWakeup
  BY DEF IInv
<1>1. /\ state[w] = "running" /\ state' = [state EXCEPT ![w] = "ready"] /\ "ready" \in WorkerState
      /\ task' = [task EXCEPT ![w] = NoTask] /\ done' = done \union {task[w]}
      /\ UNCHANGED <<queue, dropped, workers, parked, closing, notifies, failures>>
  BY DEF Finish, WorkerState
<1>2. /\ state' \in [Worker -> WorkerState] /\ Alive' = Alive \union {w}
      /\ Parked' = Parked \ {w} /\ Coming' = Coming \union {w}
  BY <1>a, <1>1, Moved
<1>3. Alive' = Alive /\ Parked' = Parked /\ w \notin Coming
  BY <1>1, <1>2 DEF Alive, Parked, Coming
<1>4. TypeOK'
  <2>1. task[w] \in Task
    BY <1>a, <1>1 DEF Counted, TypeOK
  <2> QED  BY <1>a, <1>1, <1>2, <2>1 DEF TypeOK
<1>5. Registered' /\ Capped'
  BY <1>a, <1>1, <1>3 DEF Registered, Capped
<1>6. Counted'
  BY <1>a, <1>1, <1>3 DEF Counted, TypeOK
<1>7. OnePlace'
  <2>1. \A v \in Worker : task'[v] = IF v = w THEN NoTask ELSE task[v]
    BY <1>a, <1>1 DEF TypeOK
  <2>2. Queued' = Queued /\ Running' \subseteq Running
    BY <1>1, <2>1 DEF Queued, Running
  <2> QED  BY <1>a, <1>1, <2>1, <2>2 DEF OnePlace
<1>8. Served'
  <2>1. Free' = Free \union (workers \cap {w})
    BY <1>a, <1>1 DEF Free, TypeOK
  <2>2. Free \in SUBSET Free' /\ Free' \in SUBSET Worker
    BY <1>4, <2>1 DEF Free, TypeOK
  <2>3. Cardinality(Free) <= Cardinality(Free') /\ Cardinality(Free) \in Nat
        /\ Cardinality(Free') \in Nat /\ Len(queue) \in Nat
    BY <1>a, <2>2, Within, Countable DEF TypeOK
  <2> QED  BY <1>a, <1>1, <2>3 DEF Served
<1>9. NoLostWakeup'
  <2>1. Cardinality(Coming') = Cardinality(Coming) + 1 /\ Cardinality(Coming) \in Nat
    <3>1. Coming \in SUBSET Worker
      BY DEF Coming
    <3> QED  BY <1>2, <1>3, <3>1, Grows, Countable
  <2>2. (\E v \in Worker : state'[v] = "asleep") => \E v \in Worker : state[v] = "asleep"
    BY <1>a, <1>1 DEF TypeOK
  <2>3. Len(queue) \in Nat /\ notifies \in Nat
    BY <1>a DEF TypeOK
  <2> QED  BY <1>a, <1>1, <2>1, <2>2, <2>3 DEF NoLostWakeup
<1> QED  BY <1>4, <1>5, <1>6, <1>7, <1>8, <1>9 DEF IInv

\* stop() keeps the invariant: it empties the queue and joins every thread.
LEMMA StopperKeeps ==
  ASSUME IInv, Stopper PROVE IInv'
<1> USE DEF closing, tasks, threads
<1>a. TypeOK /\ Registered /\ Counted /\ OnePlace /\ Capped /\ Served /\ NoLostWakeup
  BY DEF IInv
<1>1. CASE StopSwaps
  <2>1. Alive' = Alive /\ Parked' = Parked
    BY <1>1 DEF StopSwaps, Alive, Parked
  <2>2. TypeOK'
    <3>1. Queued \in SUBSET Task
      BY <1>a DEF TypeOK, Queued
    <3> QED  BY <1>1, <1>a, <3>1 DEF StopSwaps, TypeOK, StopState, TakenOver
  <2>3. Registered' /\ Counted' /\ Capped'
    BY <1>1, <1>a, <2>1 DEF StopSwaps, Registered, Counted, Capped, TakenOver
  <2>4. OnePlace' /\ Served' /\ NoLostWakeup'
    BY <1>1, <1>a DEF StopSwaps, OnePlace, Queued, Running, Served, NoLostWakeup
  <2> QED  BY <2>2, <2>3, <2>4 DEF IInv
<1>2. CASE StopNotifies
  <2>1. /\ state' \in [Worker -> WorkerState] /\ Alive' = Alive /\ Parked' = Parked
        /\ \A v \in Worker : state'[v] = "running" <=> state[v] = "running"
    BY <1>2, <1>a, WokenMany DEF StopNotifies, NotifyAll
  <2>2. TypeOK' /\ Registered' /\ Counted' /\ Capped'
    BY <1>2, <1>a, <2>1 DEF StopNotifies, TypeOK, StopState, Registered, Counted, Capped
  <2>3. OnePlace' /\ Served' /\ NoLostWakeup'
    BY <1>2, <1>a DEF StopNotifies, OnePlace, Queued, Running, Served, NoLostWakeup, Registered
  <2> QED  BY <2>2, <2>3 DEF IInv
<1>3. ASSUME NEW w \in Worker, Join(w) PROVE IInv'
  <2>1. "none" \in WorkerState /\ state' = [state EXCEPT ![w] = "none"]
    BY <1>3 DEF Join, WorkerState
  <2>2. /\ state' \in [Worker -> WorkerState] /\ Alive' = Alive \ {w} /\ Parked' = Parked \ {w}
    BY <1>a, <2>1, Moved
  <2>3. Parked' = Parked
    BY <1>3, <2>2 DEF Join, Parked
  <2>4. TypeOK' /\ Registered' /\ Counted'
    BY <1>3, <1>a, <2>2, <2>3 DEF Join, TypeOK, Registered, Counted
  <2>5. Capped'
    <3>1. Alive \in SUBSET Worker /\ Alive' \in SUBSET Alive /\ Alive' \in SUBSET Worker
      BY <2>2 DEF Alive
    <3> QED  BY <1>a, <3>1, Within, Countable, PoolAssumption DEF Capped
  <2>6. OnePlace' /\ Served' /\ NoLostWakeup'
    BY <1>3, <1>a DEF Join, OnePlace, Queued, Running, Served, NoLostWakeup, Registered
  <2> QED  BY <2>4, <2>5, <2>6 DEF IInv
<1>4. CASE StopReturns
  <2>1. TypeOK' /\ Registered' /\ Counted' /\ Capped'
    BY <1>4, <1>a DEF StopReturns, TypeOK, StopState, Registered, Counted, Capped, Alive, Parked
  <2>2. OnePlace' /\ Served' /\ NoLostWakeup'
    BY <1>4, <1>a DEF StopReturns, OnePlace, Queued, Running, Served, NoLostWakeup, Registered
  <2> QED  BY <2>1, <2>2 DEF IInv
<1> QED  BY <1>1, <1>2, <1>3, <1>4 DEF Stopper

-----------------------------------------------------------------------------
(* The invariant. *)

\* A worker's own step keeps the invariant.
LEMMA LoopKeeps ==
  ASSUME IInv, NEW w \in Worker, Loop(w) PROVE IInv'
<1> USE DEF closing, tasks
<1>1. CASE Enter(w)
  <2>1. CASE MayPark
    BY <1>1, <2>1, SleepKeeps DEF Enter, MayPark
  <2>2. CASE ~MayPark
    <3>1. Parked \ {w} = Parked
      BY <1>1 DEF Enter, Parked
    <3>2. parked' = Cardinality(Parked \ {w})
      BY <1>1, <2>2, <3>1 DEF Enter, IInv, Counted
    <3> QED  BY <1>1, <2>2, <3>2, GoOnKeeps DEF Enter
  <2> QED  BY <2>1, <2>2
<1>2. CASE SleepAgain(w)
  BY <1>2, SleepKeeps DEF SleepAgain, SleepsAgain
<1>3. CASE Unpark(w)
  <2>1. Parked \in SUBSET Worker /\ w \in Parked
    BY <1>3 DEF Unpark, Parked
  <2>2. parked' = Cardinality(Parked \ {w})
    BY <1>3, <2>1, Shrinks DEF Unpark, IInv, Counted
  <2> QED  BY <1>3, <2>2, GoOnKeeps DEF Unpark
<1>4. CASE Finish(w)
  BY <1>4, FinishKeeps
<1> QED  BY <1>1, <1>2, <1>3, <1>4 DEF Loop

\* Every step keeps the inductive invariant.
LEMMA InvariantStep == IInv /\ [Next]_vars => IInv'
<1> SUFFICES ASSUME IInv, [Next]_vars PROVE IInv'
  OBVIOUS
<1>1. ASSUME NEW t \in Task, PostTooLate(t) PROVE IInv'
  <2>1. UNCHANGED <<Alive, Parked, Coming, Free, Queued, Running>>
    BY <1>1 DEF PostTooLate, threads, closing, Alive, Parked, Coming, Free, Queued, Running
  <2>2. TypeOK'
    BY <1>1 DEF PostTooLate, threads, closing, IInv, TypeOK
  <2>3. Registered' /\ Counted'
    BY <1>1, <2>1 DEF PostTooLate, threads, closing, IInv, Registered, Counted
  <2>4. OnePlace' /\ Capped'
    BY <1>1, <2>1 DEF PostTooLate, threads, closing, IInv, OnePlace, Capped
  <2>5. Served' /\ NoLostWakeup'
    BY <1>1, <2>1 DEF PostTooLate, threads, closing, IInv, Served, NoLostWakeup
  <2> QED  BY <2>2, <2>3, <2>4, <2>5 DEF IInv
<1>2. ASSUME NEW t \in Task, NEW front \in BOOLEAN, Post(t, front) PROVE IInv'
  BY <1>2, PostKeeps
<1>3. CASE Notify
  <2>1. notifies' \in Nat
    BY <1>3 DEF Notify, IInv, TypeOK
  <2> QED  BY <1>3, <2>1, WakeKeeps DEF Notify, NotifyOne
<1>4. ASSUME NEW w \in Worker, Loop(w) PROVE IInv'
  BY <1>4, LoopKeeps
<1>5. ASSUME NEW w \in Worker, WakesByItself(w) PROVE IInv'
  <2>1. notifies' \in Nat
    BY <1>5 DEF WakesByItself, IInv, TypeOK
  <2> QED  BY <1>5, <2>1, WakeKeeps DEF WakesByItself
<1>6. CASE Stopper
  BY <1>6, StopperKeeps
<1>7. CASE UNCHANGED vars
  <2>1. UNCHANGED <<Alive, Parked, Coming, Free, Queued, Running>>
    BY <1>7 DEF vars, tasks, threads, closing, Alive, Parked, Coming, Free, Queued, Running
  <2>2. TypeOK'
    BY <1>7 DEF vars, tasks, threads, closing, IInv, TypeOK
  <2>3. Registered' /\ Counted'
    BY <1>7, <2>1 DEF vars, tasks, threads, closing, IInv, Registered, Counted
  <2>4. OnePlace' /\ Capped'
    BY <1>7, <2>1 DEF vars, tasks, threads, closing, IInv, OnePlace, Capped
  <2>5. Served' /\ NoLostWakeup'
    BY <1>7, <2>1 DEF vars, tasks, threads, closing, IInv, Served, NoLostWakeup
  <2> QED  BY <2>2, <2>3, <2>4, <2>5 DEF IInv
<1> QED  BY <1>1, <1>2, <1>3, <1>4, <1>5, <1>6, <1>7 DEF Next, Callers

\* The pool starts with no thread and no task.
LEMMA InvariantInit == Init => IInv
<1> SUFFICES ASSUME Init PROVE IInv
  OBVIOUS
<1>1. Alive = {} /\ Parked = {} /\ Coming = {} /\ Free = {} /\ Running = {} /\ Queued = {}
  BY DEF Init, Alive, Parked, Coming, Free, Running, Queued
<1>2. Cardinality({}) = 0
  BY FS_EmptySet
<1>3. TypeOK
  <2>1. 0 \in 0..MaxParked /\ 0 \in 0..MaxFailures /\ 0 \in Nat
    BY PoolAssumption
  <2>2. <<>> \in Seq(Task)
    OBVIOUS
  <2> QED  BY <2>1, <2>2 DEF Init, TypeOK, WorkerState, StopState
<1> QED  BY <1>1, <1>2, <1>3, PoolAssumption DEF Init, IInv, Registered, Counted, OnePlace,
          Capped, Served, NoLostWakeup

\* The inductive invariant holds in every reachable state.
THEOREM Invariant == Spec => []IInv
BY InvariantInit, InvariantStep, PTL DEF Spec

\* Every variable keeps its type, _parked within its limit, for every pool size.
THEOREM TypeCorrect == Spec => []TypeOK
BY Invariant, PTL DEF IInv

\* Never more threads than the cap, whatever races.
THEOREM CappedHolds == Spec => []Capped
BY Invariant, PTL DEF IInv

\* No capacity is lost to a race of posts, parking and retiring.
THEOREM ServedHolds == Spec => []Served
BY Invariant, PTL DEF IInv

\* No wake-up is lost.
THEOREM NoLostWakeupHolds == Spec => []NoLostWakeup
BY Invariant, PTL DEF IInv

\* After stop() returned nothing runs.
THEOREM StopLeavesNothingHolds == Spec => []StopLeavesNothing
<1>1. IInv => StopLeavesNothing
  <2> SUFFICES ASSUME IInv, stopper = "joined" PROVE Alive = {} /\ Running = {} /\ queue = <<>>
    BY DEF StopLeavesNothing
  <2>1. Alive = {} /\ queue = <<>>
    BY DEF IInv, Registered
  <2>2. Running = {}
    BY <2>1 DEF IInv, Counted, Running, Alive
  <2> QED  BY <2>1, <2>2
<1> QED  BY <1>1, Invariant, PTL

-----------------------------------------------------------------------------
(* The pool implements TaskQueue. *)

\* The tasks under way leave room for one more while a worker looks for work.
LEMMA RoomToRun ==
  ASSUME IInv, NEW w \in Worker, state[w] \in {"ready", "woken"}
  PROVE  Cardinality(Running) < MaxWorkers
<1> DEFINE Busy == {v \in Worker : state[v] = "running"}
           f == [v \in Busy |-> task[v]]
<1>1. Busy \in SUBSET Alive /\ w \in Alive \ Busy /\ Alive \in SUBSET Worker
  BY DEF Alive
<1>2. Busy \in SUBSET (Alive \ {w}) /\ Alive \ {w} \in SUBSET Worker /\ Busy \in SUBSET Worker
  BY <1>1
<1>3. Cardinality(Busy) < MaxWorkers
  <2>1. Cardinality(Alive \ {w}) = Cardinality(Alive) - 1
    BY <1>1, Shrinks
  <2>2. Cardinality(Busy) <= Cardinality(Alive \ {w})
    BY <1>2, Within
  <2>3. Cardinality(Busy) \in Nat /\ Cardinality(Alive) \in Nat
    BY <1>1, <1>2, Countable
  <2> QED  BY <2>1, <2>2, <2>3, PoolAssumption DEF IInv, Capped
<1>4. Running = {task[v] : v \in Busy}
  BY DEF IInv, Counted, Running
<1>5. f \in Surjection(Busy, Running)
  BY <1>4 DEF Surjection
<1>6. IsFiniteSet(Busy)
  BY <1>2, Countable
<1> HIDE DEF Busy, f
<1>7. IsFiniteSet(Running) /\ Cardinality(Running) <= Cardinality(Busy)
  BY <1>5, <1>6, FS_Surjection
<1>8. Cardinality(Running) \in Nat /\ Cardinality(Busy) \in Nat
  BY <1>6, <1>7, FS_CardinalityType
<1> QED  BY <1>3, <1>7, <1>8, PoolAssumption

\* A worker that goes on takes the oldest task, or changes no task.
LEMMA GoOnImplements ==
  ASSUME IInv, NEW w \in Worker, state[w] \in {"ready", "woken"}, GoOn(w),
         UNCHANGED <<done, dropped, closing>>
  PROVE  Promise!Take \/ UNCHANGED Promise!vars
<1> USE DEF closing, Promise!vars
<1>1. CASE EndForStop(w) \/ Retire(w)
  BY <1>1 DEF EndForStop, Retire, Running
<1>2. CASE Take(w)
  <2>1. Cardinality(Running) < MaxWorkers
    BY RoomToRun
  <2>2. task[w] = NoTask /\ Head(queue) # NoTask
    BY <1>2, PoolAssumption DEF IInv, Counted, TypeOK, Take
  <2>3. Running' = Running \union {Head(queue)}
    <3>1. task' = [task EXCEPT ![w] = Head(queue)] /\ task \in [Worker -> Task \union {NoTask}]
      BY <1>2 DEF Take, NextTask, IInv, TypeOK
    <3> QED  BY <2>2, <3>1 DEF Running
  <2>4. queue # <<>> /\ queue' = Tail(queue) /\ UNCHANGED <<done, dropped, stopping>>
    BY <1>2 DEF Take
  <2>5. Promise!Cardinality(Running) = Cardinality(Running)
    BY Zenon DEF Promise!Cardinality, Cardinality
  <2> QED  BY <2>1, <2>3, <2>4, <2>5 DEF Promise!Take
<1> QED  BY <1>1, <1>2 DEF GoOn

\* Every step of the pool is a step of the task queue, or none.
LEMMA StepImplements == IInv /\ [Next]_vars => [Promise!Next]_Promise!vars
<1> SUFFICES ASSUME IInv, [Next]_vars PROVE Promise!Next \/ UNCHANGED Promise!vars
  OBVIOUS
<1> USE DEF closing, tasks, threads, Promise!vars
<1>1. ASSUME NEW t \in Task, PostTooLate(t) PROVE Promise!Next
  BY <1>1 DEF PostTooLate, Posted, Queued, Running, Promise!Next, Promise!Post,
     Promise!Posted, Promise!Queued
<1>2. ASSUME NEW t \in Task, NEW front \in BOOLEAN, Post(t, front) PROVE Promise!Next
  <2>1. Promise!Post(t, front)
    BY <1>2 DEF Post, Posted, Queued, Running, Promise!Post, Promise!Posted, Promise!Queued
  <2> QED  BY <2>1 DEF Promise!Next
<1>3. CASE Notify \/ \E w \in Worker : WakesByItself(w) \/ SleepAgain(w)
  BY <1>3 DEF Notify, WakesByItself, SleepAgain, Running
<1>4. ASSUME NEW w \in Worker, Enter(w) \/ Unpark(w)
      PROVE  Promise!Next \/ UNCHANGED Promise!vars
  <2>1. CASE GoOn(w)
    BY <1>4, <2>1, GoOnImplements DEF Enter, Unpark, Promise!Next
  <2>2. CASE ~GoOn(w)
    BY <1>4, <2>2 DEF Enter, Unpark, Running
  <2> QED  BY <2>1, <2>2
<1>5. ASSUME NEW w \in Worker, Finish(w) PROVE Promise!Next
  <2>1. task[w] \in Task
    BY <1>5 DEF Finish, IInv, Counted, TypeOK
  <2>2. Running' = Running \ {task[w]} /\ task[w] \in Running
    <3>1. task' = [task EXCEPT ![w] = NoTask] /\ task \in [Worker -> Task \union {NoTask}]
          /\ task[w] # NoTask
      BY <1>5, <2>1, PoolAssumption DEF Finish, IInv, TypeOK
    <3>2. \A v \in Worker : task[v] = task[w] => v = w
      BY <3>1 DEF IInv, OnePlace
    <3> QED  BY <3>1, <3>2 DEF Running
  <2>3. Promise!Finish(task[w])
    BY <1>5, <2>2 DEF Finish, Promise!Finish
  <2> QED  BY <2>1, <2>3 DEF Promise!Next
<1>6. CASE Stopper
  <2>1. CASE StopSwaps
    BY <2>1 DEF StopSwaps, Running, Queued, Promise!Next, Promise!Stop, Promise!Queued
  <2>2. CASE StopNotifies \/ StopReturns \/ \E w \in Worker : Join(w)
    BY <2>2 DEF StopNotifies, StopReturns, Join, Running
  <2> QED  BY <1>6, <2>1, <2>2 DEF Stopper
<1>7. CASE UNCHANGED vars
  BY <1>7 DEF vars, Running
<1> QED  BY <1>1, <1>2, <1>3, <1>4, <1>5, <1>6, <1>7 DEF Next, Callers, Loop

\* The pool is what its header promises, for every number of threads and tasks:
\* oldest first, each task once, at most maxWorkers at a time.
THEOREM PoolImplementsTaskQueue == Spec => Implements
<1>1. Init => Promise!Init
  BY DEF Init, Promise!Init, Running
<1> QED  BY <1>1, StepImplements, Invariant, PTL DEF Spec, Implements, Promise!Spec
=============================================================================
