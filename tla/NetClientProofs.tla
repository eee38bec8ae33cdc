---------------------------- MODULE NetClientProofs ----------------------------
(***************************************************************************)
(* NetClient's inductive invariant: each request in one place, a pool task   *)
(* for each in the queue, and what the shutdown leaves. From it, that nobody *)
(* is told anything after the end, and that the client keeps to its pool's   *)
(* contract.                                                                 *)
(***************************************************************************)
EXTENDS NetClient, FiniteSetTheorems, SequenceTheorems, TLAPS

-----------------------------------------------------------------------------
(* The invariant. *)

Elems(q) == {q[i] : i \in 1..Len(q)}
Distinct(q) == \A i, j \in 1..Len(q) : q[i] = q[j] => i = j

\* What a caller was told: only progress so far; only progress before the last.
Going(s) == \A i \in 1..Len(s) : s[i] = "progress"
EndsOnce(s) == \A i \in 1..Len(s) : i < Len(s) => s[i] = "progress"

\* report's closures come before deliver()'s: "it runs first: never after done".
DoneIsLast(q) ==
  \A i, j \in 1..Len(q) : i < j /\ q[i].req = q[j].req => q[i].kind = "progress"

Starting == {k \in Request : at[k] = "start"}

\* The pool's tasks, each in one place.
PoolOK ==
  /\ poolQueue \in Seq(Request) /\ poolRunning \in SUBSET Request /\ poolStopping \in BOOLEAN
  /\ Distinct(poolQueue) /\ Elems(poolQueue) \intersect poolRunning = {}
  /\ IsFiniteSet(poolRunning) /\ Cardinality(poolRunning) <= MaxWorkers

\* A worker for each task taken, a request with each that is past runNext.
Staffed ==
  \A k \in Request :
    /\ at[k] # "idle" <=> k \in poolRunning
    /\ job[k] \in Request <=> at[k] \notin {"idle", "start"}

\* Each request waits, or is with one worker, or its answer is posted.
OnePlace ==
  /\ Distinct(queue) /\ Elems(queue) \subseteq sent
  /\ \A k \in Request : job[k] \in Request => job[k] \in sent /\ job[k] \notin Elems(queue)
  /\ \A k, l \in Request : job[k] = job[l] /\ job[k] \in Request => k = l

\* What is posted is of requests taken; a done, of one no worker has any more.
Posted ==
  /\ \A c \in Elems(loop) : c.req \in sent /\ c.req \notin Elems(queue)
  /\ \A c \in Elems(loop) : c.kind = "done" => \A k \in Request : job[k] # c.req
  /\ DoneIsLast(loop)

\* Whom the callers wait for.
Listening ==
  /\ \A r \in pending : Going(log[r])
  /\ \A r \in Request : r \notin sent => log[r] = <<>>

\* What each step of the destructor leaves.
ShutDown ==
  /\ stopping <=> closing # "no"
  /\ stopping => queue = <<>>
  /\ poolStopping <=> closing \in {"joining", "gone"}
  /\ poolStopping => poolQueue = <<>>
  /\ closing = "gone" => poolRunning = {}

\* A request is with one worker at most, and never again in the queue then.
PerformedOnce ==
  \A k, l \in Request :
    job[k] \in Request => job[k] \notin Elems(queue) /\ (job[k] = job[l] => k = l)

\* No more than kMaxWorkers requests are under way.
WorkersCapped == Cardinality({k \in Request : job[k] \in Request}) <= MaxWorkers

IInv ==
  /\ TypeOK /\ PoolOK /\ Staffed /\ OnePlace /\ Posted /\ Listening /\ ShutDown
  /\ NothingAfterTheEnd /\ TasksEnough

-----------------------------------------------------------------------------
(* Queues and logs. *)

\* A queue without its head.
LEMMA TailOf ==
  ASSUME NEW S, NEW q \in Seq(S), q # <<>>
  PROVE  /\ Tail(q) \in Seq(S) /\ Len(q) \in Nat \ {0} /\ Len(Tail(q)) = Len(q) - 1
         /\ Head(q) \in S /\ Head(q) \in Elems(q) /\ Elems(Tail(q)) \subseteq Elems(q)
         /\ Distinct(q) => Distinct(Tail(q)) /\ Head(q) \notin Elems(Tail(q))
         /\ DoneIsLast(q) => DoneIsLast(Tail(q))
<1>1. /\ Tail(q) \in Seq(S) /\ Len(q) \in Nat \ {0} /\ Len(Tail(q)) = Len(q) - 1
      /\ Head(q) \in S /\ Head(q) = q[1] /\ 1 \in 1..Len(q)
      /\ \A i \in 1..Len(Tail(q)) : i + 1 \in 1..Len(q) /\ Tail(q)[i] = q[i + 1]
  OBVIOUS
<1>2. Head(q) \in Elems(q) /\ Elems(Tail(q)) \subseteq Elems(q)
  BY <1>1 DEF Elems
<1>3. ASSUME Distinct(q) PROVE Distinct(Tail(q)) /\ Head(q) \notin Elems(Tail(q))
  <2>1. Distinct(Tail(q))
    BY <1>1, <1>3 DEF Distinct
  <2>2. \A i \in 1..Len(Tail(q)) : Tail(q)[i] # Head(q)
    BY <1>1, <1>3 DEF Distinct
  <2> QED  BY <2>1, <2>2 DEF Elems
<1>4. ASSUME DoneIsLast(q) PROVE DoneIsLast(Tail(q))
  <2> SUFFICES ASSUME NEW i \in 1..Len(Tail(q)), NEW j \in 1..Len(Tail(q)), i < j,
                      Tail(q)[i].req = Tail(q)[j].req
               PROVE  Tail(q)[i].kind = "progress"
    BY DEF DoneIsLast
  <2>1. i + 1 \in 1..Len(q) /\ j + 1 \in 1..Len(q) /\ i + 1 < j + 1
    BY <1>1
  <2>2. Tail(q)[i] = q[i + 1] /\ Tail(q)[j] = q[j + 1]
    BY <1>1
  <2> QED  BY <1>4, <2>1, <2>2 DEF DoneIsLast
<1> QED  BY <1>1, <1>2, <1>3, <1>4

\* A queue with one more behind.
LEMMA AppendOf ==
  ASSUME NEW S, NEW q \in Seq(S), NEW x \in S
  PROVE  /\ Append(q, x) \in Seq(S) /\ Len(q) \in Nat /\ Len(Append(q, x)) = Len(q) + 1
         /\ Elems(Append(q, x)) = Elems(q) \union {x}
         /\ Distinct(q) /\ x \notin Elems(q) => Distinct(Append(q, x))
<1> DEFINE r == Append(q, x)
<1>1. /\ r \in Seq(S) /\ Len(q) \in Nat /\ Len(r) = Len(q) + 1 /\ r[Len(q) + 1] = x
      /\ \A i \in 1..Len(q) : r[i] = q[i]
  BY AppendProperties
<1> HIDE DEF r
<1>2. \A i \in 1..Len(r) : i = Len(q) + 1 \/ (i \in 1..Len(q) /\ r[i] = q[i])
  BY <1>1
<1>3. Elems(r) = Elems(q) \union {x}
  <2>1. Elems(r) \subseteq Elems(q) \union {x}
    BY <1>1, <1>2 DEF Elems
  <2>2. Elems(q) \subseteq Elems(r) /\ x \in Elems(r)
    BY <1>1 DEF Elems
  <2> QED  BY <2>1, <2>2
<1>4. ASSUME Distinct(q), x \notin Elems(q) PROVE Distinct(r)
  <2>1. \A i \in 1..Len(q) : q[i] # x
    BY <1>4 DEF Elems
  <2> QED  BY <1>1, <1>2, <1>4, <2>1 DEF Distinct
<1> QED  BY <1>1, <1>3, <1>4 DEF r

\* A queue with one taken out, or as it was.
LEMMA WithoutOf ==
  ASSUME NEW S, NEW q \in Seq(S), NEW x
  PROVE  /\ Without(q, x) \in Seq(S) /\ Len(Without(q, x)) \in Nat
         /\ Len(q) \in Nat /\ Len(Without(q, x)) <= Len(q)
         /\ Elems(Without(q, x)) \subseteq Elems(q)
         /\ Distinct(q) => Distinct(Without(q, x))
<1>0. Len(q) \in Nat /\ DOMAIN q = 1..Len(q)
  OBVIOUS
<1>1. CASE \E i \in DOMAIN q : q[i] = x
  <2> DEFINE p == CHOOSE i \in DOMAIN q : q[i] = x
             a == SubSeq(q, 1, p - 1)
             b == SubSeq(q, p + 1, Len(q))
             r == a \o b
  <2>1. p \in 1..Len(q)
    BY <1>0, <1>1
  <2>2. Without(q, x) = r
    BY <1>1 DEF Without, RemoveAt
  <2> HIDE DEF p
  <2>3. a \in Seq(S) /\ Len(a) = p - 1 /\ \A i \in 1..p - 1 : a[i] = q[i]
    BY <1>0, <2>1
  <2>4. b \in Seq(S) /\ Len(b) = Len(q) - p /\ \A i \in 1..Len(b) : b[i] = q[p + i]
    <3>1. \A i \in p + 1..Len(q) : q[i] \in S
      BY <1>0, <2>1
    <3>2. p + 1 \in Int /\ Len(q) \in Int
      BY <1>0, <2>1
    <3>3. /\ b \in Seq(S) /\ Len(b) = IF p + 1 <= Len(q) THEN Len(q) - (p + 1) + 1 ELSE 0
          /\ \A i \in 1..Len(q) - (p + 1) + 1 : b[i] = q[p + 1 + i - 1]
      BY <3>1, <3>2, SubSeqProperties
    <3> HIDE DEF b
    <3>4. Len(b) = Len(q) - p /\ Len(q) - (p + 1) + 1 = Len(q) - p
      <4>1. ASSUME NEW n \in Nat, NEW m \in 1..n
            PROVE  (IF m + 1 <= n THEN n - (m + 1) + 1 ELSE 0) = n - m /\ n - (m + 1) + 1 = n - m
        OBVIOUS
      <4> QED  BY <1>0, <2>1, <3>3, <4>1
    <3>5. \A i \in 1..Len(b) : p + 1 + i - 1 = p + i
      BY <1>0, <2>1, <3>4
    <3> QED  BY <3>3, <3>4, <3>5
  <2> HIDE DEF a, b
  <2>5. r \in Seq(S) /\ Len(r) = Len(q) - 1
        /\ \A i \in 1..Len(r) : r[i] = IF i <= Len(a) THEN a[i] ELSE b[i - Len(a)]
    <3>1. /\ r \in Seq(S) /\ Len(r) = Len(a) + Len(b)
          /\ \A i \in 1..Len(a) + Len(b) : r[i] = IF i <= Len(a) THEN a[i] ELSE b[i - Len(a)]
      BY <2>3, <2>4, ConcatProperties
    <3>2. Len(a) + Len(b) = Len(q) - 1
      BY <1>0, <2>1, <2>3, <2>4
    <3> QED  BY <3>1, <3>2
  <2> HIDE DEF r
  <2>6. \A i \in 1..Len(r) : i < p => i \in 1..Len(q) /\ r[i] = q[i]
    BY <1>0, <2>1, <2>3, <2>5
  <2>7. ASSUME NEW i \in 1..Len(r), i >= p PROVE i + 1 \in 1..Len(q) /\ r[i] = q[i + 1]
    <3>1. i - Len(a) \in 1..Len(b) /\ p + (i - Len(a)) = i + 1
      BY <1>0, <2>1, <2>3, <2>4, <2>5, <2>7
    <3>2. r[i] = b[i - Len(a)]
      BY <1>0, <2>1, <2>3, <2>5, <2>7
    <3> QED  BY <1>0, <2>4, <2>5, <3>1, <3>2
  <2>8. Elems(r) \subseteq Elems(q)
    <3>1. ASSUME NEW i \in 1..Len(r) PROVE r[i] \in Elems(q)
      <4>1. CASE i < p
        BY <2>6, <4>1 DEF Elems
      <4>2. CASE ~(i < p)
        <5>1. i + 1 \in 1..Len(q) /\ r[i] = q[i + 1]
          BY <1>0, <2>1, <2>7, <4>2
        <5> QED  BY <5>1 DEF Elems
      <4> QED  BY <4>1, <4>2
    <3> QED  BY <3>1 DEF Elems
  <2>9. ASSUME Distinct(q), NEW i \in 1..Len(r), NEW j \in 1..Len(r), r[i] = r[j] PROVE i = j
    <3> DEFINE At(k) == IF k < p THEN k ELSE k + 1
    <3>0. \A k \in 1..Len(r) : At(k) \in 1..Len(q) /\ r[k] = q[At(k)]
      BY <1>0, <2>1, <2>6, <2>7
    <3>1. PICK m \in 1..Len(q) : r[i] = q[m] /\ m = At(i)
      BY <3>0
    <3>2. PICK n \in 1..Len(q) : r[j] = q[n] /\ n = At(j)
      BY <3>0
    <3>3. m = n
      BY <2>9, <3>1, <3>2 DEF Distinct
    <3> QED  BY <1>0, <2>1, <2>5, <3>1, <3>2, <3>3
  <2> QED  BY <1>0, <2>1, <2>2, <2>5, <2>8, <2>9 DEF Distinct
<1>2. CASE ~\E i \in DOMAIN q : q[i] = x
  BY <1>0, <1>2 DEF Without
<1> QED  BY <1>1, <1>2

\* Nothing is in the empty queue.
LEMMA NoElems == Elems(<<>>) = {} /\ Distinct(<<>>) /\ Len(<<>>) = 0
  BY DEF Elems, Distinct

\* Telling once more one who is still told.
LEMMA ToldOnce ==
  ASSUME NEW s \in Seq(Told), NEW what \in Told, Going(s)
  PROVE  /\ Append(s, what) \in Seq(Told) /\ EndsOnce(Append(s, what))
         /\ what = "progress" => Going(Append(s, what))
<1> DEFINE t == Append(s, what)
<1>1. /\ t \in Seq(Told) /\ Len(s) \in Nat /\ Len(t) = Len(s) + 1 /\ t[Len(s) + 1] = what
      /\ \A i \in 1..Len(s) : t[i] = s[i]
  BY AppendProperties
<1> HIDE DEF t
<1>2. \A i \in 1..Len(t) : i = Len(s) + 1 \/ (i \in 1..Len(s) /\ t[i] = "progress")
  BY <1>1 DEF Going
<1>3. EndsOnce(t)
  BY <1>1, <1>2 DEF EndsOnce
<1>4. what = "progress" => Going(t)
  BY <1>1, <1>2 DEF Going
<1> QED  BY <1>1, <1>3, <1>4 DEF t

\* A closure posted behind those of its request.
LEMMA PostedBehind ==
  ASSUME NEW q \in Seq(Closure), NEW c \in Closure, DoneIsLast(q),
         \A d \in Elems(q) : d.req = c.req => d.kind = "progress"
  PROVE  DoneIsLast(Append(q, c))
<1> DEFINE r == Append(q, c)
<1>1. /\ Len(q) \in Nat /\ Len(r) = Len(q) + 1 /\ r[Len(q) + 1] = c
      /\ \A i \in 1..Len(q) : r[i] = q[i]
  BY AppendProperties
<1> HIDE DEF r
<1> SUFFICES ASSUME NEW i \in 1..Len(r), NEW j \in 1..Len(r), i < j, r[i].req = r[j].req
             PROVE  r[i].kind = "progress"
  BY DEF DoneIsLast, r
<1>2. i \in 1..Len(q) /\ r[i] = q[i]
  BY <1>1
<1>3. CASE j = Len(q) + 1
  <2>1. q[i] \in Elems(q)
    BY <1>2 DEF Elems
  <2> QED  BY <1>1, <1>2, <1>3, <2>1
<1>4. CASE j # Len(q) + 1
  <2>1. j \in 1..Len(q) /\ r[j] = q[j]
    BY <1>1, <1>4
  <2> QED  BY <1>2, <2>1 DEF DoneIsLast
<1> QED  BY <1>3, <1>4

-----------------------------------------------------------------------------
(* The UI thread's steps. *)

\* Where the workers are is what at, poolRunning and job say.
LEMMA StaffedUnchanged ==
  ASSUME Staffed, UNCHANGED <<at, job, poolRunning>> PROVE Staffed'
  BY DEF Staffed

\* The tasks about to look for a request are some of those running.
LEMMA StartingIs ==
  ASSUME PoolOK, Staffed
  PROVE  /\ Starting \in SUBSET poolRunning /\ IsFiniteSet(Starting)
         /\ Cardinality(Starting) \in Nat
<1>1. Starting \in SUBSET poolRunning
  BY DEF Starting, Staffed
<1> QED  BY <1>1, FS_Subset, FS_CardinalityType DEF PoolOK

\* send(): one request more, and one task for it.
LEMMA SendKeeps ==
  ASSUME IInv, NEW r \in Request, Send(r)
  PROVE  IInv'
<1>a. TypeOK /\ PoolOK /\ Staffed /\ OnePlace /\ Posted /\ Listening /\ ShutDown
  BY DEF IInv
<1>b. /\ closing = "no" /\ r \notin sent /\ sent' = sent \union {r} /\ pending' = pending \union {r}
      /\ queue' = Append(queue, r)
      /\ UNCHANGED <<flag, log, closing, worker, stopping, loop>>
      /\ Pool!Post(r, FALSE)
  BY DEF Send, NeedsTask
<1>c. UNCHANGED <<at, job, hop>>
  BY <1>b DEF worker
<1>d. ~poolStopping /\ ~stopping
  BY <1>a, <1>b DEF ShutDown
<1>e. /\ r \notin Elems(poolQueue) /\ r \notin poolRunning
      /\ poolQueue' = Append(poolQueue, r) /\ UNCHANGED <<poolRunning, poolDone, poolStopping>>
  BY <1>b, <1>d DEF Pool!Post, Pool!Posted, Pool!Queued, Elems
<1>f. /\ queue' \in Seq(Request) /\ Len(queue) \in Nat /\ Len(queue') = Len(queue) + 1
      /\ Elems(queue') = Elems(queue) \union {r}
      /\ Distinct(queue) /\ r \notin Elems(queue) => Distinct(queue')
  BY <1>a, <1>b, AppendOf DEF TypeOK
<1>g. /\ poolQueue' \in Seq(Request) /\ Len(poolQueue) \in Nat
      /\ Len(poolQueue') = Len(poolQueue) + 1
      /\ Elems(poolQueue') = Elems(poolQueue) \union {r} /\ Distinct(poolQueue')
  BY <1>a, <1>e, AppendOf DEF PoolOK
<1>1. TypeOK'
  BY <1>a, <1>b, <1>c, <1>f DEF TypeOK
<1>2. PoolOK'
  BY <1>a, <1>e, <1>g DEF PoolOK
<1>3. Staffed'
  BY <1>a, <1>c, <1>e, StaffedUnchanged
<1>4. OnePlace'
  BY <1>a, <1>b, <1>c, <1>f DEF OnePlace
<1>5. Posted'
  BY <1>a, <1>b, <1>c, <1>f DEF Posted
<1>6. Listening' /\ NothingAfterTheEnd'
  <2>1. log' = log /\ Going(log[r])
    BY <1>a, <1>b DEF Listening, Going
  <2>2. Listening'
    BY <1>a, <1>b, <2>1 DEF Listening
  <2>3. NothingAfterTheEnd'
    BY <2>1 DEF IInv, NothingAfterTheEnd
  <2> QED  BY <2>2, <2>3
<1>7. ShutDown'
  BY <1>a, <1>b, <1>d, <1>e DEF ShutDown
<1>8. TasksEnough'
  <2>1. Starting' = Starting
    BY <1>c DEF Starting
  <2>2. Len(queue) <= Len(poolQueue) + Cardinality(Starting) /\ Cardinality(Starting) \in Nat
    BY <1>a, StartingIs DEF IInv, TasksEnough, Starting
  <2>3. Len(queue') <= Len(poolQueue') + Cardinality(Starting')
    BY <1>f, <1>g, <2>1, <2>2
  <2> QED  BY <2>3 DEF TasksEnough, Starting
<1> QED  BY <1>1, <1>2, <1>3, <1>4, <1>5, <1>6, <1>7, <1>8 DEF IInv

\* cancel(): told so for the last time, and out of the queue.
LEMMA CancelKeeps ==
  ASSUME IInv, NEW r \in Request, Cancel(r)
  PROVE  IInv'
<1>a. TypeOK /\ PoolOK /\ Staffed /\ OnePlace /\ Posted /\ Listening /\ ShutDown
  BY DEF IInv
<1>b. /\ closing = "no" /\ r \in pending /\ flag' = flag \union {r} /\ pending' = pending \ {r}
      /\ queue' = Without(queue, r) /\ log' = [log EXCEPT ![r] = Append(@, "cancelled")]
      /\ UNCHANGED <<sent, closing, worker, stopping, loop, pool>>
  BY DEF Cancel, Tell
<1>c. UNCHANGED <<at, job, hop, poolQueue, poolRunning, poolStopping>>
  BY <1>b DEF worker, pool
<1>d. /\ queue' \in Seq(Request) /\ Len(queue) \in Nat /\ Len(queue') \in Nat
      /\ Len(queue') <= Len(queue) /\ Elems(queue') \subseteq Elems(queue)
      /\ Distinct(queue) => Distinct(queue')
  BY <1>a, <1>b, WithoutOf DEF TypeOK
<1>e. Append(log[r], "cancelled") \in Seq(Told) /\ EndsOnce(Append(log[r], "cancelled"))
  BY <1>a, <1>b, ToldOnce DEF TypeOK, Listening, Told
<1>f. /\ log' \in [Request -> Seq(Told)] /\ EndsOnce(log'[r])
      /\ \A q \in Request : q # r => log'[q] = log[q]
  BY <1>a, <1>b, <1>e DEF TypeOK
<1>1. TypeOK'
  BY <1>a, <1>b, <1>c, <1>d, <1>f DEF TypeOK
<1>2. PoolOK' /\ Staffed'
  BY <1>a, <1>c, StaffedUnchanged DEF PoolOK
<1>3. OnePlace'
  BY <1>a, <1>b, <1>c, <1>d DEF OnePlace
<1>4. Posted'
  BY <1>a, <1>b, <1>c, <1>d DEF Posted
<1>5. Listening'
  BY <1>a, <1>b, <1>f DEF Listening, TypeOK
<1>6. NothingAfterTheEnd'
  BY <1>f DEF IInv, NothingAfterTheEnd, EndsOnce
<1>7. ShutDown'
  <2>1. ~stopping
    BY <1>a, <1>b DEF ShutDown
  <2> QED  BY <1>a, <1>b, <1>c, <2>1 DEF ShutDown
<1>8. TasksEnough'
  <2>1. Starting' = Starting
    BY <1>c DEF Starting
  <2>2. Len(queue) <= Len(poolQueue) + Cardinality(Starting) /\ Cardinality(Starting) \in Nat
    BY <1>a, StartingIs DEF IInv, TasksEnough, Starting
  <2>3. Len(poolQueue) \in Nat
    BY <1>a DEF PoolOK
  <2>4. Len(queue') <= Len(poolQueue') + Cardinality(Starting')
    BY <1>c, <1>d, <2>1, <2>2, <2>3
  <2> QED  BY <2>4 DEF TasksEnough, Starting
<1> QED  BY <1>1, <1>2, <1>3, <1>4, <1>5, <1>6, <1>7, <1>8 DEF IInv

\* The destructor's three steps.
LEMMA DestroyKeeps ==
  ASSUME IInv, DestroyBegins \/ PoolStops \/ DestroyEnds
  PROVE  IInv'
<1>a. TypeOK /\ PoolOK /\ Staffed /\ OnePlace /\ Posted /\ Listening /\ ShutDown
  BY DEF IInv
<1>b. Cardinality(Starting) \in Nat /\ <<>> \in Seq(Request) /\ Len(poolQueue) \in Nat
  BY <1>a, StartingIs DEF PoolOK
<1>1. CASE DestroyBegins
  <2>1. /\ closing = "no" /\ closing' = "begun" /\ stopping' = TRUE /\ flag' = flag \union pending
        /\ queue' = <<>> /\ UNCHANGED <<sent, pending, log, worker, loop, pool>>
    BY <1>1 DEF DestroyBegins
  <2>2. UNCHANGED <<at, job, hop, poolQueue, poolRunning, poolStopping>>
    BY <2>1 DEF worker, pool
  <2>3. Elems(queue') = {} /\ Distinct(queue') /\ Len(queue') = 0
    BY <2>1, NoElems
  <2>4. TypeOK'
    BY <1>a, <1>b, <2>1, <2>2 DEF TypeOK, Closing
  <2>5. PoolOK' /\ Staffed'
    BY <1>a, <2>2, StaffedUnchanged DEF PoolOK
  <2>6. OnePlace' /\ Posted'
    BY <1>a, <2>1, <2>2, <2>3 DEF OnePlace, Posted
  <2>7. Listening' /\ NothingAfterTheEnd'
    BY <1>a, <2>1 DEF Listening, IInv, NothingAfterTheEnd
  <2>8. ShutDown'
    BY <1>a, <2>1, <2>2 DEF ShutDown
  <2>9. TasksEnough'
    <3>1. Starting' = Starting
      BY <2>2 DEF Starting
    <3>2. 0 <= Len(poolQueue') + Cardinality(Starting')
      BY <1>b, <2>2, <3>1
    <3> QED  BY <2>3, <3>2 DEF TasksEnough, Starting
  <2> QED  BY <2>4, <2>5, <2>6, <2>7, <2>8, <2>9 DEF IInv
<1>2. CASE PoolStops
  <2>1. /\ closing = "begun" /\ closing' = "joining"
        /\ UNCHANGED <<sent, pending, flag, log, worker, queue, stopping, loop>>
        /\ poolStopping' = TRUE /\ poolQueue' = <<>> /\ UNCHANGED poolRunning
    BY <1>2 DEF PoolStops, Pool!Stop
  <2>2. UNCHANGED <<at, job, hop>>
    BY <2>1 DEF worker
  <2>3. stopping /\ queue = <<>>
    BY <1>a, <2>1 DEF ShutDown
  <2>4. TypeOK'
    BY <1>a, <2>1, <2>2 DEF TypeOK, Closing
  <2>5. PoolOK' /\ Staffed'
    BY <1>a, <1>b, <2>1, <2>2, NoElems, StaffedUnchanged DEF PoolOK
  <2>6. OnePlace' /\ Posted'
    BY <1>a, <2>1, <2>2 DEF OnePlace, Posted
  <2>7. Listening' /\ NothingAfterTheEnd'
    BY <1>a, <2>1 DEF Listening, IInv, NothingAfterTheEnd
  <2>8. ShutDown'
    BY <1>a, <2>1, <2>3 DEF ShutDown
  <2>9. TasksEnough'
    <3>1. Starting' = Starting
      BY <2>2 DEF Starting
    <3>2. Len(queue') = 0 /\ Len(poolQueue') = 0 /\ 0 <= 0 + Cardinality(Starting')
      BY <1>b, <2>1, <2>3, <3>1, NoElems
    <3> QED  BY <3>2 DEF TasksEnough, Starting
  <2> QED  BY <2>4, <2>5, <2>6, <2>7, <2>8, <2>9 DEF IInv
<1>3. CASE DestroyEnds
  <2>1. /\ closing = "joining" /\ poolRunning = {} /\ closing' = "gone" /\ pending' = {}
        /\ log' = [r \in Request |-> IF r \in pending THEN Append(log[r], "gone") ELSE log[r]]
        /\ UNCHANGED <<sent, flag, worker, queue, stopping, loop, pool>>
    BY <1>3 DEF DestroyEnds, Joined
  <2>2. UNCHANGED <<at, job, hop, poolQueue, poolRunning, poolStopping>>
    BY <2>1 DEF worker, pool
  <2>3. \A r \in pending : Append(log[r], "gone") \in Seq(Told) /\ EndsOnce(Append(log[r], "gone"))
    BY <1>a, ToldOnce DEF TypeOK, Listening, Told
  <2>4. \A r \in Request : log[r] \in Seq(Told) /\ EndsOnce(log[r])
    BY <1>a DEF TypeOK, IInv, NothingAfterTheEnd, EndsOnce
  <2>5. \A r \in Request : log'[r] \in Seq(Told) /\ EndsOnce(log'[r])
    BY <2>1, <2>3, <2>4
  <2>6. TypeOK'
    <3>1. log' \in [Request -> Seq(Told)]
      BY <2>1, <2>3, <2>4
    <3> QED  BY <1>a, <2>1, <2>2, <3>1 DEF TypeOK, Closing
  <2>7. PoolOK' /\ Staffed'
    BY <1>a, <2>2, StaffedUnchanged DEF PoolOK
  <2>8. OnePlace' /\ Posted'
    BY <1>a, <2>1, <2>2 DEF OnePlace, Posted
  <2>9. Listening'
    BY <1>a, <2>1 DEF Listening, TypeOK
  <2>10. NothingAfterTheEnd'
    BY <2>5 DEF NothingAfterTheEnd, EndsOnce
  <2>11. ShutDown'
    BY <1>a, <2>1, <2>2 DEF ShutDown
  <2>12. TasksEnough'
    BY <2>1, <2>2 DEF IInv, TasksEnough
  <2> QED  BY <2>6, <2>7, <2>8, <2>9, <2>10, <2>11, <2>12 DEF IInv
<1> QED  BY <1>1, <1>2, <1>3

\* A closure's turn: heard by a caller who still waits, and by nobody else.
LEMMA TurnKeeps ==
  ASSUME IInv, Turn
  PROVE  IInv'
<1>a. TypeOK /\ PoolOK /\ Staffed /\ OnePlace /\ Posted /\ Listening /\ ShutDown
  BY DEF IInv
<1> DEFINE r == Head(loop).req
           what == Head(loop).kind
<1>b. /\ loop # <<>> /\ loop' = Tail(loop)
      /\ UNCHANGED <<sent, flag, closing, worker, queue, stopping, pool>>
      /\ IF r \in pending
         THEN /\ log' = [log EXCEPT ![r] = Append(@, what)]
              /\ pending' = IF what = "done" THEN pending \ {r} ELSE pending
         ELSE UNCHANGED <<log, pending>>
  BY DEF Turn, Heard, Tell
<1>c. UNCHANGED <<at, job, hop, poolQueue, poolRunning, poolStopping>>
  BY <1>b DEF worker, pool
<1>d. /\ loop' \in Seq(Closure) /\ Head(loop) \in Closure
      /\ Elems(loop') \subseteq Elems(loop) /\ DoneIsLast(loop')
  BY <1>a, <1>b, TailOf DEF TypeOK, Posted
<1>e. r \in Request /\ what \in {"progress", "done"}
  BY <1>d DEF Closure
<1> HIDE DEF r, what
<1>f. /\ pending' \in SUBSET pending /\ log' \in [Request -> Seq(Told)]
      /\ \A q \in pending' : Going(log'[q])
      /\ \A q \in Request : EndsOnce(log'[q])
      /\ \A q \in Request : q \notin pending => log'[q] = log[q]
  <2>1. /\ log \in [Request -> Seq(Told)] /\ \A q \in Request : EndsOnce(log[q])
        /\ \A q \in pending : Going(log[q])
    BY <1>a DEF TypeOK, IInv, NothingAfterTheEnd, EndsOnce, Listening
  <2>2. CASE r \in pending
    <3>1. what \in Told
      BY <1>e DEF Told
    <3>2. /\ Append(log[r], what) \in Seq(Told) /\ EndsOnce(Append(log[r], what))
          /\ what = "progress" => Going(Append(log[r], what))
      BY <1>e, <2>1, <2>2, <3>1, ToldOnce
    <3>3. /\ log' \in [Request -> Seq(Told)] /\ log'[r] = Append(log[r], what)
          /\ \A q \in Request : q # r => log'[q] = log[q]
      BY <1>b, <1>e, <2>1, <2>2, <3>2
    <3>4. pending' = IF what = "done" THEN pending \ {r} ELSE pending
      BY <1>b, <2>2
    <3>5. pending \in SUBSET Request
      BY <1>a DEF TypeOK
    <3> QED  BY <1>e, <2>1, <2>2, <3>2, <3>3, <3>4, <3>5
  <2>3. CASE r \notin pending
    BY <1>b, <2>1, <2>3
  <2> QED  BY <2>2, <2>3
<1>1. TypeOK'
  BY <1>a, <1>b, <1>c, <1>d, <1>f DEF TypeOK
<1>2. PoolOK' /\ Staffed'
  BY <1>a, <1>c, StaffedUnchanged DEF PoolOK
<1>3. OnePlace' /\ Posted'
  BY <1>a, <1>b, <1>c, <1>d DEF OnePlace, Posted
<1>4. Listening'
  BY <1>a, <1>b, <1>f DEF Listening, TypeOK
<1>5. NothingAfterTheEnd'
  BY <1>f DEF NothingAfterTheEnd, EndsOnce
<1>6. ShutDown' /\ TasksEnough'
  BY <1>a, <1>b, <1>c DEF ShutDown, IInv, TasksEnough
<1> QED  BY <1>1, <1>2, <1>3, <1>4, <1>5, <1>6 DEF IInv

-----------------------------------------------------------------------------
(* A worker's steps. *)

\* A pool task taken: one less queued, one more looking for a request.
LEMMA TakeKeeps ==
  ASSUME IInv, NEW k \in Request, TakeTask(k)
  PROVE  IInv'
<1>a. TypeOK /\ PoolOK /\ Staffed /\ OnePlace /\ Posted /\ Listening /\ ShutDown
  BY DEF IInv
<1>b. /\ poolQueue # <<>> /\ k = Head(poolQueue) /\ poolQueue' = Tail(poolQueue)
      /\ Cardinality(poolRunning) < MaxWorkers
      /\ poolRunning' = poolRunning \union {k} /\ UNCHANGED poolStopping
      /\ at' = [at EXCEPT ![k] = "start"] /\ UNCHANGED <<ui, job, hop, queue, stopping, loop>>
  <2>1. Pool!Cardinality(poolRunning) = Cardinality(poolRunning)
    BY Zenon DEF Pool!Cardinality, Cardinality
  <2> QED  BY <2>1 DEF TakeTask, Pool!Take
<1>c. UNCHANGED <<sent, pending, flag, log, closing>>
  BY <1>b DEF ui
<1>d. /\ poolQueue' \in Seq(Request) /\ Len(poolQueue) \in Nat \ {0}
      /\ Len(poolQueue') = Len(poolQueue) - 1 /\ k \in Elems(poolQueue)
      /\ Elems(poolQueue') \subseteq Elems(poolQueue)
      /\ Distinct(poolQueue') /\ k \notin Elems(poolQueue')
  BY <1>a, <1>b, TailOf DEF PoolOK
<1>e. k \notin poolRunning /\ at[k] = "idle"
  BY <1>a, <1>d DEF PoolOK, Staffed
<1>f. /\ at' \in [Request -> Place] /\ at'[k] = "start"
      /\ \A l \in Request : l # k => at'[l] = at[l]
  BY <1>a, <1>b DEF TypeOK, Place
<1>1. TypeOK'
  BY <1>a, <1>b, <1>c, <1>f DEF TypeOK
<1>2. PoolOK'
  <2>1. /\ IsFiniteSet(poolRunning') /\ Cardinality(poolRunning') = Cardinality(poolRunning) + 1
        /\ Cardinality(poolRunning) \in Nat
    BY <1>a, <1>b, <1>e, FS_AddElement, FS_CardinalityType DEF PoolOK
  <2>2. Cardinality(poolRunning') <= MaxWorkers
    BY <1>b, <2>1, ClientAssumption
  <2> QED  BY <1>a, <1>b, <1>d, <2>1, <2>2 DEF PoolOK
<1>3. Staffed'
  BY <1>a, <1>b, <1>e, <1>f DEF Staffed
<1>4. OnePlace' /\ Posted'
  BY <1>a, <1>b, <1>c DEF OnePlace, Posted
<1>5. Listening' /\ NothingAfterTheEnd'
  BY <1>a, <1>c DEF Listening, IInv, NothingAfterTheEnd
<1>6. ShutDown'
  <2>1. ~poolStopping
    BY <1>a, <1>b DEF ShutDown
  <2> QED  BY <1>a, <1>b, <1>c, <2>1 DEF ShutDown
<1>7. TasksEnough'
  <2>1. Starting' = Starting \union {k} /\ k \notin Starting
    BY <1>e, <1>f DEF Starting
  <2>2. Cardinality(Starting') = Cardinality(Starting) + 1 /\ Cardinality(Starting) \in Nat
    BY <1>a, <2>1, StartingIs, FS_AddElement
  <2>3. Len(queue) <= Len(poolQueue) + Cardinality(Starting) /\ Len(queue) \in Nat
    BY <1>a DEF IInv, TasksEnough, Starting, TypeOK
  <2>4. Len(queue') <= Len(poolQueue') + Cardinality(Starting')
    BY <1>b, <1>d, <2>2, <2>3
  <2> QED  BY <2>4 DEF TasksEnough, Starting
<1> QED  BY <1>1, <1>2, <1>3, <1>4, <1>5, <1>6, <1>7 DEF IInv

\* A worker that goes from one place past runNext to another.
LEMMA MoveKeeps ==
  ASSUME IInv, NEW k \in Request, NEW place \in {"hop", "wire", "got", "post"},
         at[k] \in {"hop", "wire", "got", "post"}, at' = [at EXCEPT ![k] = place],
         hop' \in [Request -> 0..MaxRedirects],
         UNCHANGED <<ui, job, queue, stopping, loop, pool>>
  PROVE  IInv'
<1>a. TypeOK /\ PoolOK /\ Staffed /\ OnePlace /\ Posted /\ Listening /\ ShutDown
  BY DEF IInv
<1>b. UNCHANGED <<sent, pending, flag, log, closing, poolQueue, poolRunning, poolStopping, job, queue,
                  stopping, loop>>
  BY DEF ui, pool
<1>c. /\ at' \in [Request -> Place] /\ at'[k] = place
      /\ \A l \in Request : l # k => at'[l] = at[l]
  BY <1>a DEF TypeOK, Place
<1>1. TypeOK'
  BY <1>a, <1>b, <1>c DEF TypeOK
<1>2. PoolOK'
  BY <1>a, <1>b DEF PoolOK
<1>3. Staffed'
  <2> SUFFICES ASSUME NEW l \in Request
               PROVE  /\ at'[l] # "idle" <=> l \in poolRunning
                      /\ job[l] \in Request <=> at'[l] \notin {"idle", "start"}
    BY <1>b DEF Staffed
  <2>1. CASE l = k
    BY <1>a, <1>c, <2>1 DEF Staffed
  <2>2. CASE l # k
    BY <1>a, <1>c, <2>2 DEF Staffed
  <2> QED  BY <2>1, <2>2
<1>4. OnePlace' /\ Posted'
  BY <1>a, <1>b DEF OnePlace, Posted
<1>5. Listening' /\ NothingAfterTheEnd' /\ ShutDown'
  BY <1>a, <1>b DEF Listening, IInv, NothingAfterTheEnd, ShutDown
<1>6. TasksEnough'
  <2>1. Starting' = Starting
    BY <1>c DEF Starting
  <2> QED  BY <1>b, <2>1 DEF IInv, TasksEnough, Starting
<1> QED  BY <1>1, <1>2, <1>3, <1>4, <1>5, <1>6 DEF IInv

\* A pool task that ends, its answer posted or not. One that was looking for a
\* request and had none found the queue empty.
LEMMA OverKeeps ==
  ASSUME IInv, NEW k \in Request, at[k] # "idle", Over(k),
         at[k] = "start" => queue = <<>>,
         \/ UNCHANGED loop
         \/ /\ loop' = Append(loop, [req |-> job[k], kind |-> "done"])
            /\ job[k] \in Request,
         UNCHANGED <<ui, queue, stopping>>
  PROVE  IInv'
<1>a. TypeOK /\ PoolOK /\ Staffed /\ OnePlace /\ Posted /\ Listening /\ ShutDown
  BY DEF IInv
<1>b. /\ at' = [at EXCEPT ![k] = "idle"] /\ job' = [job EXCEPT ![k] = NoRequest]
      /\ hop' = [hop EXCEPT ![k] = 0]
      /\ poolRunning' = poolRunning \ {k} /\ UNCHANGED <<poolQueue, poolStopping>>
  BY DEF Over, Pool!Finish
<1>c. UNCHANGED <<sent, pending, flag, log, closing>>
  BY DEF ui
<1>d. /\ at' \in [Request -> Place] /\ at'[k] = "idle" /\ job'[k] = NoRequest
      /\ job' \in [Request -> Request \union {NoRequest}] /\ hop' \in [Request -> 0..MaxRedirects]
      /\ \A l \in Request : l # k => at'[l] = at[l] /\ job'[l] = job[l]
  BY <1>a, <1>b, ClientAssumption DEF TypeOK, Place
<1>e. NoRequest \notin Request
  BY ClientAssumption
<1>f. /\ loop' \in Seq(Closure) /\ DoneIsLast(loop')
      /\ \A c \in Elems(loop') : c \in Elems(loop) \/ (c.req = job[k] /\ job[k] \in Request)
  <2>1. CASE UNCHANGED loop
    BY <1>a, <2>1 DEF TypeOK, Posted
  <2>2. CASE loop' = Append(loop, [req |-> job[k], kind |-> "done"]) /\ job[k] \in Request
    <3> DEFINE c == [req |-> job[k], kind |-> "done"]
    <3>1. c \in Closure /\ c.req = job[k]
      BY <2>2 DEF Closure
    <3>2. \A d \in Elems(loop) : d \in Closure
      BY <1>a DEF TypeOK, Elems
    <3>3. \A d \in Elems(loop) : d.req = c.req => d.kind = "progress"
      BY <1>a, <3>1, <3>2 DEF Posted, Closure
    <3> HIDE DEF c
    <3>4. loop \in Seq(Closure) /\ DoneIsLast(loop) /\ loop' = Append(loop, c)
      BY <1>a, <2>2 DEF TypeOK, Posted, c
    <3>5. loop' \in Seq(Closure) /\ Elems(loop') = Elems(loop) \union {c}
      BY <3>1, <3>4, AppendOf
    <3>6. DoneIsLast(loop')
      BY <3>1, <3>3, <3>4, PostedBehind
    <3> QED  BY <2>2, <3>1, <3>5, <3>6
  <2> QED  BY <2>1, <2>2
<1>1. TypeOK'
  BY <1>a, <1>c, <1>d, <1>f DEF TypeOK
<1>2. PoolOK'
  <2>1. IsFiniteSet(poolRunning') /\ Cardinality(poolRunning') <= Cardinality(poolRunning)
    BY <1>a, <1>b, FS_Subset DEF PoolOK
  <2>2. Cardinality(poolRunning') \in Nat /\ Cardinality(poolRunning) \in Nat
    BY <1>a, <2>1, FS_CardinalityType DEF PoolOK
  <2>3. Cardinality(poolRunning') <= MaxWorkers
    BY <1>a, <2>1, <2>2, ClientAssumption DEF PoolOK
  <2> QED  BY <1>a, <1>b, <2>1, <2>3 DEF PoolOK
<1>3. Staffed'
  BY <1>a, <1>b, <1>d, <1>e DEF Staffed
<1>4. OnePlace'
  BY <1>a, <1>c, <1>d, <1>e DEF OnePlace
<1>5. Posted'
  <2>1. \A c \in Elems(loop') : c.req \in sent /\ c.req \notin Elems(queue)
    BY <1>a, <1>f DEF Posted, OnePlace
  <2>2. ASSUME NEW c \in Elems(loop'), c.kind = "done", NEW l \in Request PROVE job'[l] # c.req
    <3>0. c.req \in Request
      BY <1>a, <2>1 DEF TypeOK
    <3>1. CASE l = k
      BY <1>d, <1>e, <3>0, <3>1
    <3>2. CASE l # k /\ c \in Elems(loop)
      BY <1>a, <1>d, <2>2, <3>2 DEF Posted
    <3>3. CASE l # k /\ c.req = job[k] /\ job[k] \in Request
      BY <1>a, <1>d, <3>3 DEF OnePlace
    <3> QED  BY <1>f, <3>1, <3>2, <3>3
  <2> QED  BY <1>c, <1>f, <2>1, <2>2 DEF Posted
<1>6. Listening' /\ NothingAfterTheEnd'
  BY <1>a, <1>c DEF Listening, IInv, NothingAfterTheEnd
<1>7. ShutDown'
  BY <1>a, <1>b, <1>c DEF ShutDown
<1>8. TasksEnough'
  <2>1. Starting' = Starting \ {k}
    BY <1>d DEF Starting
  <2>2. /\ IsFiniteSet(Starting) /\ Cardinality(Starting) \in Nat
        /\ Len(poolQueue) \in Nat /\ Len(queue) \in Nat
    BY <1>a, StartingIs DEF PoolOK, TypeOK
  <2>3. Len(queue) <= Len(poolQueue) + Cardinality(Starting)
    BY DEF IInv, TasksEnough, Starting
  <2>4. CASE at[k] = "start"
    <3>1. Cardinality(Starting') \in Nat
      BY <2>1, <2>2, FS_RemoveElement, FS_CardinalityType
    <3>2. Len(queue') = 0
      BY <2>4, NoElems
    <3>3. Len(queue') <= Len(poolQueue') + Cardinality(Starting')
      BY <1>b, <2>2, <3>1, <3>2
    <3> QED  BY <3>3 DEF TasksEnough, Starting
  <2>5. CASE at[k] # "start"
    <3>1. Starting' = Starting
      BY <2>1, <2>5 DEF Starting
    <3> QED  BY <1>b, <2>3, <3>1 DEF TasksEnough, Starting
  <2> QED  BY <2>4, <2>5
<1> QED  BY <1>1, <1>2, <1>3, <1>4, <1>5, <1>6, <1>7, <1>8 DEF IInv

\* runNext with a request to take.
LEMMA TakenKeeps ==
  ASSUME IInv, NEW k \in Request, at[k] = "start", ~stopping, queue # <<>>, RunNext(k)
  PROVE  IInv'
<1>a. TypeOK /\ PoolOK /\ Staffed /\ OnePlace /\ Posted /\ Listening /\ ShutDown
  BY DEF IInv
<1>b. /\ job' = [job EXCEPT ![k] = Head(queue)] /\ queue' = Tail(queue)
      /\ at' = [at EXCEPT ![k] = "hop"] /\ UNCHANGED <<hop, pool>>
      /\ UNCHANGED <<ui, stopping, loop>>
  BY DEF RunNext
<1>c. UNCHANGED <<sent, pending, flag, log, closing, poolQueue, poolRunning, poolStopping>>
  BY <1>b DEF ui, pool
<1>d. /\ queue' \in Seq(Request) /\ Len(queue) \in Nat \ {0} /\ Len(queue') = Len(queue) - 1
      /\ Head(queue) \in Request /\ Head(queue) \in Elems(queue)
      /\ Elems(queue') \subseteq Elems(queue)
      /\ Distinct(queue') /\ Head(queue) \notin Elems(queue')
  BY <1>a, <1>b, TailOf DEF TypeOK, OnePlace
<1>e. /\ at' \in [Request -> Place] /\ at'[k] = "hop"
      /\ job' \in [Request -> Request \union {NoRequest}] /\ job'[k] = Head(queue)
      /\ \A l \in Request : l # k => at'[l] = at[l] /\ job'[l] = job[l]
  BY <1>a, <1>b, <1>d DEF TypeOK, Place
<1>1. TypeOK'
  BY <1>a, <1>b, <1>c, <1>d, <1>e DEF TypeOK
<1>2. PoolOK'
  BY <1>a, <1>c DEF PoolOK
<1>3. Staffed'
  BY <1>a, <1>c, <1>d, <1>e DEF Staffed
<1>4. OnePlace'
  <2>1. \A l \in Request : job'[l] \in Request => job'[l] \in sent /\ job'[l] \notin Elems(queue')
    BY <1>a, <1>d, <1>e DEF OnePlace
  <2>2. \A l \in Request : l # k => job'[l] # Head(queue)
    BY <1>a, <1>d, <1>e DEF OnePlace
  <2>3. \A l, m \in Request : job'[l] = job'[m] /\ job'[l] \in Request => l = m
    BY <1>a, <1>e, <2>2 DEF OnePlace
  <2> QED  BY <1>a, <1>c, <1>d, <2>1, <2>3 DEF OnePlace
<1>5. Posted'
  <2>1. \A c \in Elems(loop) : c.req # Head(queue)
    BY <1>a, <1>d DEF Posted
  <2>2. \A c \in Elems(loop) : c.kind = "done" => \A l \in Request : job'[l] # c.req
    BY <1>a, <1>e, <2>1 DEF Posted
  <2> QED  BY <1>a, <1>b, <1>c, <1>d, <2>2 DEF Posted
<1>6. Listening' /\ NothingAfterTheEnd'
  BY <1>a, <1>c DEF Listening, IInv, NothingAfterTheEnd
<1>7. ShutDown'
  BY <1>a, <1>b, <1>c DEF ShutDown
<1>8. TasksEnough'
  <2>1. Starting' = Starting \ {k} /\ k \in Starting
    BY <1>e DEF Starting
  <2>2. Cardinality(Starting') = Cardinality(Starting) - 1 /\ Cardinality(Starting) \in Nat
    BY <1>a, <2>1, StartingIs, FS_RemoveElement
  <2>3. Len(queue) <= Len(poolQueue) + Cardinality(Starting) /\ Len(poolQueue) \in Nat
    BY <1>a DEF IInv, TasksEnough, Starting, PoolOK
  <2>4. Len(queue') <= Len(poolQueue') + Cardinality(Starting')
    BY <1>c, <1>d, <2>2, <2>3
  <2> QED  BY <2>4 DEF TasksEnough, Starting
<1> QED  BY <1>1, <1>2, <1>3, <1>4, <1>5, <1>6, <1>7, <1>8 DEF IInv

\* report(): progress of a request that a worker has, so no done waits before it.
LEMMA ReportKeeps ==
  ASSUME IInv, NEW k \in Request, Report(k)
  PROVE  IInv'
<1>a. TypeOK /\ PoolOK /\ Staffed /\ OnePlace /\ Posted /\ Listening /\ ShutDown
  BY DEF IInv
<1> DEFINE note == [req |-> job[k], kind |-> "progress"]
<1>b. /\ at[k] = "wire" /\ loop' = Append(loop, note)
      /\ UNCHANGED <<ui, worker, queue, stopping, pool>>
  BY DEF Report
<1>c. UNCHANGED <<sent, pending, flag, log, closing, at, job, hop, poolQueue, poolRunning, poolStopping>>
  BY <1>b DEF ui, worker, pool
<1>d. job[k] \in Request
  BY <1>a, <1>b DEF Staffed
<1>e. note \in Closure /\ note.req = job[k] /\ note.kind = "progress"
  BY <1>d DEF Closure
<1>f. \A d \in Elems(loop) : d.req = note.req => d.kind = "progress"
  <2>1. \A d \in Elems(loop) : d \in Closure
    BY <1>a DEF TypeOK, Elems
  <2> QED  BY <1>a, <1>e, <2>1 DEF Posted, Closure
<1> HIDE DEF note
<1>g. loop' \in Seq(Closure) /\ Elems(loop') = Elems(loop) \union {note} /\ DoneIsLast(loop')
  <2>1. loop \in Seq(Closure) /\ DoneIsLast(loop)
    BY <1>a DEF TypeOK, Posted
  <2>2. loop' \in Seq(Closure) /\ Elems(loop') = Elems(loop) \union {note}
    BY <1>b, <1>e, <2>1, AppendOf
  <2>3. DoneIsLast(loop')
    BY <1>b, <1>e, <1>f, <2>1, PostedBehind
  <2> QED  BY <2>2, <2>3
<1>1. TypeOK'
  BY <1>a, <1>b, <1>c, <1>g DEF TypeOK
<1>2. PoolOK' /\ Staffed'
  BY <1>a, <1>c, StaffedUnchanged DEF PoolOK
<1>3. OnePlace'
  BY <1>a, <1>b, <1>c DEF OnePlace
<1>4. Posted'
  <2>1. note.req \in sent /\ note.req \notin Elems(queue)
    BY <1>a, <1>d, <1>e DEF OnePlace
  <2> QED  BY <1>a, <1>b, <1>c, <1>e, <1>g, <2>1 DEF Posted
<1>5. Listening' /\ NothingAfterTheEnd' /\ ShutDown' /\ TasksEnough'
  BY <1>a, <1>b, <1>c DEF Listening, IInv, NothingAfterTheEnd, ShutDown, TasksEnough
<1> QED  BY <1>1, <1>2, <1>3, <1>4, <1>5 DEF IInv

\* Whatever a worker does in its task keeps the invariant.
LEMMA WorkKeeps ==
  ASSUME IInv, NEW k \in Request, Work(k)
  PROVE  IInv'
<1>a. hop \in [Request -> 0..MaxRedirects] /\ MaxRedirects \in Nat
  BY ClientAssumption DEF IInv, TypeOK
<1>1. CASE RunNext(k)
  <2>1. CASE stopping \/ queue = <<>>
    <3>1. queue = <<>>
      BY <2>1 DEF IInv, ShutDown
    <3>2. at[k] = "start" /\ Over(k) /\ UNCHANGED <<ui, queue, stopping, loop>>
      BY <1>1, <2>1 DEF RunNext
    <3> QED  BY <3>1, <3>2, OverKeeps
  <2>2. CASE ~(stopping \/ queue = <<>>)
    BY <1>1, <2>2, TakenKeeps DEF RunNext
  <2> QED  BY <2>1, <2>2
<1>2. CASE BeginHop(k)
  <2>1. at[k] = "hop" /\ UNCHANGED <<ui, queue, stopping, loop>>
    BY <1>2 DEF BeginHop
  <2>2. CASE Over(k)
    BY <2>1, <2>2, OverKeeps
  <2>3. CASE GoTo(k, "wire")
    BY <1>a, <2>1, <2>3, MoveKeeps DEF GoTo
  <2>4. CASE GoTo(k, "got")
    BY <1>a, <2>1, <2>4, MoveKeeps DEF GoTo
  <2> QED  BY <1>2, <2>2, <2>3, <2>4 DEF BeginHop
<1>3. CASE Exchange(k)
  <2>1. at[k] = "wire" /\ UNCHANGED <<ui, queue, stopping, loop>>
    BY <1>3 DEF Exchange
  <2>2. CASE GoTo(k, "got")
    BY <1>a, <2>1, <2>2, MoveKeeps DEF GoTo
  <2>3. CASE /\ MayRedirect(k)
             /\ at' = [at EXCEPT ![k] = "hop"] /\ hop' = [hop EXCEPT ![k] = @ + 1]
             /\ UNCHANGED <<job, pool>>
    <3>1. hop[k] + 1 \in 0..MaxRedirects
      BY <1>a, <2>3 DEF MayRedirect
    <3>2. hop' \in [Request -> 0..MaxRedirects]
      BY <1>a, <2>3, <3>1
    <3> QED  BY <2>1, <2>3, <3>2, MoveKeeps
  <2> QED  BY <1>3, <2>2, <2>3 DEF Exchange
<1>4. CASE HandleAnswer(k)
  <2>1. at[k] = "got" /\ UNCHANGED <<ui, queue, stopping, loop>>
    BY <1>4 DEF HandleAnswer
  <2>2. CASE Over(k)
    BY <2>1, <2>2, OverKeeps
  <2>3. CASE GoTo(k, "post")
    BY <1>a, <2>1, <2>3, MoveKeeps DEF GoTo
  <2> QED  BY <1>4, <2>2, <2>3 DEF HandleAnswer
<1>5. CASE PostAnswer(k)
  <2>1. /\ at[k] = "post" /\ Over(k) /\ UNCHANGED <<ui, queue, stopping>>
        /\ loop' = Append(loop, [req |-> job[k], kind |-> "done"])
    BY <1>5 DEF PostAnswer
  <2>2. job[k] \in Request
    BY <2>1 DEF IInv, Staffed
  <2> QED  BY <2>1, <2>2, OverKeeps
<1> QED  BY <1>1, <1>2, <1>3, <1>4, <1>5 DEF Work

-----------------------------------------------------------------------------
(* The theorems. *)

\* Every step keeps the inductive invariant.
LEMMA InvariantStep == IInv /\ [Next]_vars => IInv'
<1> SUFFICES ASSUME IInv, [Next]_vars PROVE IInv'
  OBVIOUS
<1>1. CASE DestroyBegins \/ PoolStops \/ DestroyEnds
  BY <1>1, DestroyKeeps
<1>2. ASSUME NEW r \in Request, Send(r) PROVE IInv'
  BY <1>2, SendKeeps
<1>3. ASSUME NEW r \in Request, Cancel(r) PROVE IInv'
  BY <1>3, CancelKeeps
<1>4. CASE Turn
  BY <1>4, TurnKeeps
<1>5. ASSUME NEW k \in Request, TakeTask(k) PROVE IInv'
  BY <1>5, TakeKeeps
<1>6. ASSUME NEW k \in Request, Work(k) PROVE IInv'
  BY <1>6, WorkKeeps
<1>7. ASSUME NEW k \in Request, Report(k) PROVE IInv'
  BY <1>7, ReportKeeps
<1>8. CASE UNCHANGED vars
  <2>1. /\ UNCHANGED <<sent, pending, flag, log, closing, at, job, hop, queue, stopping, loop>>
        /\ UNCHANGED <<poolQueue, poolRunning, poolStopping>>
    BY <1>8 DEF vars, ui, worker, pool
  <2>2. TypeOK' /\ PoolOK' /\ Staffed'
    BY <2>1, StaffedUnchanged DEF IInv, TypeOK, PoolOK
  <2>3. OnePlace' /\ Posted' /\ Listening'
    BY <2>1 DEF IInv, OnePlace, Posted, Listening
  <2>4. ShutDown' /\ NothingAfterTheEnd' /\ TasksEnough'
    BY <2>1 DEF IInv, ShutDown, NothingAfterTheEnd, TasksEnough
  <2> QED  BY <2>2, <2>3, <2>4 DEF IInv
<1> QED  BY <1>1, <1>2, <1>3, <1>4, <1>5, <1>6, <1>7, <1>8 DEF Next, Calls

\* The client starts with no request and no worker.
LEMMA InvariantInit == Init => IInv
<1> SUFFICES ASSUME Init PROVE IInv
  OBVIOUS
<1>1. /\ sent = {} /\ pending = {} /\ flag = {} /\ queue = <<>> /\ stopping = FALSE
      /\ closing = "no" /\ at = [k \in Request |-> "idle"] /\ job = [k \in Request |-> NoRequest]
      /\ hop = [k \in Request |-> 0] /\ loop = <<>> /\ log = [r \in Request |-> <<>>]
      /\ poolQueue = <<>> /\ poolRunning = {} /\ poolStopping = FALSE
  BY DEF Init, Pool!Init
<1>2. TypeOK
  <2>1. 0 \in 0..MaxRedirects /\ <<>> \in Seq(Request) /\ <<>> \in Seq(Closure) /\ <<>> \in Seq(Told)
    BY ClientAssumption
  <2> QED  BY <1>1, <2>1 DEF TypeOK, Closing, Place
<1>3. PoolOK
  <2>1. IsFiniteSet({}) /\ Cardinality({}) = 0 /\ 0 <= MaxWorkers /\ <<>> \in Seq(Request)
    BY FS_EmptySet, ClientAssumption
  <2> QED  BY <1>1, <2>1, NoElems DEF PoolOK
<1>4. Staffed /\ OnePlace
  BY <1>1, NoElems, ClientAssumption DEF Staffed, OnePlace
<1>5. Posted /\ Listening /\ ShutDown
  BY <1>1, NoElems DEF Posted, DoneIsLast, Listening, ShutDown
<1>6. NothingAfterTheEnd
  BY <1>1 DEF NothingAfterTheEnd
<1>7. TasksEnough
  <2>1. Starting = {}
    BY <1>1 DEF Starting
  <2>2. Cardinality(Starting) = 0
    BY <2>1, FS_EmptySet
  <2> QED  BY <1>1, <2>2 DEF TasksEnough, Starting
<1> QED  BY <1>2, <1>3, <1>4, <1>5, <1>6, <1>7 DEF IInv

\* The inductive invariant holds in every reachable state.
THEOREM Invariant == Spec => []IInv
BY InvariantInit, InvariantStep, PTL DEF Spec

\* Every variable keeps its type, the redirects within their limit, whatever it is.
THEOREM TypeCorrect == Spec => []TypeOK
BY Invariant, PTL DEF IInv

\* No caller is told anything after done, after cancel(), or after the Client is gone.
THEOREM NothingAfterTheEndHolds == Spec => []NothingAfterTheEnd
BY Invariant, PTL DEF IInv

\* Each request in the queue has a pool task still to look for one.
THEOREM TasksEnoughHolds == Spec => []TasksEnough
BY Invariant, PTL DEF IInv

\* Once ~Client returned no worker runs and nothing is queued.
THEOREM QuietOnceGoneHolds == Spec => []QuietOnceGone
<1>1. IInv => QuietOnceGone
  BY DEF IInv, ShutDown, QuietOnceGone
<1> QED  BY <1>1, Invariant, PTL

\* Each request is performed by one worker, though each took whichever was the oldest.
THEOREM PerformedOnceHolds == Spec => []PerformedOnce
<1>1. IInv => PerformedOnce
  BY DEF IInv, OnePlace, PerformedOnce
<1> QED  BY <1>1, Invariant, PTL

\* No progress is posted behind the done of its request, and no second done
\* ("it runs first: never after done").
THEOREM DoneIsLastHolds == Spec => []DoneIsLast(loop)
BY Invariant, PTL DEF IInv, Posted

\* However many requests are sent, kMaxWorkers at most are under way at a time.
THEOREM WorkersCappedHolds == Spec => []WorkersCapped
<1>1. IInv => WorkersCapped
  <2> SUFFICES ASSUME IInv PROVE WorkersCapped
    OBVIOUS
  <2> DEFINE Busy == {k \in Request : job[k] \in Request}
  <2>1. Busy \in SUBSET poolRunning
    BY DEF IInv, Staffed
  <2>2. /\ IsFiniteSet(poolRunning) /\ Cardinality(poolRunning) <= MaxWorkers
    BY DEF IInv, PoolOK
  <2> HIDE DEF Busy
  <2>3. /\ IsFiniteSet(Busy) /\ Cardinality(Busy) <= Cardinality(poolRunning)
    BY <2>1, <2>2, FS_Subset
  <2>4. Cardinality(Busy) \in Nat /\ Cardinality(poolRunning) \in Nat
    BY <2>2, <2>3, FS_CardinalityType
  <2>5. Cardinality(Busy) <= MaxWorkers
    BY <2>2, <2>3, <2>4, ClientAssumption
  <2> QED  BY <2>5 DEF WorkersCapped, Busy
<1> QED  BY <1>1, Invariant, PTL

-----------------------------------------------------------------------------
(* The client and its pool. *)

\* What a step does to the pool is a step of its contract, or none.
LEMMA StepUsesPool == [Next]_vars => [Pool!Next]_(Pool!vars)
<1> SUFFICES ASSUME [Next]_vars PROVE Pool!Next \/ UNCHANGED Pool!vars
  OBVIOUS
<1> USE DEF pool, Pool!vars
<1>1. ASSUME NEW r \in Request, Send(r) PROVE Pool!Next
  BY <1>1 DEF Send, NeedsTask, Pool!Next
<1>2. CASE (\E r \in Request : Cancel(r)) \/ DestroyBegins \/ DestroyEnds \/ Turn
  BY <1>2 DEF Cancel, DestroyBegins, DestroyEnds, Turn
<1>3. CASE PoolStops
  BY <1>3 DEF PoolStops, Pool!Next
<1>4. ASSUME NEW k \in Request, TakeTask(k) \/ Report(k) PROVE Pool!Next \/ UNCHANGED Pool!vars
  BY <1>4 DEF TakeTask, Report, Pool!Next
<1>5. ASSUME NEW k \in Request, Work(k) PROVE Pool!Next \/ UNCHANGED Pool!vars
  <2>1. Over(k) => Pool!Next
    BY DEF Over, Pool!Next
  <2> QED  BY <1>5, <2>1 DEF Work, RunNext, BeginHop, Exchange, HandleAnswer, PostAnswer, GoTo
<1>6. CASE UNCHANGED vars
  BY <1>6 DEF vars
<1> QED  BY <1>1, <1>2, <1>3, <1>4, <1>5, <1>6 DEF Next, Calls

\* The client never asks of its pool what TaskQueue, which WorkerPool implements,
\* does not offer: no task twice, none finished that was not taken.
THEOREM ClientKeepsPoolContract == Spec => Pool!Spec
<1>1. Init => Pool!Init
  BY DEF Init
<1> QED  BY <1>1, StepUsesPool, PTL DEF Spec, Pool!Spec
=============================================================================
