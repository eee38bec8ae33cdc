---------------------------- MODULE CacheDiskProofs ----------------------------
(***************************************************************************)
(* CacheDisk's inductive invariant. Its core: what write() believes written *)
(* is on disk or on its way there unless its last write failed, and what    *)
(* the Store holds is on disk, on its way, or due. From it, that a quit      *)
(* keeps everything and that a clear and a sign-out are final.               *)
(***************************************************************************)
EXTENDS CacheDisk, FiniteSetTheorems, SequenceTheorems, TLAPS

-----------------------------------------------------------------------------
(* The invariant. *)

\* The cache c may still write.
Live(c) == c = cache /\ phase \in {"open", "writing", "draining"}

\* What a cache's queue, the entry in hand and the disk make of a file.
FilesIn(q) == {q[i].file : i \in 1..Len(q)}
OneEach(q) == \A i, j \in 1..Len(q) : q[i].file = q[j].file => i = j
Latest(q, h, d, f) ==
  IF f \in FilesIn(q) THEN q[CHOOSE i \in 1..Len(q) : q[i].file = f].data
  ELSE IF h.file = f THEN h.data ELSE d[f]
Now(f) == Latest(queue[cache], hand, disk, f)

\* Its last write failed, and none is on its way.
Failing(f) == f \in lost /\ f \notin FilesIn(queue[cache]) /\ hand.file # f

\* The cache is the newest one, from after the last clear and its wipe.
Own == cache # 0 /\ gen[cache] = clearGen /\ ~shadowed

\* The UI thread's phases.
Phases ==
  /\ cache = 0 => phase = "none" /\ closing = "no"
  /\ phase = "open" => closing = "no"
  /\ phase = "writing" => closing # "sign out"
  /\ phase = "draining" => closing # "no"
  /\ phase = "removing" => closing = "sign out"
  /\ phase # "writing" => pass = {}
  /\ phase \notin {"open", "writing"} => dirty = {} /\ slow = {}
  /\ phase = "writing" /\ closing = "keep" => dirty = {} /\ slow = {}
  /\ phase = "writing" /\ closing = "keep" /\ Own /\ dots => "users" \in pass
  /\ phase = "draining" /\ closing = "keep" /\ Own => ~dots
  /\ dots => "users" \in File
  /\ slow \subseteq {"roster", "users"}

\* One holder of diskMutex; only a cache that may still write has an entry in hand.
Mutex ==
  /\ holder \in {"none", "wipe"} => serving = 0 /\ hand = NoEntry
  /\ holder \in {"worker", "ui"} => serving \in 1..cache
  /\ holder = "ui" => phase = "draining" /\ serving = cache
  /\ hand # NoEntry => Live(serving)
  /\ holder = "wipe" => wipes > 0

\* draining tells that a worker is asked or at work.
Drains ==
  \A c \in Cache :
    /\ drains[c] <= 1
    /\ ~Live(c) => queue[c] = <<>>
    /\ queue[c] # <<>> => draining[c]
    /\ Live(c) /\ drains[c] = 1 => draining[c]
    /\ Live(c) /\ holder = "worker" /\ serving = c => draining[c] /\ drains[c] = 0
    /\ Live(c) /\ draining[c] => drains[c] = 1 \/ (holder \in {"worker", "ui"} /\ serving = c)
    /\ c > cache => drains[c] = 0 /\ ~draining[c]

\* The generations, and the wipes each clear has still to come.
Generations ==
  /\ \A c \in Cache : gen[c] <= clearGen
  /\ wipes <= clearGen
  /\ Own => wipes = 0
  /\ hand # NoEntry /\ gen[serving] # clearGen => wipes > 0

\* Nothing is written of a conversation that is not open.
Untracked ==
  "messages" \in File /\ ~tracked /\ phase # "none" =>
    /\ "messages" \notin dirty /\ "messages" \notin pass
    /\ "messages" \notin FilesIn(queue[cache]) /\ hand.file # "messages"

\* What write() believes.
Believes ==
  phase # "none" /\ Own =>
    \A f \in File : written[f] \in {Nothing, Now(f)} \/ (Failing(f) /\ f \in failed[cache])

\* What waits to be written, and that it is something.
Due(f) == f \in dirty \/ f \in slow \/ f \in pass \/ (f = "users" /\ dots)
Filled == \A f \in File : Due(f) => store[f] # Nothing

\* What the Store holds is on disk or on its way, or due.
Synced ==
  phase \in {"open", "writing", "draining"} /\ closing # "sign out" /\ Own =>
    \A f \in File :
      store[f] # Nothing /\ (f = "messages" => tracked)
        => Now(f) = store[f] \/ Due(f) \/ Failing(f)

IInv ==
  /\ TypeOK /\ Phases /\ Mutex /\ Drains /\ Generations /\ Untracked /\ Filled /\ Believes
  /\ Synced /\ WipedStaysWiped /\ SignedOutIsGone /\ KeptAtClose

-----------------------------------------------------------------------------
(* Queues of entries, and what they make of a file. *)

LEMMA Bounds == MaxCaches \in Nat \ {0} /\ MaxClears \in Nat /\ MaxEdits \in Nat /\ MaxFailures \in Nat
  BY Zenon, DiskAssumption

LEMMA Numbers ==
  ASSUME TypeOK
  PROVE  /\ cache \in Nat /\ cache <= MaxCaches /\ MaxCaches \in Nat /\ (cache # 0 => cache \in Cache)
         /\ clearGen \in Nat /\ clearGen <= MaxClears /\ MaxClears \in Nat
         /\ wipes \in Nat /\ wipes <= MaxClears
<1>1. cache \in 0..MaxCaches /\ clearGen \in 0..MaxClears /\ wipes \in 0..MaxClears
  BY DEF TypeOK
<1> QED  BY <1>1, Bounds DEF Cache

LEMMA NothingIs == /\ NoEntry.file = Nothing /\ Nothing \notin File /\ Nothing \notin Data /\ NoEntry \notin Entry
                   /\ \A e \in Entry : e.file \in File /\ e.data \in Data
  BY DiskAssumption DEF NoEntry, Entry

\* The one entry of a file in a queue is its latest bytes.
LEMMA LatestQueued ==
  ASSUME NEW q \in Seq(Entry), OneEach(q), NEW i \in 1..Len(q), NEW h, NEW d
  PROVE  Latest(q, h, d, q[i].file) = q[i].data
<1> DEFINE f == q[i].file
           p == CHOOSE j \in 1..Len(q) : q[j].file = f
<1>1. p \in 1..Len(q) /\ q[p].file = f
  OBVIOUS
<1>2. p = i
  BY <1>1 DEF OneEach
<1>3. f \in FilesIn(q)
  BY DEF FilesIn
<1>4. Latest(q, h, d, f) = q[p].data
  BY <1>3 DEF Latest
<1> QED  BY <1>2, <1>4

\* A file not queued is as the entry in hand has it, or the disk.
LEMMA LatestElse ==
  ASSUME NEW q, NEW h, NEW d, NEW f, f \notin FilesIn(q)
  PROVE  Latest(q, h, d, f) = IF h.file = f THEN h.data ELSE d[f]
  BY DEF Latest

\* Put writes over the file's entry, or appends one.
LEMMA PutIs ==
  ASSUME NEW q \in Seq(Entry), NEW e \in Entry
  PROVE  /\ Put(q, e) \in Seq(Entry) /\ Len(Put(q, e)) \in {Len(q), Len(q) + 1} /\ Len(q) \in Nat
         /\ \A i \in 1..Len(q) : Put(q, e)[i] = IF q[i].file = e.file THEN e ELSE q[i]
         /\ Len(Put(q, e)) = Len(q) + 1
              => Put(q, e)[Len(q) + 1] = e /\ \A i \in 1..Len(q) : q[i].file # e.file
         /\ Len(Put(q, e)) = Len(q) => \E i \in 1..Len(q) : q[i].file = e.file
<1> DEFINE r == Put(q, e)
<1>0. Len(q) \in Nat
  OBVIOUS
<1>1. CASE \E i \in 1..Len(q) : q[i].file = e.file
  <2>1. r = [i \in 1..Len(q) |-> IF q[i].file = e.file THEN e ELSE q[i]]
    BY <1>1 DEF Put
  <2>2. \A i \in 1..Len(q) : q[i] \in Entry
    OBVIOUS
  <2> HIDE DEF r
  <2>3. r \in Seq(Entry) /\ Len(r) = Len(q)
    <3>1. r \in [1..Len(q) -> Entry]
      BY <2>1, <2>2
    <3> QED  BY <1>0, <3>1
  <2>4. \A i \in 1..Len(q) : r[i] = IF q[i].file = e.file THEN e ELSE q[i]
    BY <2>1
  <2> QED  BY <1>0, <1>1, <2>3, <2>4 DEF r
<1>2. CASE ~\E i \in 1..Len(q) : q[i].file = e.file
  <2>1. r = Append(q, e)
    BY <1>2 DEF Put
  <2> HIDE DEF r
  <2>2. /\ r \in Seq(Entry) /\ Len(r) = Len(q) + 1 /\ r[Len(q) + 1] = e
        /\ \A i \in 1..Len(q) : r[i] = q[i]
    BY <2>1, AppendProperties
  <2> QED  BY <1>0, <1>2, <2>2 DEF r
<1> QED  BY <1>1, <1>2

\* The new bytes are the file's latest, the other files' stay.
LEMMA PutOf ==
  ASSUME NEW q \in Seq(Entry), OneEach(q), NEW e \in Entry, NEW h, NEW d
  PROVE  /\ Put(q, e) \in Seq(Entry) /\ OneEach(Put(q, e)) /\ Put(q, e) # <<>>
         /\ FilesIn(Put(q, e)) = FilesIn(q) \union {e.file}
         /\ Latest(Put(q, e), h, d, e.file) = e.data
         /\ \A g : g # e.file => Latest(Put(q, e), h, d, g) = Latest(q, h, d, g)
<1> DEFINE r == Put(q, e)
           n == Len(r)
<1>1. /\ r \in Seq(Entry) /\ n \in {Len(q), Len(q) + 1} /\ Len(q) \in Nat
      /\ \A i \in 1..Len(q) : r[i] = IF q[i].file = e.file THEN e ELSE q[i]
      /\ n = Len(q) + 1 => r[Len(q) + 1] = e /\ \A i \in 1..Len(q) : q[i].file # e.file
      /\ n = Len(q) => \E i \in 1..Len(q) : q[i].file = e.file
  BY PutIs
<1> HIDE DEF n, r
<1>m. n \in Nat
  BY <1>1
<1>2. \A i \in 1..n : i \in 1..Len(q) \/ (i = Len(q) + 1 /\ n = Len(q) + 1)
  BY <1>1
<1>3. \A i \in 1..Len(q) : i \in 1..n /\ r[i].file = q[i].file
  BY <1>1
<1>n. n = Len(r)
  BY DEF n
<1>e. PICK k \in 1..n : r[k] = e
  <2>1. CASE n = Len(q) + 1
    BY <1>1, <2>1
  <2>2. CASE n = Len(q)
    BY <1>1, <2>2
  <2> QED  BY <1>1, <2>1, <2>2
<1>4. OneEach(r)
  <2> SUFFICES ASSUME NEW i \in 1..n, NEW j \in 1..n, r[i].file = r[j].file PROVE i = j
    BY <1>n DEF OneEach
  <2>1. CASE i \in 1..Len(q) /\ j \in 1..Len(q)
    BY <1>3, <2>1 DEF OneEach
  <2>2. CASE i \in 1..Len(q) /\ j \notin 1..Len(q)
    <3>1. n = Len(q) + 1 /\ j = Len(q) + 1
      BY <1>2, <2>2
    <3> QED  BY <1>1, <1>3, <2>2, <3>1
  <2>3. CASE i \notin 1..Len(q) /\ j \in 1..Len(q)
    <3>1. n = Len(q) + 1 /\ i = Len(q) + 1
      BY <1>2, <2>3
    <3> QED  BY <1>1, <1>3, <2>3, <3>1
  <2>4. CASE i \notin 1..Len(q) /\ j \notin 1..Len(q)
    BY <1>2, <2>4
  <2> QED  BY <2>1, <2>2, <2>3, <2>4
<1>5. FilesIn(r) = FilesIn(q) \union {e.file}
  <2>1. ASSUME NEW i \in 1..n PROVE r[i].file \in FilesIn(q) \union {e.file}
    <3>1. CASE i \in 1..Len(q)
      BY <1>3, <3>1 DEF FilesIn
    <3>2. CASE i \notin 1..Len(q)
      BY <1>1, <1>2, <3>2
    <3> QED  BY <3>1, <3>2
  <2>2. ASSUME NEW i \in 1..Len(q) PROVE q[i].file \in FilesIn(r)
    BY <1>3, <1>n DEF FilesIn
  <2>3. e.file \in FilesIn(r)
    BY <1>e, <1>n DEF FilesIn
  <2> QED  BY <1>n, <2>1, <2>2, <2>3 DEF FilesIn
<1>6. Latest(r, h, d, e.file) = e.data
  BY <1>1, <1>4, <1>e, <1>n, LatestQueued
<1>7. ASSUME NEW g, g # e.file PROVE Latest(r, h, d, g) = Latest(q, h, d, g)
  <2>1. CASE g \in FilesIn(q)
    <3>1. PICK i \in 1..Len(q) : q[i].file = g
      BY <2>1 DEF FilesIn
    <3>2. i \in 1..Len(r) /\ r[i] = q[i]
      BY <1>1, <1>3, <1>7, <1>n, <3>1
    <3>3. Latest(q, h, d, g) = q[i].data
      BY <3>1, LatestQueued
    <3>4. Latest(r, h, d, r[i].file) = r[i].data
      BY <1>1, <1>4, <3>2, LatestQueued
    <3> QED  BY <3>1, <3>2, <3>3, <3>4
  <2>2. CASE g \notin FilesIn(q)
    BY <1>5, <1>7, <2>2, LatestElse
  <2> QED  BY <2>1, <2>2
<1>8. r # <<>>
  BY <1>1, <1>e, <1>n
<1> QED  BY <1>1, <1>4, <1>5, <1>6, <1>7, <1>8 DEF r

\* The head in hand, the file's latest bytes are what they were.
LEMMA PopOf ==
  ASSUME NEW q \in Seq(Entry), OneEach(q), q # <<>>, NEW d
  PROVE  /\ Tail(q) \in Seq(Entry) /\ OneEach(Tail(q)) /\ Head(q) \in Entry
         /\ FilesIn(Tail(q)) = FilesIn(q) \ {Head(q).file} /\ Head(q).file \in FilesIn(q)
         /\ \A f \in File : Latest(Tail(q), Head(q), d, f) = Latest(q, NoEntry, d, f)
<1> DEFINE t == Tail(q)
           h == Head(q)
<1>1. /\ t \in Seq(Entry) /\ h \in Entry /\ Len(q) \in Nat \ {0} /\ Len(t) = Len(q) - 1
      /\ h = q[1] /\ 1 \in 1..Len(q)
      /\ \A i \in 1..Len(t) : i + 1 \in 1..Len(q) /\ t[i] = q[i + 1]
  OBVIOUS
<1> HIDE DEF t, h
<1>2. OneEach(t)
  BY <1>1 DEF OneEach
<1>3. \A i \in 1..Len(q) : i = 1 \/ (i - 1 \in 1..Len(t) /\ q[i] = t[i - 1])
  BY <1>1
<1>4. \A i \in 1..Len(t) : t[i].file # h.file
  BY <1>1 DEF OneEach
<1>5. FilesIn(t) = FilesIn(q) \ {h.file} /\ h.file \in FilesIn(q)
  <2>1. h.file \in FilesIn(q)
    BY <1>1 DEF FilesIn
  <2>2. \A i \in 1..Len(t) : t[i].file \in FilesIn(q)
    BY <1>1 DEF FilesIn
  <2>3. \A i \in 1..Len(q) : q[i].file = h.file \/ q[i].file \in FilesIn(t)
    BY <1>1, <1>3 DEF FilesIn
  <2> QED  BY <1>4, <2>1, <2>2, <2>3 DEF FilesIn
<1>6. ASSUME NEW f \in File PROVE Latest(t, h, d, f) = Latest(q, NoEntry, d, f)
  <2>1. CASE f = h.file
    <3>1. Latest(t, h, d, f) = h.data
      BY <1>5, <2>1, LatestElse
    <3>2. Latest(q, NoEntry, d, f) = h.data
      BY <1>1, <2>1, LatestQueued
    <3> QED  BY <3>1, <3>2
  <2>2. CASE f # h.file /\ f \in FilesIn(t)
    <3>1. PICK i \in 1..Len(t) : t[i].file = f
      BY <2>2 DEF FilesIn
    <3>2. Latest(t, h, d, f) = t[i].data
      BY <1>1, <1>2, <3>1, LatestQueued
    <3>3. i + 1 \in 1..Len(q) /\ t[i] = q[i + 1]
      BY <1>1
    <3>4. Latest(q, NoEntry, d, q[i + 1].file) = q[i + 1].data
      BY <3>3, LatestQueued
    <3> QED  BY <3>1, <3>2, <3>3, <3>4
  <2>3. CASE f # h.file /\ f \notin FilesIn(t)
    <3>1. f \notin FilesIn(q)
      BY <1>5, <2>3
    <3> QED  BY <2>3, <3>1, LatestElse, NothingIs
  <2> QED  BY <2>1, <2>2, <2>3
<1> QED  BY <1>1, <1>2, <1>5, <1>6 DEF t, h

\* Landed, a file's latest bytes are what they were.
LEMMA LandOf ==
  ASSUME NEW q, NEW h \in Entry, NEW d \in [File -> Data \union {Nothing}], NEW f \in File
  PROVE  Latest(q, NoEntry, [d EXCEPT ![h.file] = h.data], f) = Latest(q, h, d, f)
<1>1. h.file \in File
  BY NothingIs
<1>2. CASE f \in FilesIn(q)
  BY <1>2 DEF Latest
<1>3. CASE f \notin FilesIn(q)
  <2>1. Latest(q, h, d, f) = IF h.file = f THEN h.data ELSE d[f]
    BY <1>3, LatestElse
  <2> DEFINE landed == [d EXCEPT ![h.file] = h.data]
  <2>2. Latest(q, NoEntry, landed, f) = landed[f]
    <3> HIDE DEF landed
    <3>1. NoEntry.file # f
      BY NothingIs
    <3> QED  BY <1>3, <3>1, LatestElse
  <2> QED  BY <1>1, <2>1, <2>2
<1> QED  BY <1>2, <1>3

\* A failed write loses the bytes of a file that is not queued again, and no other's.
LEMMA FailOf ==
  ASSUME NEW q, NEW h, NEW d, NEW f \in File, f \in FilesIn(q) \/ h.file # f
  PROVE  Latest(q, NoEntry, d, f) = Latest(q, h, d, f)
<1>1. CASE f \in FilesIn(q)
  BY <1>1 DEF Latest
<1>2. CASE f \notin FilesIn(q)
  BY <1>2, LatestElse, NothingIs
<1> QED  BY <1>1, <1>2

\* An empty queue has nothing of any file.
LEMMA LatestEmpty ==
  ASSUME NEW d, NEW f \in File
  PROVE  FilesIn(<<>>) = {} /\ Latest(<<>>, NoEntry, d, f) = d[f]
<1>1. FilesIn(<<>>) = {}
  BY DEF FilesIn
<1> QED  BY <1>1, LatestElse, NothingIs

-----------------------------------------------------------------------------
(* What a step that leaves a part's variables alone keeps. *)

LEMMA LatestSame ==
  ASSUME UNCHANGED <<cache, queue, hand, disk>>
  PROVE  \A f : Now(f)' = Now(f)
  BY DEF Now

LEMMA OwnSame ==
  ASSUME UNCHANGED <<cache, gen, clearGen, shadowed>>
  PROVE  Own' = Own
  BY DEF Own

LEMMA MutexSame ==
  ASSUME Mutex, UNCHANGED <<cache, phase, holder, serving, hand, wipes>>
  PROVE  Mutex'
  BY DEF Mutex, Live

LEMMA DrainsSame ==
  ASSUME Drains, UNCHANGED <<cache, phase, queue, draining, drains, holder, serving>>
  PROVE  Drains'
  BY DEF Drains, Live

LEMMA GenerationsSame ==
  ASSUME Generations, UNCHANGED <<cache, gen, clearGen, wipes, shadowed, hand, serving>>
  PROVE  Generations'
  BY DEF Generations, Own

LEMMA BelievesSame ==
  ASSUME Believes, UNCHANGED <<cache, phase, gen, clearGen, shadowed, written, queue, hand, disk, lost, failed>>
  PROVE  Believes'
  BY DEF Believes, Own, Now, Failing

LEMMA WipedSame ==
  ASSUME WipedStaysWiped, UNCHANGED <<wipes, disk, from, clearGen>>
  PROVE  WipedStaysWiped'
  BY DEF WipedStaysWiped

LEMMA SignedOutSame ==
  ASSUME SignedOutIsGone, UNCHANGED <<phase, closing, disk>>
  PROVE  SignedOutIsGone'
  BY DEF SignedOutIsGone

LEMMA KeptSame ==
  ASSUME KeptAtClose, UNCHANGED <<phase, closing, cache, gen, clearGen, shadowed, store, tracked, lost, disk>>
  PROVE  KeptAtClose'
  BY DEF KeptAtClose, Kept

\* Both hold of themselves while the cache is open.
LEMMA NotClosed ==
  ASSUME phase' # "none" PROVE SignedOutIsGone' /\ KeptAtClose'
  BY DEF SignedOutIsGone, KeptAtClose

-----------------------------------------------------------------------------
(* Changes of the Store, and the marks. *)

\* A change that leaves its file due.
LEMMA ChangeKeeps ==
  ASSUME IInv, NEW f \in File, NEW v \in Data, Change(f, v), Due(f)', f = "messages" => tracked,
         dirty' \in SUBSET (dirty \union {f}), slow' \in SUBSET (slow \union {f}),
         dirty \in SUBSET dirty', slow \in SUBSET slow', slow' \in SUBSET {"roster", "users"},
         timer' \in BOOLEAN, slowTimer' \in BOOLEAN,
         dots' = dots \/ (dots' = TRUE /\ f = "users")
  PROVE  IInv'
<1>a. /\ TypeOK /\ Phases /\ Mutex /\ Drains /\ Generations /\ Untracked /\ Filled /\ Believes
      /\ Synced /\ WipedStaysWiped
  BY DEF IInv
<1>b. /\ phase = "open" /\ store' = [store EXCEPT ![f] = v]
      /\ UNCHANGED <<cache, phase, closing, written, tracked, pass, queue, draining, drains, failed>>
      /\ UNCHANGED <<gen, clearGen, wipes, shadowed, holder, serving, hand, disk, from, lost>>
  BY DEF Change, ui, queues, gens, lock, files
<1>1. TypeOK'
  <2>1. store' \in [File -> Data \union {Nothing}]
    BY <1>a, <1>b DEF TypeOK
  <2>2. dots' \in BOOLEAN
    BY <1>a DEF TypeOK
  <2>3. dirty' \subseteq File /\ slow' \subseteq File
    BY <1>a DEF TypeOK
  <2> QED  BY <1>a, <1>b, <2>1, <2>2, <2>3 DEF TypeOK
<1>2. Phases'
  BY <1>a, <1>b, OwnSame DEF Phases
<1>3. Mutex' /\ Drains' /\ Generations' /\ Believes' /\ WipedStaysWiped'
  BY <1>a, <1>b, MutexSame, DrainsSame, GenerationsSame, BelievesSame, WipedSame
<1>4. Untracked'
  BY <1>a, <1>b DEF Untracked
<1>5. Synced'
  <2> SUFFICES ASSUME Own', NEW g \in File, store'[g] # Nothing, g = "messages" => tracked
               PROVE  (Now(g) = store[g] \/ Due(g) \/ Failing(g))'
    BY <1>b DEF Synced
  <2>1. CASE g = f
    BY <2>1
  <2>2. CASE g # f
    <3>1. store'[g] = store[g] /\ Now(g)' = Now(g) /\ Own
      BY <1>a, <1>b, <2>2, OwnSame, LatestSame DEF TypeOK
    <3>2. Now(g) = store[g] \/ Due(g) \/ Failing(g)
      BY <1>a, <1>b, <3>1 DEF Synced, Phases
    <3>3. Failing(g)' = Failing(g)
      BY <1>b DEF Failing
    <3>4. Due(g) => Due(g)'
      BY <1>b DEF Due
    <3> QED  BY <3>1, <3>2, <3>3, <3>4
  <2> QED  BY <2>1, <2>2
<1>6. SignedOutIsGone' /\ KeptAtClose'
  BY <1>b, NotClosed
<1>7. Filled'
  <2> SUFFICES ASSUME NEW g \in File, Due(g)', g # f PROVE store'[g] # Nothing
    <3>1. store'[f] = v /\ v # Nothing
      BY <1>a, <1>b, NothingIs DEF TypeOK
    <3> QED  BY <3>1 DEF Filled
  <2>1. store'[g] = store[g]
    BY <1>a, <1>b DEF TypeOK
  <2>2. Due(g)
    BY <1>b DEF Due
  <2> QED  BY <1>a, <2>1, <2>2 DEF Filled
<1> QED  BY <1>1, <1>2, <1>3, <1>4, <1>5, <1>6, <1>7 DEF IInv

\* Every change of the Store leaves its file due.
LEMMA ChangesKeep ==
  ASSUME IInv, Changes
  PROVE  IInv'
<1>a. /\ dirty \subseteq File /\ slow \subseteq {"roster", "users"} /\ slow \subseteq File
      /\ timer \in BOOLEAN /\ slowTimer \in BOOLEAN /\ dots \in BOOLEAN
  BY DEF IInv, TypeOK, Phases
<1>t. (timer \/ Writable) \in BOOLEAN /\ (slowTimer \/ Writable) \in BOOLEAN
  OBVIOUS
<1>1. ASSUME NEW v \in Data, NEW f \in File, Change(f, v), Mark({f}), UNCHANGED dots,
             f = "messages" => tracked
      PROVE  IInv'
  BY <1>1, <1>a, <1>t, ChangeKeeps DEF Mark, Due
<1>2. ASSUME NEW v \in Data, NEW f \in {"roster", "users"}, Change(f, v), MarkSlow({f}), UNCHANGED dots
      PROVE  IInv'
  <2>1. f \in File
    BY <1>2 DEF Change
  <2> QED  BY <1>2, <1>a, <1>t, <2>1, ChangeKeeps DEF MarkSlow, Due
<1>3. ASSUME NEW v \in Data, RecordMoves(v) PROVE IInv'
  BY <1>1, <1>3 DEF RecordMoves, Change
<1>4. ASSUME NEW v \in Data, CursorsMove(v) PROVE IInv'
  <2>1. CASE "roster" \in dirty
    <3>1. Change("roster", v) /\ UNCHANGED <<dirty, slow, timer, slowTimer, dots>> /\ "roster" \in File
      BY <1>4, <2>1 DEF CursorsMove, marks, Change
    <3> QED  BY <1>a, <2>1, <3>1, ChangeKeeps DEF Due
  <2>2. CASE "roster" \notin dirty
    BY <1>2, <1>4, <2>2 DEF CursorsMove
  <2> QED  BY <2>1, <2>2
<1>5. ASSUME NEW v \in Data, MetaMoves(v) PROVE IInv'
  BY <1>1, <1>5 DEF MetaMoves, Change
<1>6. ASSUME NEW v \in Data, ProfileMoves(v) PROVE IInv'
  <2>1. Change("users", v) /\ UNCHANGED dots /\ "users" \in File /\ (MarkSlow({"users"}) \/ Mark({"users"}))
    BY <1>6 DEF ProfileMoves, MarkUsers, Change
  <2> QED  BY <1>1, <1>2, <2>1
<1>7. ASSUME NEW v \in Data, PresenceFlips(v) PROVE IInv'
  <2>1. /\ Change("users", v) /\ dots' = TRUE /\ "users" \in File
        /\ MarkSlow({"users"}) \/ Mark({"users"}) \/ UNCHANGED marks
    BY <1>7 DEF PresenceFlips, MarkUsers, Change
  <2>2. /\ dirty' \in SUBSET (dirty \union {"users"}) /\ slow' \in SUBSET (slow \union {"users"})
        /\ dirty \in SUBSET dirty' /\ slow \in SUBSET slow' /\ timer' \in BOOLEAN /\ slowTimer' \in BOOLEAN
    BY <1>a, <1>t, <2>1 DEF MarkSlow, Mark, marks
  <2>3. slow' \in SUBSET {"roster", "users"} /\ Due("users")'
    BY <1>a, <2>1, <2>2 DEF Due
  <2> QED  BY <2>1, <2>2, <2>3, ChangeKeeps
<1>8. ASSUME NEW v \in Data, MessageComes(v) PROVE IInv'
  BY <1>1, <1>8 DEF MessageComes, Change
<1> QED  BY <1>3, <1>4, <1>5, <1>6, <1>7, <1>8 DEF Changes

\* The slow marks become quick ones.
LEMMA SlowTickKeeps ==
  ASSUME IInv, SlowTick
  PROVE  IInv'
<1>a. /\ TypeOK /\ Phases /\ Mutex /\ Drains /\ Generations /\ Untracked /\ Filled /\ Believes
      /\ Synced /\ WipedStaysWiped
  BY DEF IInv
<1>b. /\ phase = "open" /\ slow' = {} /\ slowTimer' = FALSE /\ dirty' = dirty \union slow
      /\ timer' = (timer \/ Writable)
      /\ UNCHANGED <<cache, phase, closing, store, written, dots, tracked, pass, queue, draining, drains>>
      /\ UNCHANGED <<failed, gen, clearGen, wipes, shadowed, holder, serving, hand, disk, from, lost>>
  BY DEF SlowTick, ui, books, queues, gens, lock, files
<1>1. TypeOK'
  <2>1. timer' \in BOOLEAN
    BY <1>b
  <2> QED  BY <1>a, <1>b, <2>1 DEF TypeOK
<1>2. Phases'
  BY <1>a, <1>b, OwnSame DEF Phases
<1>3. Mutex' /\ Drains' /\ Generations' /\ Believes' /\ WipedStaysWiped'
  BY <1>a, <1>b, MutexSame, DrainsSame, GenerationsSame, BelievesSame, WipedSame
<1>4. Untracked'
  BY <1>a, <1>b DEF Untracked, Phases
<1>5. Synced'
  BY <1>a, <1>b, OwnSame, LatestSame DEF Synced, Failing, Due
<1>6. SignedOutIsGone' /\ KeptAtClose'
  BY <1>b, NotClosed
<1>7. Filled'
  BY <1>a, <1>b DEF Filled, Due
<1> QED  BY <1>1, <1>2, <1>3, <1>4, <1>5, <1>6, <1>7 DEF IInv

-----------------------------------------------------------------------------
(* Opening, writing and closing. *)

\* A new cache believes what it read, and nothing of it is queued yet.
LEMMA OpenKeeps ==
  ASSUME IInv, Open
  PROVE  IInv'
<1>a. /\ TypeOK /\ Phases /\ Mutex /\ Drains /\ Generations /\ Untracked /\ Filled /\ Believes
      /\ Synced /\ WipedStaysWiped
  BY DEF IInv
<1>b. /\ phase = "none" /\ cache < MaxCaches /\ cache' = cache + 1 /\ phase' = "open" /\ closing' = "no"
      /\ gen' = [gen EXCEPT ![cache + 1] = clearGen]
      /\ store' = IF disk["roster"] = Nothing THEN Blank
                  ELSE [f \in File |-> IF f = "messages" THEN Nothing ELSE disk[f]]
      /\ written' = store' /\ dots' = FALSE /\ tracked' = FALSE /\ shadowed' = (wipes > 0)
      /\ UNCHANGED <<dirty, slow, timer, slowTimer, pass, queue, draining, drains, failed, clearGen>>
      /\ UNCHANGED <<wipes, holder, serving, hand, disk, from, lost>>
  BY DEF Open, marks, queues, lock, files
<1>n. /\ cache \in Nat /\ cache <= MaxCaches /\ MaxCaches \in Nat /\ clearGen \in Nat /\ wipes \in Nat
  BY <1>a, Numbers
<1>c. cache + 1 \in Cache /\ cache \in Nat /\ cache' # 0 /\ cache' > cache
  BY <1>b, <1>n DEF Cache
<1>d. hand = NoEntry
  BY <1>a, <1>b DEF Mutex, Live
<1>e. queue[cache'] = <<>>
  BY <1>a, <1>b, <1>c DEF Drains, Live
<1>f. gen'[cache'] = clearGen /\ gen' \in [Cache -> 0..MaxClears]
  BY <1>a, <1>b, <1>c DEF TypeOK
<1>g. store' \in [File -> Data \union {Nothing}]
  BY <1>a, <1>b DEF TypeOK, Blank
<1>h. \A f \in File : Now(f)' = disk[f]
  BY <1>b, <1>d, <1>e, LatestEmpty DEF Now
<1>i. \A f \in File : store'[f] = Nothing \/ (f # "messages" /\ store'[f] = disk[f])
  BY <1>b DEF Blank
<1>1. TypeOK'
  <2>1. cache' \in 0..MaxCaches
    BY <1>b, <1>n
  <2>2. shadowed' \in BOOLEAN
    BY <1>b
  <2> QED  BY <1>a, <1>b, <1>f, <1>g, <2>1, <2>2 DEF TypeOK, Phase
<1>2. Phases'
  BY <1>a, <1>b, <1>c DEF Phases
<1>3. Mutex'
  <2>1. holder # "ui"
    BY <1>a, <1>b DEF Mutex
  <2>2. holder = "worker" => serving \in 1..cache'
    BY <1>a, <1>b, <1>c DEF Mutex
  <2>3. holder \in {"none", "worker", "ui", "wipe"}
    BY <1>a DEF TypeOK
  <2> QED  BY <1>a, <1>b, <1>d, <2>1, <2>2, <2>3 DEF Mutex
<1>4. Drains'
  <2>1. \A c \in Cache : ~Live(c) /\ queue[c] = <<>>
    BY <1>a, <1>b DEF Drains, Live
  <2>2. cache' \in Cache /\ drains[cache'] = 0 /\ ~draining[cache']
    BY <1>a, <1>b, <1>c DEF Drains
  <2>3. \A c \in Cache : Live(c)' <=> c = cache'
    BY <1>b DEF Live
  <2>4. ~(holder = "worker" /\ serving = cache')
    BY <1>a, <1>b, <1>c DEF Mutex
  <2>5. \A c \in Cache : c > cache' => c > cache
    BY <1>b, <1>c DEF Cache
  <2> QED  BY <1>a, <1>b, <2>1, <2>2, <2>3, <2>4, <2>5 DEF Drains
<1>5. Generations'
  <2>1. \A c \in Cache : gen'[c] <= clearGen
    <3>1. \A c \in Cache : c # cache + 1 => gen'[c] = gen[c]
      BY <1>a, <1>b DEF TypeOK
    <3>2. clearGen <= clearGen
      BY <1>n
    <3> QED  BY <1>a, <1>b, <1>f, <3>1, <3>2 DEF Generations
  <2>2. Own' => wipes = 0
    <3>1. shadowed' \/ wipes = 0
      <4>1. shadowed' = (wipes > 0)
        BY <1>b
      <4>2. wipes > 0 \/ wipes = 0
        BY <1>n
      <4> QED  BY Zenon, <4>1, <4>2
    <3> QED  BY <3>1 DEF Own
  <2> QED  BY <1>a, <1>b, <1>d, <2>1, <2>2 DEF Generations
<1>6. Untracked'
  <2>1. pass = {} /\ dirty = {}
    BY <1>a, <1>b DEF Phases
  <2>2. FilesIn(queue[cache'])  = {} /\ ("messages" \in File => hand.file # "messages")
    BY <1>d, <1>e, LatestEmpty, NothingIs DEF FilesIn
  <2> QED  BY <1>b, <2>1, <2>2 DEF Untracked
<1>7. Believes'
  BY <1>b, <1>h, <1>i DEF Believes
<1>8. Synced'
  BY <1>b, <1>h, <1>i DEF Synced
<1>9. WipedStaysWiped' /\ SignedOutIsGone' /\ KeptAtClose'
  BY <1>a, <1>b, WipedSame, NotClosed
<1>10. Filled'
  BY <1>a, <1>b DEF Filled, Due, Phases
<1> QED  BY <1>1, <1>2, <1>3, <1>4, <1>5, <1>6, <1>7, <1>8, <1>9, <1>10 DEF IInv

\* A conversation read from disk: nothing newer of it was on its way.
LEMMA OpenConversationKeeps ==
  ASSUME IInv, OpenConversation
  PROVE  IInv'
<1>a. /\ TypeOK /\ Phases /\ Mutex /\ Drains /\ Generations /\ Untracked /\ Filled /\ Believes
      /\ Synced /\ WipedStaysWiped
  BY DEF IInv
<1> DEFINE m == "messages"
<1>b. /\ phase = "open" /\ m \in File /\ ~tracked /\ tracked' = TRUE
      /\ written' = [written EXCEPT ![m] = disk[m]] /\ store' = [store EXCEPT ![m] = disk[m]]
      /\ IF disk[m] # Nothing THEN Mark({m}) ELSE UNCHANGED marks
      /\ UNCHANGED <<cache, phase, closing, dots, pass, queue, draining, drains, failed, gen, clearGen>>
      /\ UNCHANGED <<wipes, shadowed, holder, serving, hand, disk, from, lost>>
  BY DEF OpenConversation, ui, queues, gens, lock, files
<1>c. /\ dirty' \subseteq dirty \union {m} /\ dirty \subseteq dirty' /\ slow' = slow
      /\ timer' \in BOOLEAN /\ slowTimer' \in BOOLEAN
  <2>1. timer \in BOOLEAN /\ slowTimer \in BOOLEAN /\ (timer \/ Writable) \in BOOLEAN
    BY <1>a DEF TypeOK
  <2> QED  BY <1>b, <2>1 DEF Mark, marks
<1>d. /\ written' \in [File -> Data \union {Nothing}] /\ store' \in [File -> Data \union {Nothing}]
      /\ \A f \in File : f # m => written'[f] = written[f] /\ store'[f] = store[f]
      /\ written'[m] = disk[m] /\ store'[m] = disk[m]
  BY <1>a, <1>b DEF TypeOK
<1>e. Now(m)' = disk[m]
  <2>1. m \notin FilesIn(queue[cache]) /\ hand.file # m
    BY <1>a, <1>b DEF Untracked
  <2> QED  BY <1>b, <2>1, LatestElse DEF Now
<1> HIDE DEF m
<1>1. TypeOK'
  <2>1. dirty' \subseteq File
    BY <1>a, <1>b, <1>c DEF TypeOK
  <2> QED  BY <1>a, <1>b, <1>c, <1>d, <2>1 DEF TypeOK
<1>2. Phases'
  BY <1>a, <1>b, <1>c, OwnSame DEF Phases
<1>3. Mutex' /\ Drains' /\ Generations' /\ WipedStaysWiped'
  BY <1>a, <1>b, MutexSame, DrainsSame, GenerationsSame, WipedSame
<1>4. Untracked'
  BY <1>b DEF Untracked
<1>5. Believes'
  <2> SUFFICES ASSUME Own', NEW f \in File
               PROVE  (written[f] \in {Nothing, Now(f)} \/ (Failing(f) /\ f \in failed[cache]))'
    BY DEF Believes
  <2>1. CASE f = m
    BY <1>d, <1>e, <2>1
  <2>2. CASE f # m
    <3>1. Own /\ Now(f)' = Now(f) /\ written'[f] = written[f] /\ Failing(f)' = Failing(f)
      BY <1>b, <1>d, <2>2, OwnSame, LatestSame DEF Failing
    <3> QED  BY <1>a, <1>b, <3>1 DEF Believes
  <2> QED  BY <2>1, <2>2
<1>6. Synced'
  <2> SUFFICES ASSUME Own', NEW f \in File, store'[f] # Nothing
               PROVE  (Now(f) = store[f] \/ Due(f) \/ Failing(f))'
    BY DEF Synced
  <2>1. CASE f = m
    BY <1>d, <1>e, <2>1
  <2>2. CASE f # m
    <3>1. Own /\ Now(f)' = Now(f) /\ store'[f] = store[f] /\ Failing(f)' = Failing(f)
      BY <1>b, <1>d, <2>2, OwnSame, LatestSame DEF Failing
    <3>2. Due(f) => Due(f)'
      BY <1>b, <1>c DEF Due
    <3>3. Now(f) = store[f] \/ Due(f) \/ Failing(f)
      BY <1>a, <1>b, <2>2, <3>1 DEF Synced, Phases, m
    <3> QED  BY <3>1, <3>2, <3>3
  <2> QED  BY <2>1, <2>2
<1>7. SignedOutIsGone' /\ KeptAtClose'
  BY <1>b, NotClosed
<1>8. Filled'
  <2> SUFFICES ASSUME NEW f \in File, Due(f)' PROVE store'[f] # Nothing
    BY DEF Filled
  <2>1. CASE f = m
    <3>1. ~Due(m)
      BY <1>a, <1>b DEF Untracked, Phases, Due, m
    <3>2. disk[m] # Nothing
      BY <1>b, <2>1, <3>1 DEF Due, marks
    <3> QED  BY <1>d, <2>1, <3>2
  <2>2. CASE f # m
    <3>1. Due(f) /\ store'[f] = store[f]
      BY <1>b, <1>c, <1>d, <2>2 DEF Due
    <3> QED  BY <1>a, <3>1 DEF Filled
  <2> QED  BY <2>1, <2>2
<1> QED  BY <1>1, <1>2, <1>3, <1>4, <1>5, <1>6, <1>7, <1>8 DEF IInv

\* writePending's start: what is due now is in the pass, and what failed is forgotten.
LEMMA PendingKeeps ==
  ASSUME IInv, phase = "open", NEW d \in SUBSET File, NEW s \in SUBSET slow, NEW st \in BOOLEAN,
         Pending(d, s, st), dirty \in SUBSET d, slow \in SUBSET (d \union s),
         "messages" \in d => "messages" \in dirty, \A f \in d : Due(f),
         \/ closing' = closing
         \/ closing' = "keep" /\ s = {} /\ (dots => "users" \in d),
         UNCHANGED <<cache, store, dots, tracked, queues, gens, lock, files, edits, failures>>
  PROVE  IInv'
<1>a. /\ TypeOK /\ Phases /\ Mutex /\ Drains /\ Generations /\ Untracked /\ Filled /\ Believes
      /\ Synced /\ WipedStaysWiped
  BY DEF IInv
<1>b. /\ UNCHANGED <<cache, store, dots, tracked, queue, draining, drains, gen, clearGen, wipes>>
      /\ UNCHANGED <<shadowed, holder, serving, hand, disk, from, lost>>
      /\ phase' = "writing" /\ dirty' = {} /\ timer' = FALSE
      /\ closing = "no" /\ cache # 0 /\ cache \in Cache
  <2>1. closing = "no" /\ cache # 0
    BY <1>a DEF Phases
  <2>2. cache \in Cache
    BY <1>a, <2>1, Bounds DEF TypeOK, Cache
  <2> QED  BY <2>1, <2>2 DEF Pending, queues, gens, lock, files
<1>c. Own' = Own /\ \A f \in File : Now(f)' = Now(f) /\ Failing(f)' = Failing(f)
  BY <1>b, OwnSame, LatestSame DEF Failing
<1>d. /\ pass' \in SUBSET d /\ slow' \in SUBSET s /\ slowTimer' \in BOOLEAN
      /\ written' \in [File -> Data \union {Nothing}] /\ failed' \in [Cache -> SUBSET File]
      /\ Own => /\ pass' = d /\ slow' = s \ d
                /\ \A f \in File : written'[f] = IF f \in failed[cache] THEN Nothing ELSE written[f]
  <2>1. CASE Writable
    <3>1. /\ pass' = d /\ written' = [f \in File |-> IF Forgotten(f) THEN Nothing ELSE written[f]]
          /\ failed' = [failed EXCEPT ![cache] = {}] /\ slow' = s \ d
          /\ slowTimer' = SlowTimerStays(st, slow')
      BY <2>1 DEF Pending
    <3>2. SlowTimerStays(st, slow') \in BOOLEAN
      BY DEF SlowTimerStays
    <3>3. written' \in [File -> Data \union {Nothing}] /\ failed' \in [Cache -> SUBSET File]
      BY <1>a, <1>b, <3>1 DEF TypeOK
    <3> QED  BY <3>1, <3>2, <3>3 DEF Forgotten
  <2>2. CASE ~Writable
    <3>1. pass' = {} /\ slow' = s /\ slowTimer' = st /\ UNCHANGED <<written, failed>>
      BY <2>2 DEF Pending
    <3>2. ~Own
      BY <2>2 DEF Writable, Own
    <3> QED  BY <1>a, <3>1, <3>2 DEF TypeOK
  <2> QED  BY <2>1, <2>2
<1>1. TypeOK'
  <2>1. closing' \in {"no", "keep", "sign out"} /\ slow' \subseteq File /\ pass' \subseteq File
    BY <1>a, <1>b, <1>d DEF TypeOK
  <2> QED  BY <1>a, <1>b, <1>d, <2>1 DEF TypeOK, Phase
<1>2. Phases'
  <2>1. closing' = "no" \/ (closing' = "keep" /\ s = {} /\ (dots => "users" \in d))
    BY <1>b
  <2>2. closing' = "keep" => dirty' = {} /\ slow' = {}
    BY <1>b, <1>d, <2>1
  <2>3. closing' = "keep" /\ Own' /\ dots => "users" \in pass'
    BY <1>c, <1>d, <2>1
  <2>4. (dots' => "users" \in File) /\ slow' \subseteq {"roster", "users"}
    BY <1>a, <1>b, <1>d DEF Phases
  <2>5. phase' = "writing" /\ cache' # 0 /\ closing' # "sign out"
    BY <1>b, <2>1
  <2> QED  BY <2>2, <2>3, <2>4, <2>5 DEF Phases
<1>3. Mutex'
  BY <1>a, <1>b DEF Mutex, Live
<1>4. Drains'
  BY <1>a, <1>b DEF Drains, Live
<1>5. Generations' /\ WipedStaysWiped'
  BY <1>a, <1>b, GenerationsSame, WipedSame
<1>6. Untracked'
  BY <1>a, <1>b, <1>d DEF Untracked
<1>7. Believes'
  <2> SUFFICES ASSUME Own, NEW f \in File PROVE written'[f] \in {Nothing, Now(f)}
    BY <1>c DEF Believes
  <2> QED  BY <1>a, <1>b, <1>d DEF Believes
<1>8. Synced'
  <2> SUFFICES ASSUME Own', NEW f \in File, store'[f] # Nothing, f = "messages" => tracked'
               PROVE  (Now(f) = store[f] \/ Due(f) \/ Failing(f))'
    BY DEF Synced
  <2>0. Own /\ store[f] # Nothing /\ (f = "messages" => tracked)
    BY <1>b, <1>c
  <2>1. Now(f) = store[f] \/ Due(f) \/ Failing(f)
    BY <1>a, <1>b, <2>0 DEF Synced
  <2>2. f \in dirty \/ f \in slow => f \in pass' \/ f \in slow'
    BY <1>d, <2>0
  <2>3. f \notin pass
    BY <1>a DEF Phases
  <2>4. Now(f) = store[f] \/ Failing(f) \/ Due(f)'
    BY <1>b, <2>1, <2>2, <2>3 DEF Due
  <2> QED  BY <1>b, <1>c, <2>4
<1>9. SignedOutIsGone' /\ KeptAtClose'
  BY <1>b, NotClosed
<1>10. Filled'
  <2> SUFFICES ASSUME NEW f \in File, Due(f)' PROVE Due(f)
    BY <1>a, <1>b DEF Filled
  <2> QED  BY <1>b, <1>d DEF Due
<1> QED  BY <1>1, <1>2, <1>3, <1>4, <1>5, <1>6, <1>7, <1>8, <1>9, <1>10 DEF IInv

\* The timer's write, and the one of close().
LEMMA TickKeeps ==
  ASSUME IInv, Tick \/ CloseKeeping
  PROVE  IInv'
<1>a. /\ dirty \in SUBSET File /\ slow \in SUBSET File /\ slow \in SUBSET {"roster", "users"}
      /\ slowTimer \in BOOLEAN /\ (dots => "users" \in File)
  BY DEF IInv, TypeOK, Phases
<1>1. CASE Tick
  <2>1. /\ phase = "open" /\ Pending(dirty, slow, slowTimer) /\ closing' = closing
        /\ UNCHANGED <<cache, store, dots, tracked, queues, gens, lock, files, edits, failures>>
    BY <1>1 DEF Tick
  <2>2. slow \in SUBSET slow /\ dirty \in SUBSET dirty /\ slow \in SUBSET (dirty \union slow)
    OBVIOUS
  <2>3. /\ closing' = closing \/ (closing' = "keep" /\ slow = {} /\ (dots => "users" \in dirty))
        /\ "messages" \in dirty => "messages" \in dirty
        /\ \A f \in dirty : Due(f)
    BY <2>1 DEF Due
  <2> QED  BY <1>a, <2>1, <2>2, <2>3, PendingKeeps
<1>2. CASE CloseKeeping
  <2>1. /\ phase = "open" /\ Pending(DueAtClose, {}, FALSE) /\ closing' = "keep"
        /\ UNCHANGED <<cache, store, dots, tracked, queues, gens, lock, files, edits, failures>>
    BY <1>2 DEF CloseKeeping
  <2>2. \/ DueAtClose = dirty \union slow \union {"users"} /\ dots
        \/ DueAtClose = dirty \union slow /\ ~dots
    <3>1. CASE dots
      BY <3>1 DEF DueAtClose
    <3>2. CASE ~dots
      BY <3>2 DEF DueAtClose
    <3> QED  BY <3>1, <3>2
  <2>4. /\ DueAtClose \in SUBSET File /\ dirty \in SUBSET DueAtClose /\ slow \in SUBSET DueAtClose
        /\ dots => "users" \in DueAtClose
    <3>1. CASE dots
      <4>1. DueAtClose = dirty \union slow \union {"users"} /\ "users" \in File
        BY <1>a, <3>1 DEF DueAtClose
      <4> QED  BY <1>a, <4>1
    <3>2. CASE ~dots
      <4>1. DueAtClose = dirty \union slow
        BY <3>2 DEF DueAtClose
      <4> QED  BY <1>a, <3>2, <4>1
    <3> QED  BY <3>1, <3>2
  <2>5. "messages" \in DueAtClose => "messages" \in dirty
    <3>1. "messages" \notin slow /\ "messages" \notin {"users"}
      BY <1>a
    <3> QED  BY <2>2, <3>1
  <2>6. \A f \in DueAtClose : Due(f)
    BY <2>2 DEF Due
  <2>3. /\ {} \in SUBSET slow /\ FALSE \in BOOLEAN
        /\ closing' = closing \/ (closing' = "keep" /\ {} = {} /\ (dots => "users" \in DueAtClose))
    BY <2>1, <2>4
  <2> QED  BY <2>1, <2>3, <2>4, <2>5, <2>6, PendingKeeps
<1> QED  BY <1>1, <1>2

\* A file of the pass: what write() skips is there, what it queues is the latest.
LEMMA WriteFileKeeps ==
  ASSUME IInv, WriteFile
  PROVE  IInv'
<1>a. /\ TypeOK /\ Phases /\ Mutex /\ Drains /\ Generations /\ Untracked /\ Filled /\ Believes
      /\ Synced /\ WipedStaysWiped
  BY DEF IInv
<1> DEFINE q == queue[cache]
<1>w. PICK f \in pass :
        /\ pass' = pass \ {f} /\ dots' = (dots /\ f # "users")
        /\ IF Unchanged(f)
           THEN UNCHANGED <<written, queues>>
           ELSE /\ written' = [written EXCEPT ![f] = store[f]]
                /\ queue' = [queue EXCEPT ![cache] = Put(@, [file |-> f, data |-> store[f]])]
                /\ draining' = [draining EXCEPT ![cache] = TRUE]
                /\ drains' = IF AskForDrain THEN [drains EXCEPT ![cache] = @ + 1] ELSE drains
  BY DEF WriteFile
<1>b. /\ phase = "writing"
      /\ UNCHANGED <<cache, phase, closing, store, dirty, slow, timer, slowTimer, tracked, failed>>
      /\ UNCHANGED <<gen, clearGen, wipes, shadowed, holder, serving, hand, disk, from, lost>>
  BY DEF WriteFile, ui, marks, gens, lock, files
<1>c. cache # 0 /\ cache \in Cache /\ f \in File
  <2>1. cache # 0
    BY <1>a, <1>b DEF Phases
  <2> QED  BY <1>a, <2>1, Numbers DEF TypeOK
<1>d. store[f] # Nothing /\ store[f] \in Data
  BY <1>a, <1>c DEF Filled, Due, TypeOK
<1>q. q \in Seq(Entry) /\ OneEach(q)
  BY <1>a, <1>c DEF TypeOK, OneEach
<1>p. /\ dots' \in BOOLEAN /\ (dots' => dots /\ f # "users") /\ (dots => dots' \/ f = "users")
      /\ pass' \in SUBSET File /\ \A g \in File : g # f => (g \in pass' <=> g \in pass)
  BY <1>a, <1>w DEF TypeOK
<1>o. Own' = Own
  BY <1>b, OwnSame
\* What both cases leave of the queues.
<1>e. /\ written' \in [File -> Data \union {Nothing}] /\ queue' \in [Cache -> Seq(Entry)]
      /\ \A c \in Cache : OneEach(queue'[c])
      /\ draining' \in [Cache -> BOOLEAN] /\ drains' \in [Cache -> Nat]
      /\ \A c \in Cache : c # cache => queue'[c] = queue[c] /\ draining'[c] = draining[c] /\ drains'[c] = drains[c]
      /\ FilesIn(queue'[cache]) \in {FilesIn(q), FilesIn(q) \union {f}}
      /\ \A g \in File : g # f => Now(g)' = Now(g) /\ Failing(g)' = Failing(g) /\ written'[g] = written[g]
      /\ \/ /\ written[f] = store[f] /\ written'[f] = written[f] /\ Now(f)' = Now(f) /\ Failing(f)' = Failing(f)
            /\ UNCHANGED <<queue, draining, drains>>
         \/ /\ written'[f] = store[f] /\ Now(f)' = store[f] /\ draining'[cache]
            /\ \/ draining[cache] /\ drains'[cache] = drains[cache]
               \/ ~draining[cache] /\ drains'[cache] = drains[cache] + 1
  <2>1. CASE Unchanged(f)
    <3>1. UNCHANGED <<written, queue, draining, drains>> /\ written[f] = store[f]
      BY <1>w, <2>1 DEF queues, Unchanged
    <3>2. \A g : Now(g)' = Now(g) /\ Failing(g)' = Failing(g)
      BY <1>b, <3>1, LatestSame DEF Failing
    <3>3. \A c \in Cache : OneEach(queue'[c])
      BY <1>a, <3>1 DEF TypeOK, OneEach
    <3> QED  BY <1>a, <3>1, <3>2, <3>3 DEF TypeOK
  <2>2. CASE ~Unchanged(f)
    <3> DEFINE e == [file |-> f, data |-> store[f]]
               r == Put(q, e)
    <3>1. /\ written' = [written EXCEPT ![f] = store[f]] /\ queue' = [queue EXCEPT ![cache] = r]
          /\ draining' = [draining EXCEPT ![cache] = TRUE]
          /\ drains' = IF ~draining[cache] THEN [drains EXCEPT ![cache] = @ + 1] ELSE drains
      BY <1>w, <2>2 DEF AskForDrain
    <3>2. e \in Entry /\ e.file = f /\ e.data = store[f]
      BY <1>c, <1>d DEF Entry
    <3> HIDE DEF e, q
    <3>3. /\ r \in Seq(Entry) /\ OneEach(r) /\ FilesIn(r) = FilesIn(q) \union {f}
          /\ Latest(r, hand, disk, f) = store[f]
          /\ \A g : g # f => Latest(r, hand, disk, g) = Latest(q, hand, disk, g)
      <4>1. Put(q, e) \in Seq(Entry) /\ OneEach(Put(q, e)) /\ FilesIn(Put(q, e)) = FilesIn(q) \union {e.file}
        BY <1>q, <3>2, PutOf
      <4>2. Latest(Put(q, e), hand, disk, e.file) = e.data
        BY <1>q, <3>2, PutOf
      <4>3. \A g : g # e.file => Latest(Put(q, e), hand, disk, g) = Latest(q, hand, disk, g)
        BY <1>q, <3>2, PutOf
      <4> QED  BY <3>2, <4>1, <4>2, <4>3
    <3> HIDE DEF r
    <3>4. /\ queue' \in [Cache -> Seq(Entry)] /\ queue'[cache] = r
          /\ \A c \in Cache : c # cache => queue'[c] = queue[c]
      BY <1>a, <1>c, <3>1, <3>3 DEF TypeOK
    <3>5. \A c \in Cache : OneEach(queue'[c])
      BY <1>a, <3>3, <3>4 DEF TypeOK, OneEach
    <3>6. /\ written' \in [File -> Data \union {Nothing}] /\ written'[f] = store[f]
          /\ \A g \in File : g # f => written'[g] = written[g]
      BY <1>a, <1>c, <1>d, <3>1 DEF TypeOK
    <3>7. /\ draining' \in [Cache -> BOOLEAN] /\ draining'[cache]
          /\ \A c \in Cache : c # cache => draining'[c] = draining[c]
      BY <1>a, <1>c, <3>1 DEF TypeOK
    <3>8. /\ drains' \in [Cache -> Nat] /\ \A c \in Cache : c # cache => drains'[c] = drains[c]
          /\ \/ draining[cache] /\ drains'[cache] = drains[cache]
             \/ ~draining[cache] /\ drains'[cache] = drains[cache] + 1
      <4>1. drains \in [Cache -> Nat]
        BY <1>a DEF TypeOK
      <4>2. CASE draining[cache]
        BY <3>1, <4>1, <4>2
      <4>3. CASE ~draining[cache]
        BY <1>c, <3>1, <4>1, <4>3
      <4> QED  BY <4>2, <4>3
    <3>9. Now(f)' = store[f] /\ \A g \in File : g # f => Now(g)' = Now(g)
      BY <1>b, <3>3, <3>4 DEF Now, q
    <3>10. \A g \in File : g # f => Failing(g)' = Failing(g)
      BY <1>b, <3>3, <3>4 DEF Failing, q
    <3> QED  BY <3>3, <3>4, <3>5, <3>6, <3>7, <3>8, <3>9, <3>10
  <2> QED  BY <2>1, <2>2
<1> HIDE DEF q
<1>1. TypeOK'
  <2>1. \A c \in Cache : \A i, j \in 1..Len(queue'[c]) : queue'[c][i].file = queue'[c][j].file => i = j
    BY <1>e DEF OneEach
  <2> QED  BY <1>a, <1>b, <1>e, <1>p, <2>1 DEF TypeOK
<1>2. Phases'
  BY <1>a, <1>b, <1>c, <1>o, <1>p DEF Phases
<1>3. Mutex' /\ Generations' /\ WipedStaysWiped'
  BY <1>a, <1>b, MutexSame, GenerationsSame, WipedSame
<1>4. Drains'
  <2>1. \A c \in Cache : Live(c)' <=> Live(c)
    BY <1>b DEF Live
  <2>2. Live(cache)
    BY <1>b DEF Live
  <2>3. ASSUME NEW c \in Cache, c # cache
        PROVE  UNCHANGED <<queue[c], draining[c], drains[c]>>
    BY <1>e, <2>3
  <2>4. /\ drains[cache] <= 1 /\ drains[cache] \in Nat
        /\ queue[cache] # <<>> => draining[cache]
        /\ drains[cache] = 1 => draining[cache]
        /\ holder = "worker" /\ serving = cache => draining[cache] /\ drains[cache] = 0
        /\ draining[cache] => drains[cache] = 1 \/ (holder \in {"worker", "ui"} /\ serving = cache)
    BY <1>a, <1>c, <2>2 DEF Drains, TypeOK
  <2>5. ~(cache > cache)
    <3>1. cache \in Nat
      BY <1>a, Numbers
    <3> QED  BY <3>1
  <2>6. /\ drains'[cache] <= 1
        /\ queue'[cache] # <<>> => draining'[cache]
        /\ drains'[cache] = 1 => draining'[cache]
        /\ holder = "worker" /\ serving = cache => draining'[cache] /\ drains'[cache] = 0
        /\ draining'[cache] => drains'[cache] = 1 \/ (holder \in {"worker", "ui"} /\ serving = cache)
    <3>1. CASE UNCHANGED <<queue, draining, drains>>
      BY <2>4, <3>1
    <3>2. CASE draining'[cache] /\ draining[cache] /\ drains'[cache] = drains[cache]
      BY <2>4, <3>2
    <3>3. CASE draining'[cache] /\ ~draining[cache] /\ drains'[cache] = drains[cache] + 1
      <4>1. drains[cache] = 0
        BY <2>4, <3>3
      <4> QED  BY <2>4, <3>3, <4>1
    <3> QED  BY <1>e, <3>1, <3>2, <3>3
  <2> SUFFICES ASSUME NEW c \in Cache
               PROVE  /\ drains'[c] <= 1
                      /\ ~Live(c) => queue'[c] = <<>>
                      /\ queue'[c] # <<>> => draining'[c]
                      /\ Live(c) /\ drains'[c] = 1 => draining'[c]
                      /\ Live(c) /\ holder = "worker" /\ serving = c => draining'[c] /\ drains'[c] = 0
                      /\ Live(c) /\ draining'[c] => drains'[c] = 1 \/ (holder \in {"worker", "ui"} /\ serving = c)
                      /\ c > cache => drains'[c] = 0 /\ ~draining'[c]
    BY <1>b, <2>1 DEF Drains
  <2>7. CASE c = cache
    BY <2>2, <2>5, <2>6, <2>7
  <2>8. CASE c # cache
    <3>1. queue'[c] = queue[c] /\ draining'[c] = draining[c] /\ drains'[c] = drains[c]
      BY <2>3, <2>8
    <3> QED  BY <1>a, <3>1 DEF Drains
  <2> QED  BY <2>7, <2>8
<1>5. Untracked'
  <2> SUFFICES ASSUME "messages" \in File, ~tracked
               PROVE  /\ "messages" \notin dirty /\ "messages" \notin pass'
                      /\ "messages" \notin FilesIn(queue'[cache]) /\ hand.file # "messages"
    BY <1>b DEF Untracked
  <2>1. /\ "messages" \notin dirty /\ "messages" \notin pass
        /\ "messages" \notin FilesIn(queue[cache]) /\ hand.file # "messages"
    BY <1>a, <1>b DEF Untracked
  <2>2. f # "messages"
    BY <2>1
  <2> QED  BY <1>e, <1>w, <2>1, <2>2 DEF q
<1>6. Filled'
  <2> SUFFICES ASSUME NEW g \in File, Due(g)' PROVE Due(g)
    BY <1>a, <1>b DEF Filled
  <2> QED  BY <1>b, <1>p, <1>w DEF Due
<1>7. Believes'
  <2> SUFFICES ASSUME Own', NEW g \in File
               PROVE  (written[g] \in {Nothing, Now(g)} \/ (Failing(g) /\ g \in failed[cache]))'
    BY DEF Believes
  <2>1. written[g] \in {Nothing, Now(g)} \/ (Failing(g) /\ g \in failed[cache])
    BY <1>a, <1>b, <1>o DEF Believes
  <2> QED  BY <1>b, <1>e, <2>1
<1>8. Synced'
  <2> SUFFICES ASSUME Own', NEW g \in File, store'[g] # Nothing, g = "messages" => tracked'
               PROVE  (Now(g) = store[g] \/ Due(g) \/ Failing(g))'
    BY DEF Synced
  <2>1. CASE g # f
    <3>1. Now(g) = store[g] \/ Due(g) \/ Failing(g)
      BY <1>a, <1>b, <1>o DEF Synced, Phases
    <3>2. Due(g) => Due(g)'
      BY <1>b, <1>p, <2>1 DEF Due
    <3>3. Now(g)' = Now(g) /\ Failing(g)' = Failing(g) /\ store'[g] = store[g]
      BY <1>b, <1>e, <2>1
    <3> QED  BY <3>1, <3>2, <3>3
  <2>2. CASE g = f
    <3>1. written[f] \in {Nothing, Now(f)} \/ Failing(f)
      BY <1>a, <1>b, <1>c, <1>o DEF Believes
    <3> QED  BY <1>b, <1>d, <1>e, <2>2, <3>1
  <2> QED  BY <2>1, <2>2
<1>9. SignedOutIsGone' /\ KeptAtClose'
  BY <1>b, NotClosed
<1> QED  BY <1>1, <1>2, <1>3, <1>4, <1>5, <1>6, <1>7, <1>8, <1>9 DEF IInv

\* The pass is over; a close that keeps goes on to its drain with nothing due.
LEMMA PassEndsKeeps ==
  ASSUME IInv, PassEnds
  PROVE  IInv'
<1>a. /\ TypeOK /\ Phases /\ Mutex /\ Drains /\ Generations /\ Untracked /\ Filled /\ Believes
      /\ Synced /\ WipedStaysWiped
  BY DEF IInv
<1>b. /\ phase = "writing" /\ pass = {}
      /\ UNCHANGED <<cache, closing, store, written, dots, tracked, pass, queue, draining, drains, failed>>
      /\ UNCHANGED <<gen, clearGen, wipes, shadowed, holder, serving, hand, disk, from, lost>>
  BY DEF PassEnds, books, queues, gens, lock, files
<1>c. \/ /\ closing = "no" /\ phase' = "open" /\ UNCHANGED <<dirty, slow, timer, slowTimer>>
      \/ /\ closing = "keep" /\ phase' = "draining" /\ timer' = FALSE /\ slowTimer' = FALSE
         /\ dirty' = {} /\ slow' = {} /\ dirty = {} /\ slow = {}
  <2>1. CASE closing = "no"
    BY <2>1 DEF PassEnds, marks
  <2>2. CASE closing # "no"
    <3>1. closing = "keep"
      BY <1>a, <1>b, <2>2 DEF TypeOK, Phases
    <3>2. /\ phase' = "draining" /\ dirty' = {} /\ slow' = {} /\ timer' = FALSE /\ slowTimer' = FALSE
      BY <2>2 DEF PassEnds
    <3> QED  BY <1>a, <1>b, <3>1, <3>2 DEF Phases
  <2> QED  BY <2>1, <2>2
<1>d. dirty' = dirty /\ slow' = slow /\ timer' \in BOOLEAN /\ slowTimer' \in BOOLEAN
  BY <1>a, <1>c DEF TypeOK
<1>e. Own' = Own /\ \A f \in File : Now(f)' = Now(f) /\ Failing(f)' = Failing(f)
  BY <1>b, OwnSame, LatestSame DEF Failing
<1>f. phase' \in {"open", "draining"} /\ \A c : Live(c)' <=> Live(c)
  BY <1>b, <1>c DEF Live
<1>g. \A f \in File : Due(f)' <=> Due(f)
  BY <1>b, <1>d DEF Due
<1>1. TypeOK'
  BY <1>a, <1>b, <1>d, <1>f DEF TypeOK, Phase
<1>2. Phases'
  <2>1. Own /\ closing = "keep" => ~dots
    BY <1>a, <1>b DEF Phases
  <2>2. cache' # 0 /\ (dots' => "users" \in File) /\ slow' \subseteq {"roster", "users"} /\ pass' = {}
    BY <1>a, <1>b, <1>d DEF Phases
  <2>3. Own' /\ closing' = "keep" => ~dots'
    BY <1>b, <1>e, <2>1
  <2>4. CASE closing' = "no" /\ phase' = "open"
    BY <2>2, <2>4 DEF Phases
  <2>5. CASE closing' = "keep" /\ phase' = "draining" /\ dirty' = {} /\ slow' = {}
    BY <2>2, <2>3, <2>5 DEF Phases
  <2> QED  BY <1>b, <1>c, <2>4, <2>5
<1>3. Mutex'
  BY <1>a, <1>b, <1>f DEF Mutex
<1>4. Drains'
  BY <1>a, <1>b, <1>f DEF Drains
<1>5. Generations' /\ WipedStaysWiped'
  BY <1>a, <1>b, GenerationsSame, WipedSame
<1>6. Untracked'
  BY <1>a, <1>b, <1>d DEF Untracked
<1>7. Filled'
  BY <1>a, <1>b, <1>g DEF Filled
<1>8. Believes'
  BY <1>a, <1>b, <1>e DEF Believes
<1>9. Synced'
  BY <1>a, <1>b, <1>e, <1>g DEF Synced, Phases
<1>10. SignedOutIsGone' /\ KeptAtClose'
  BY <1>f, NotClosed
<1> QED  BY <1>1, <1>2, <1>3, <1>4, <1>5, <1>6, <1>7, <1>8, <1>9, <1>10 DEF IInv

\* Signing out: what is pending goes.
LEMMA SignOutKeeps ==
  ASSUME IInv, SignOut
  PROVE  IInv'
<1>a. /\ TypeOK /\ Phases /\ Mutex /\ Drains /\ Generations /\ Untracked /\ Filled /\ Believes
      /\ Synced /\ WipedStaysWiped
  BY DEF IInv
<1>b. /\ phase = "open" /\ phase' = "draining" /\ closing' = "sign out"
      /\ dirty' = {} /\ slow' = {} /\ timer' = FALSE /\ slowTimer' = FALSE
      /\ UNCHANGED <<cache, store, written, dots, tracked, pass, queue, draining, drains, failed>>
      /\ UNCHANGED <<gen, clearGen, wipes, shadowed, holder, serving, hand, disk, from, lost>>
  BY DEF SignOut, Leave, books, queues, gens, lock, files
<1>e. Own' = Own /\ \A f \in File : Now(f)' = Now(f) /\ Failing(f)' = Failing(f)
  BY <1>b, OwnSame, LatestSame DEF Failing
<1>f. \A c : Live(c)' <=> Live(c)
  BY <1>b DEF Live
<1>1. TypeOK'
  BY <1>a, <1>b DEF TypeOK, Phase
<1>2. Phases'
  BY <1>a, <1>b DEF Phases
<1>3. Mutex'
  BY <1>a, <1>b, <1>f DEF Mutex
<1>4. Drains'
  BY <1>a, <1>b, <1>f DEF Drains
<1>5. Generations' /\ WipedStaysWiped'
  BY <1>a, <1>b, GenerationsSame, WipedSame
<1>6. Untracked'
  BY <1>a, <1>b DEF Untracked
<1>7. Filled'
  BY <1>a, <1>b DEF Filled, Due
<1>8. Believes'
  BY <1>a, <1>b, <1>e DEF Believes
<1>9. Synced'
  BY <1>b DEF Synced
<1>10. SignedOutIsGone' /\ KeptAtClose'
  BY <1>b, NotClosed
<1> QED  BY <1>1, <1>2, <1>3, <1>4, <1>5, <1>6, <1>7, <1>8, <1>9, <1>10 DEF IInv

\* The files go once nobody writes, and the cache with them.
LEMMA RemoveKeeps ==
  ASSUME IInv, Remove
  PROVE  IInv'
<1>a. /\ TypeOK /\ Phases /\ Mutex /\ Drains /\ Generations /\ Untracked /\ Filled /\ Believes
      /\ Synced /\ WipedStaysWiped
  BY DEF IInv
<1>b. /\ phase = "removing" /\ holder = "none" /\ phase' = "none"
      /\ disk' = Blank /\ from' = [f \in File |-> 0] /\ lost' = {}
      /\ store' = Blank /\ written' = Blank /\ dots' = FALSE /\ tracked' = FALSE
      /\ UNCHANGED <<cache, closing, dirty, slow, timer, slowTimer, pass, queue, draining, drains, failed>>
      /\ UNCHANGED <<gen, clearGen, wipes, shadowed, holder, serving, hand>>
  BY DEF Remove, marks, queues, gens, lock
<1>c. closing = "sign out" /\ dirty = {} /\ slow = {} /\ pass = {} /\ cache # 0
  BY <1>a, <1>b DEF Phases
<1>f. \A c : ~Live(c) /\ ~Live(c)'
  BY <1>b DEF Live
<1>g. hand = NoEntry
  BY <1>a, <1>b DEF Mutex
<1>1. TypeOK'
  <2>1. /\ disk' \in [File -> Data \union {Nothing}] /\ store' \in [File -> Data \union {Nothing}]
        /\ written' \in [File -> Data \union {Nothing}]
    BY <1>b DEF Blank
  <2>2. from' \in [File -> 0..MaxClears]
    BY <1>b, Bounds
  <2> QED  BY <1>a, <1>b, <2>1, <2>2 DEF TypeOK, Phase
<1>2. Phases'
  BY <1>b, <1>c DEF Phases
<1>3. Mutex'
  BY <1>a, <1>b, <1>g DEF Mutex
<1>4. Drains'
  BY <1>a, <1>b, <1>f DEF Drains
<1>5. Generations'
  BY <1>a, <1>b, GenerationsSame
<1>6. Untracked' /\ Believes' /\ Synced'
  BY <1>b DEF Untracked, Believes, Synced
<1>7. Filled'
  BY <1>b, <1>c DEF Filled, Due
<1>8. WipedStaysWiped' /\ SignedOutIsGone' /\ KeptAtClose'
  BY <1>b, <1>c DEF WipedStaysWiped, SignedOutIsGone, KeptAtClose, Blank
<1> QED  BY <1>1, <1>2, <1>3, <1>4, <1>5, <1>6, <1>7, <1>8 DEF IInv

-----------------------------------------------------------------------------
(* The drain. *)

\* A worker or close() takes diskMutex; the cache that asked is taken care of.
LEMMA BeginKeeps ==
  ASSUME IInv, NEW c \in Cache, NEW who \in {"worker", "ui"}, Begin(who, c),
         \/ /\ who = "worker" /\ drains[c] > 0 /\ drains' = [drains EXCEPT ![c] = @ - 1]
         \/ /\ who = "ui" /\ phase = "draining" /\ c = cache /\ drains' = drains
  PROVE  IInv'
<1>a. /\ TypeOK /\ Phases /\ Mutex /\ Drains /\ Generations /\ Untracked /\ Filled /\ Believes
      /\ Synced /\ WipedStaysWiped /\ SignedOutIsGone /\ KeptAtClose
  BY DEF IInv
<1>b. /\ holder = "none" /\ holder' = who /\ serving' = c
      /\ UNCHANGED <<cache, phase, closing, store, dirty, slow, timer, slowTimer, written, dots, tracked, pass>>
      /\ UNCHANGED <<queue, draining, failed, gen, clearGen, wipes, shadowed, hand, disk, from, lost>>
  BY DEF Begin, ui, marks, books, gens, files
<1>c. hand = NoEntry
  BY <1>a, <1>b DEF Mutex
<1>n. cache \in Nat /\ c \in Nat /\ c >= 1 /\ c <= cache /\ c \in 0..MaxCaches
  <2>1. cache \in Nat /\ MaxCaches \in Nat /\ c \in 1..MaxCaches
    BY <1>a, Numbers DEF Cache
  <2>2. ~(c > cache)
    <3>1. CASE who = "worker"
      <4>1. drains[c] > 0
        BY <3>1
      <4> QED  BY <1>a, <4>1 DEF Drains
    <3>2. CASE who = "ui"
      BY <2>1, <3>2
    <3> QED  BY <3>1, <3>2
  <2> QED  BY <2>1, <2>2
<1>d. /\ drains' \in [Cache -> Nat] /\ \A e \in Cache : e # c => drains'[e] = drains[e]
      /\ \/ who = "worker" /\ drains[c] = 1 /\ drains'[c] = 0
         \/ who = "ui" /\ drains'[c] = drains[c]
  <2>1. drains \in [Cache -> Nat] /\ drains[c] <= 1 /\ drains[c] \in Nat
    BY <1>a DEF TypeOK, Drains
  <2>2. CASE who = "worker"
    <3>1. drains[c] = 1 /\ drains' = [drains EXCEPT ![c] = @ - 1]
      BY <2>1, <2>2
    <3> QED  BY <2>1, <2>2, <3>1
  <2>3. CASE who = "ui"
    BY <2>1, <2>3
  <2> QED  BY <2>2, <2>3
<1>e. Own' = Own /\ \A f \in File : Now(f)' = Now(f) /\ Failing(f)' = Failing(f)
  BY <1>b, OwnSame, LatestSame DEF Failing
<1>f. \A e : Live(e)' <=> Live(e)
  BY <1>b DEF Live
<1>1. TypeOK'
  BY <1>a, <1>b, <1>d, <1>n DEF TypeOK
<1>2. Phases'
  BY <1>a, <1>b, <1>e DEF Phases
<1>3. Mutex'
  BY <1>b, <1>c, <1>n DEF Mutex
<1>4. Drains'
  <2> SUFFICES ASSUME NEW e \in Cache
               PROVE  /\ drains'[e] <= 1
                      /\ ~Live(e) => queue[e] = <<>>
                      /\ queue[e] # <<>> => draining[e]
                      /\ Live(e) /\ drains'[e] = 1 => draining[e]
                      /\ Live(e) /\ who = "worker" /\ c = e => draining[e] /\ drains'[e] = 0
                      /\ Live(e) /\ draining[e] => drains'[e] = 1 \/ (who \in {"worker", "ui"} /\ c = e)
                      /\ e > cache => drains'[e] = 0 /\ ~draining[e]
    BY <1>b, <1>f DEF Drains
  <2>1. CASE e = c
    <3>1. drains'[e] <= 1 /\ (who = "worker" => drains[e] = 1 /\ drains'[e] = 0) /\ (drains'[e] = 1 => drains[e] = 1)
      BY <1>a, <1>d, <2>1 DEF Drains
    <3>2. ~(e > cache)
      BY <1>n, <2>1
    <3> QED  BY <1>a, <2>1, <3>1, <3>2 DEF Drains
  <2>2. CASE e # c
    <3>1. drains'[e] = drains[e]
      BY <1>d, <2>2
    <3> QED  BY <1>a, <1>b, <2>2, <3>1 DEF Drains
  <2> QED  BY <2>1, <2>2
<1>5. Generations'
  BY <1>a, <1>b, <1>c, <1>e DEF Generations
<1>6. WipedStaysWiped' /\ SignedOutIsGone' /\ KeptAtClose'
  BY <1>a, <1>b, WipedSame, SignedOutSame, KeptSame
<1>7. Untracked' /\ Filled'
  BY <1>a, <1>b DEF Untracked, Filled, Due
<1>8. Believes'
  BY <1>a, <1>b, <1>e DEF Believes
<1>9. Synced'
  BY <1>a, <1>b, <1>e DEF Synced, Due
<1> QED  BY <1>1, <1>2, <1>3, <1>4, <1>5, <1>6, <1>7, <1>8, <1>9 DEF IInv

LEMMA BeginsKeep ==
  ASSUME IInv, CloseBegins \/ \E c \in Cache : WorkerBegins(c)
  PROVE  IInv'
<1>1. CASE CloseBegins
  <2>1. TypeOK /\ Phases
    BY DEF IInv
  <2>2. cache # 0
    BY <1>1, <2>1 DEF CloseBegins, Phases
  <2>3. cache \in Cache /\ phase = "draining" /\ Begin("ui", cache) /\ drains' = drains
    BY <1>1, <2>1, <2>2, Numbers DEF CloseBegins
  <2> QED  BY <2>3, BeginKeeps
<1>2. ASSUME NEW c \in Cache, WorkerBegins(c) PROVE IInv'
  <2>1. drains[c] > 0 /\ drains' = [drains EXCEPT ![c] = @ - 1] /\ Begin("worker", c)
    BY <1>2 DEF WorkerBegins
  <2> QED  BY <2>1, BeginKeeps
<1> QED  BY <1>1, <1>2

\* The oldest entry in hand, unless a clear made the cache stale.
LEMMA PopKeeps ==
  ASSUME IInv, Pop
  PROVE  IInv'
<1>a. /\ TypeOK /\ Phases /\ Mutex /\ Drains /\ Generations /\ Untracked /\ Filled /\ Believes
      /\ Synced /\ WipedStaysWiped
  BY DEF IInv
<1> DEFINE q == queue[cache]
<1>b. /\ holder \in {"worker", "ui"} /\ hand = NoEntry /\ queue[serving] # <<>>
      /\ queue' = [queue EXCEPT ![serving] = Tail(@)]
      /\ hand' = IF gen[serving] # clearGen THEN NoEntry ELSE Head(queue[serving])
      /\ UNCHANGED <<cache, phase, closing, store, dirty, slow, timer, slowTimer, written, dots, tracked, pass>>
      /\ UNCHANGED <<draining, drains, failed, gen, clearGen, wipes, shadowed, holder, serving, disk, from, lost>>
  BY DEF Pop, Stale, ui, marks, books, gens, files
<1>c. serving = cache /\ cache \in Cache /\ Live(cache) /\ phase \in {"open", "writing", "draining"}
  <2>1. serving \in 1..cache /\ cache \in Nat
    BY <1>a, <1>b, Numbers DEF Mutex
  <2>2. cache # 0
    BY <2>1
  <2>3. cache \in Cache /\ cache <= MaxCaches /\ MaxCaches \in Nat
    BY <1>a, <2>2, Numbers
  <2>4. serving \in Cache
    BY <2>1, <2>3 DEF Cache
  <2>5. Live(serving)
    BY <1>a, <1>b, <2>4 DEF Drains
  <2> QED  BY <2>3, <2>5 DEF Live
<1>q. q \in Seq(Entry) /\ OneEach(q) /\ q # <<>>
  BY <1>a, <1>b, <1>c DEF TypeOK, OneEach
<1> HIDE DEF q
<1>d. /\ Tail(q) \in Seq(Entry) /\ OneEach(Tail(q)) /\ Head(q) \in Entry
      /\ FilesIn(Tail(q)) = FilesIn(q) \ {Head(q).file} /\ Head(q).file \in FilesIn(q)
      /\ \A f \in File : Latest(Tail(q), Head(q), disk, f) = Latest(q, NoEntry, disk, f)
  BY <1>q, PopOf
<1>e. /\ queue' \in [Cache -> Seq(Entry)] /\ queue'[cache] = Tail(q)
      /\ \A c \in Cache : c # cache => queue'[c] = queue[c]
      /\ hand' = IF gen[cache] # clearGen THEN NoEntry ELSE Head(q)
  <2>1. queue \in [Cache -> Seq(Entry)] /\ queue' = [queue EXCEPT ![cache] = Tail(q)]
    BY <1>a, <1>b, <1>c DEF TypeOK, q
  <2>2. hand' = IF gen[cache] # clearGen THEN NoEntry ELSE Head(q)
    BY <1>b, <1>c DEF q
  <2> QED  BY <1>c, <1>d, <2>1, <2>2
<1>f. \A c \in Cache : OneEach(queue'[c])
  BY <1>a, <1>d, <1>e DEF TypeOK, OneEach
<1>g. Own' = Own /\ (Own => hand' = Head(q))
  BY <1>b, <1>e, OwnSame DEF Own
<1>h. ASSUME Own, NEW f \in File PROVE Now(f)' = Now(f) /\ Failing(f)' = Failing(f)
  <2>1. hand' = Head(q) /\ queue'[cache] = Tail(q)
    BY <1>e, <1>g, <1>h
  <2>2. Now(f)' = Latest(Tail(q), Head(q), disk, f)
    BY <1>b, <2>1 DEF Now
  <2>3. Now(f) = Latest(q, NoEntry, disk, f)
    BY <1>b DEF Now, q
  <2>4. hand.file # f
    BY <1>b, NothingIs
  <2>5. f \in FilesIn(q) <=> f \in FilesIn(Tail(q)) \/ Head(q).file = f
    BY <1>d
  <2>6. Failing(f)' <=> f \in lost /\ f \notin FilesIn(Tail(q)) /\ Head(q).file # f
    BY <1>b, <2>1 DEF Failing
  <2>7. Failing(f) <=> f \in lost /\ f \notin FilesIn(q)
    BY <2>4 DEF Failing, q
  <2> QED  BY <1>d, <2>2, <2>3, <2>5, <2>6, <2>7 DEF Failing
<1>1. TypeOK'
  <2>1. \A c \in Cache : \A i, j \in 1..Len(queue'[c]) : queue'[c][i].file = queue'[c][j].file => i = j
    BY <1>f DEF OneEach
  <2>2. hand' \in Entry \union {NoEntry}
    BY <1>d, <1>e
  <2> QED  BY <1>a, <1>b, <1>e, <2>1, <2>2 DEF TypeOK
<1>2. Phases'
  BY <1>a, <1>b, <1>g DEF Phases
<1>3. Mutex'
  BY <1>a, <1>b, <1>c DEF Mutex, Live
<1>4. Drains'
  <2> SUFFICES ASSUME NEW c \in Cache
               PROVE  /\ drains[c] <= 1
                      /\ ~Live(c) => queue'[c] = <<>>
                      /\ queue'[c] # <<>> => draining[c]
                      /\ Live(c) /\ drains[c] = 1 => draining[c]
                      /\ Live(c) /\ holder = "worker" /\ serving = c => draining[c] /\ drains[c] = 0
                      /\ Live(c) /\ draining[c] => drains[c] = 1 \/ (holder \in {"worker", "ui"} /\ serving = c)
                      /\ c > cache => drains[c] = 0 /\ ~draining[c]
    BY <1>b DEF Drains, Live
  <2>1. CASE c = cache
    <3>1. queue[c] # <<>> /\ Live(c)
      BY <1>b, <1>c, <2>1
    <3> QED  BY <1>a, <3>1 DEF Drains
  <2>2. CASE c # cache
    <3>1. queue'[c] = queue[c]
      BY <1>e, <2>2
    <3> QED  BY <1>a, <3>1 DEF Drains
  <2> QED  BY <2>1, <2>2
<1>5. Generations'
  <2>1. hand' # NoEntry => gen[serving] = clearGen
    BY <1>b
  <2> QED  BY <1>a, <1>b, <1>g, <2>1 DEF Generations
<1>6. Untracked'
  <2> SUFFICES ASSUME "messages" \in File, ~tracked
               PROVE  /\ "messages" \notin dirty /\ "messages" \notin pass
                      /\ "messages" \notin FilesIn(queue'[cache]) /\ hand'.file # "messages"
    BY <1>b DEF Untracked
  <2>1. /\ "messages" \notin dirty /\ "messages" \notin pass /\ "messages" \notin FilesIn(q)
    BY <1>a, <1>c DEF Untracked, q
  <2>2. NoEntry.file # "messages" /\ Head(q).file # "messages"
    BY <1>d, <2>1, NothingIs
  <2> QED  BY <1>d, <1>e, <2>1, <2>2
<1>7. Filled'
  BY <1>a, <1>b DEF Filled, Due
<1>8. Believes'
  <2> SUFFICES ASSUME Own, NEW g \in File
               PROVE  (written[g] \in {Nothing, Now(g)} \/ (Failing(g) /\ g \in failed[cache]))'
    BY <1>g DEF Believes
  <2>1. written[g] \in {Nothing, Now(g)} \/ (Failing(g) /\ g \in failed[cache])
    BY <1>a, <1>c DEF Believes
  <2>2. Now(g)' = Now(g) /\ Failing(g)' = Failing(g)
    BY <1>h
  <2> QED  BY <1>b, <2>1, <2>2
<1>9. Synced'
  <2> SUFFICES ASSUME Own, closing # "sign out", NEW g \in File, store[g] # Nothing, g = "messages" => tracked
               PROVE  (Now(g) = store[g] \/ Due(g) \/ Failing(g))'
    BY <1>b, <1>g DEF Synced
  <2>1. Now(g) = store[g] \/ Due(g) \/ Failing(g)
    BY <1>a, <1>c DEF Synced
  <2>2. Now(g)' = Now(g) /\ Failing(g)' = Failing(g)
    BY <1>h
  <2> QED  BY <1>b, <2>1, <2>2 DEF Due
<1>10. WipedStaysWiped' /\ SignedOutIsGone' /\ KeptAtClose'
  BY <1>a, <1>b, <1>c, WipedSame, NotClosed
<1> QED  BY <1>1, <1>2, <1>3, <1>4, <1>5, <1>6, <1>7, <1>8, <1>9, <1>10 DEF IInv

\* The entry in hand is of the cache that may still write.
LEMMA InHand ==
  ASSUME TypeOK, Mutex, hand # NoEntry
  PROVE  /\ hand \in Entry /\ hand.file \in File /\ hand.data \in Data /\ serving = cache /\ cache \in Cache
         /\ phase \in {"open", "writing", "draining"} /\ holder \in {"worker", "ui"} /\ Live(cache)
<1>1. hand \in Entry /\ hand.file \in File /\ hand.data \in Data
  BY NothingIs DEF TypeOK
<1>2. Live(serving) /\ holder \in {"worker", "ui"}
  BY DEF Mutex, TypeOK
<1>3. serving = cache /\ phase \in {"open", "writing", "draining"} /\ serving \in 1..cache
  BY <1>2 DEF Live, Mutex
<1>4. cache # 0
  <2>1. cache \in Nat
    BY Numbers
  <2> QED  BY <1>3, <2>1
<1> QED  BY <1>1, <1>2, <1>3, <1>4, Numbers

\* The bytes on disk instead of in hand.
LEMMA LandKeeps ==
  ASSUME IInv, Land
  PROVE  IInv'
<1>a. /\ TypeOK /\ Phases /\ Mutex /\ Drains /\ Generations /\ Untracked /\ Filled /\ Believes
      /\ Synced /\ WipedStaysWiped
  BY DEF IInv
<1>b. /\ hand # NoEntry /\ hand' = NoEntry
      /\ disk' = [disk EXCEPT ![hand.file] = hand.data]
      /\ from' = [from EXCEPT ![hand.file] = gen[serving]] /\ lost' = lost \ {hand.file}
      /\ UNCHANGED <<cache, phase, closing, store, dirty, slow, timer, slowTimer, written, dots, tracked, pass>>
      /\ UNCHANGED <<queue, draining, drains, failed, gen, clearGen, wipes, shadowed, holder, serving>>
  BY DEF Land, ui, marks, books, queues, gens
<1>c. /\ hand \in Entry /\ hand.file \in File /\ hand.data \in Data /\ serving = cache /\ cache \in Cache
      /\ phase \in {"open", "writing", "draining"} /\ holder \in {"worker", "ui"} /\ Live(cache)
  BY <1>a, <1>b, InHand
<1>o. Own' = Own
  BY <1>b, OwnSame
<1>d. \A f \in File : Now(f)' = Now(f)
  <2> SUFFICES ASSUME NEW f \in File PROVE Now(f)' = Now(f)
    OBVIOUS
  <2>1. disk \in [File -> Data \union {Nothing}]
    BY <1>a DEF TypeOK
  <2>2. Latest(queue[cache], NoEntry, [disk EXCEPT ![hand.file] = hand.data], f) = Latest(queue[cache], hand, disk, f)
    BY <1>c, <2>1, LandOf
  <2> QED  BY <1>b, <2>2 DEF Now
<1>e. \A f \in File : Failing(f)' <=> Failing(f)
  BY <1>b, NothingIs DEF Failing
<1>1. TypeOK'
  <2>1. disk' \in [File -> Data \union {Nothing}] /\ from' \in [File -> 0..MaxClears]
    BY <1>a, <1>b, <1>c DEF TypeOK
  <2> QED  BY <1>a, <1>b, <2>1 DEF TypeOK
<1>2. Phases'
  BY <1>a, <1>b, <1>o DEF Phases
<1>3. Mutex'
  BY <1>a, <1>b DEF Mutex
<1>4. Drains'
  BY <1>a, <1>b, DrainsSame
<1>5. Generations'
  BY <1>a, <1>b, <1>o DEF Generations
<1>6. Untracked'
  BY <1>a, <1>b, NothingIs DEF Untracked
<1>7. Filled'
  BY <1>a, <1>b DEF Filled, Due
<1>8. Believes'
  <2> SUFFICES ASSUME Own', NEW g \in File
               PROVE  (written[g] \in {Nothing, Now(g)} \/ (Failing(g) /\ g \in failed[cache]))'
    BY DEF Believes
  <2>1. written[g] \in {Nothing, Now(g)} \/ (Failing(g) /\ g \in failed[cache])
    BY <1>a, <1>c, <1>o DEF Believes
  <2> QED  BY <1>b, <1>d, <1>e, <2>1
<1>9. Synced'
  <2> SUFFICES ASSUME Own, closing # "sign out", NEW g \in File, store[g] # Nothing, g = "messages" => tracked
               PROVE  (Now(g) = store[g] \/ Due(g) \/ Failing(g))'
    BY <1>b, <1>o DEF Synced
  <2>1. Now(g) = store[g] \/ Due(g) \/ Failing(g)
    BY <1>a, <1>c DEF Synced
  <2> QED  BY <1>b, <1>d, <1>e, <2>1 DEF Due
<1>10. WipedStaysWiped'
  <2> SUFFICES ASSUME wipes = 0, NEW g \in File, disk'[g] # Nothing PROVE from'[g] = clearGen
    BY <1>b DEF WipedStaysWiped
  <2>1. gen[serving] = clearGen
    BY <1>a, <1>b DEF Generations
  <2>2. CASE g = hand.file
    BY <1>a, <1>b, <2>1, <2>2 DEF TypeOK
  <2>3. CASE g # hand.file
    <3>1. disk'[g] = disk[g] /\ from'[g] = from[g]
      BY <1>a, <1>b, <2>3 DEF TypeOK
    <3> QED  BY <1>a, <3>1 DEF WipedStaysWiped
  <2> QED  BY <2>2, <2>3
<1>11. SignedOutIsGone' /\ KeptAtClose'
  BY <1>b, <1>c, NotClosed
<1> QED  BY <1>1, <1>2, <1>3, <1>4, <1>5, <1>6, <1>7, <1>8, <1>9, <1>10, <1>11 DEF IInv

\* A refused write is noted, unless newer bytes wait already.
LEMMA WriteFailsKeeps ==
  ASSUME IInv, WriteFails
  PROVE  IInv'
<1>a. /\ TypeOK /\ Phases /\ Mutex /\ Drains /\ Generations /\ Untracked /\ Filled /\ Believes
      /\ Synced /\ WipedStaysWiped
  BY DEF IInv
<1>b. /\ hand # NoEntry /\ hand' = NoEntry
      /\ failed' = [failed EXCEPT ![serving] = @ \union {hand.file}] /\ lost' = lost \union {hand.file}
      /\ UNCHANGED <<cache, phase, closing, store, dirty, slow, timer, slowTimer, written, dots, tracked, pass>>
      /\ UNCHANGED <<queue, draining, drains, gen, clearGen, wipes, shadowed, holder, serving, disk, from>>
  BY DEF WriteFails, ui, marks, books, queues, gens
<1>c. /\ hand \in Entry /\ hand.file \in File /\ hand.data \in Data /\ serving = cache /\ cache \in Cache
      /\ phase \in {"open", "writing", "draining"} /\ holder \in {"worker", "ui"} /\ Live(cache)
  BY <1>a, <1>b, InHand
<1>o. Own' = Own
  BY <1>b, OwnSame
<1>f. /\ failed' \in [Cache -> SUBSET File] /\ failed'[cache] = failed[cache] \union {hand.file}
  BY <1>a, <1>b, <1>c DEF TypeOK
<1>d. \A f \in File : Now(f)' = Now(f) \/ (f = hand.file /\ Failing(f)')
  <2> SUFFICES ASSUME NEW f \in File, ~(f = hand.file /\ Failing(f)') PROVE Now(f)' = Now(f)
    OBVIOUS
  <2>1. f \in FilesIn(queue[cache]) \/ hand.file # f
    BY <1>b, NothingIs DEF Failing
  <2>2. Latest(queue[cache], NoEntry, disk, f) = Latest(queue[cache], hand, disk, f)
    BY <2>1, FailOf
  <2> QED  BY <1>b, <2>2 DEF Now
<1>e. \A f \in File : Failing(f) => Failing(f)'
  BY <1>b, NothingIs DEF Failing
<1>1. TypeOK'
  <2>1. lost' \subseteq File
    BY <1>a, <1>b, <1>c DEF TypeOK
  <2> QED  BY <1>a, <1>b, <1>f, <2>1 DEF TypeOK
<1>2. Phases'
  BY <1>a, <1>b, <1>o DEF Phases
<1>3. Mutex'
  BY <1>a, <1>b DEF Mutex
<1>4. Drains'
  BY <1>a, <1>b, DrainsSame
<1>5. Generations'
  BY <1>a, <1>b, <1>o DEF Generations
<1>6. Untracked'
  BY <1>a, <1>b, NothingIs DEF Untracked
<1>7. Filled'
  BY <1>a, <1>b DEF Filled, Due
<1>8. Believes'
  <2> SUFFICES ASSUME Own', NEW g \in File
               PROVE  (written[g] \in {Nothing, Now(g)} \/ (Failing(g) /\ g \in failed[cache]))'
    BY DEF Believes
  <2>1. written[g] \in {Nothing, Now(g)} \/ (Failing(g) /\ g \in failed[cache])
    BY <1>a, <1>c, <1>o DEF Believes
  <2> QED  BY <1>b, <1>d, <1>e, <1>f, <2>1
<1>9. Synced'
  <2> SUFFICES ASSUME Own, closing # "sign out", NEW g \in File, store[g] # Nothing, g = "messages" => tracked
               PROVE  (Now(g) = store[g] \/ Due(g) \/ Failing(g))'
    BY <1>b, <1>o DEF Synced
  <2>1. Now(g) = store[g] \/ Due(g) \/ Failing(g)
    BY <1>a, <1>c DEF Synced
  <2> QED  BY <1>b, <1>d, <1>e, <2>1 DEF Due
<1>10. WipedStaysWiped'
  BY <1>a, <1>b, WipedSame
<1>11. SignedOutIsGone' /\ KeptAtClose'
  BY <1>b, <1>c, NotClosed
<1> QED  BY <1>1, <1>2, <1>3, <1>4, <1>5, <1>6, <1>7, <1>8, <1>9, <1>10, <1>11 DEF IInv

\* The queue is empty: what was believed on its way is on disk.
LEMMA DrainEndsKeeps ==
  ASSUME IInv, DrainEnds
  PROVE  IInv'
<1>a. /\ TypeOK /\ Phases /\ Mutex /\ Drains /\ Generations /\ Untracked /\ Filled /\ Believes
      /\ Synced /\ WipedStaysWiped /\ SignedOutIsGone /\ KeptAtClose
  BY DEF IInv
<1>b. /\ holder \in {"worker", "ui"} /\ hand = NoEntry /\ queue[serving] = <<>>
      /\ draining' = [draining EXCEPT ![serving] = FALSE] /\ holder' = "none" /\ serving' = 0
      /\ UNCHANGED <<cache, closing, store, dirty, slow, timer, slowTimer, written, dots, tracked, pass>>
      /\ UNCHANGED <<queue, drains, failed, gen, clearGen, wipes, shadowed, hand, disk, from, lost>>
  BY DEF DrainEnds, marks, books, gens, files
<1>c. \/ holder = "worker" /\ phase' = phase
      \/ /\ holder = "ui" /\ phase = "draining" /\ serving = cache
         /\ \/ closing = "keep" /\ phase' = "none"
            \/ closing = "sign out" /\ phase' = "removing"
  <2>1. CASE holder = "worker"
    BY <2>1 DEF DrainEnds
  <2>2. CASE holder = "ui"
    <3>1. phase = "draining" /\ serving = cache /\ closing \in {"keep", "sign out"}
      BY <1>a, <2>2 DEF Mutex, Phases, TypeOK
    <3> QED  BY <2>2, <3>1 DEF DrainEnds
  <2> QED  BY <1>b, <2>1, <2>2
<1>d. /\ serving \in Cache /\ draining' \in [Cache -> BOOLEAN] /\ ~draining'[serving]
      /\ \A c \in Cache : c # serving => draining'[c] = draining[c]
  <2>1. serving \in 1..cache /\ cache \in Nat /\ cache <= MaxCaches /\ MaxCaches \in Nat
    BY <1>a, <1>b, Numbers DEF Mutex
  <2>2. serving \in Cache
    BY <2>1 DEF Cache
  <2>3. draining \in [Cache -> BOOLEAN]
    BY <1>a DEF TypeOK
  <2> QED  BY <1>b, <2>2, <2>3
<1>e. Own' = Own /\ \A f \in File : Now(f)' = Now(f) /\ Failing(f)' = Failing(f)
  BY <1>b, OwnSame, LatestSame DEF Failing
<1>f. \A c : Live(c)' => Live(c)
  BY <1>b, <1>c DEF Live
<1>1. TypeOK'
  <2>1. phase' \in Phase
    BY <1>a, <1>c DEF TypeOK, Phase
  <2>2. serving' \in 0..MaxCaches
    BY <1>b, Bounds
  <2> QED  BY <1>a, <1>b, <1>d, <2>1, <2>2 DEF TypeOK
<1>2. Phases'
  <2>1. CASE holder = "worker"
    BY <1>a, <1>b, <1>c, <1>e, <2>1 DEF Phases
  <2>2. CASE phase = "draining" /\ phase' \in {"none", "removing"}
    BY <1>a, <1>b, <1>c, <2>2 DEF Phases
  <2> QED  BY <1>b, <1>c, <2>1, <2>2
<1>3. Mutex'
  BY <1>b DEF Mutex
<1>4. Drains'
  <2> SUFFICES ASSUME NEW c \in Cache
               PROVE  /\ drains[c] <= 1
                      /\ ~Live(c)' => queue[c] = <<>>
                      /\ queue[c] # <<>> => draining'[c]
                      /\ Live(c)' /\ drains[c] = 1 => draining'[c]
                      /\ Live(c)' /\ draining'[c] => drains[c] = 1
                      /\ c > cache => drains[c] = 0 /\ ~draining'[c]
    BY <1>b DEF Drains
  <2>1. CASE c = serving
    <3>1. Live(c)' => drains[c] = 0
      <4>1. CASE holder = "worker"
        BY <1>a, <1>f, <2>1, <4>1 DEF Drains
      <4>2. CASE phase' \in {"none", "removing"}
        BY <4>2 DEF Live
      <4> QED  BY <1>c, <4>1, <4>2
    <3>2. queue[c] = <<>> /\ ~draining'[c]
      BY <1>b, <1>d, <2>1
    <3>3. drains[c] <= 1 /\ (c > cache => drains[c] = 0)
      BY <1>a DEF Drains
    <3> QED  BY <3>1, <3>2, <3>3
  <2>2. CASE c # serving
    <3>1. draining'[c] = draining[c]
      BY <1>d, <2>2
    <3>2. ~Live(c)' => queue[c] = <<>>
      <4>1. CASE holder = "worker"
        BY <1>a, <1>b, <1>c, <4>1 DEF Drains, Live
      <4>2. CASE serving = cache
        BY <1>a, <2>2, <4>2 DEF Drains, Live
      <4> QED  BY <1>c, <4>1, <4>2
    <3> QED  BY <1>a, <1>f, <2>2, <3>1, <3>2 DEF Drains
  <2> QED  BY <2>1, <2>2
<1>5. Generations'
  BY <1>a, <1>b, <1>e DEF Generations
<1>6. WipedStaysWiped'
  BY <1>a, <1>b, WipedSame
<1>7. Untracked'
  BY <1>a, <1>b, <1>c DEF Untracked
<1>8. Filled'
  BY <1>a, <1>b DEF Filled, Due
<1>9. Believes'
  BY <1>a, <1>b, <1>c, <1>e DEF Believes
<1>10. Synced'
  <2> SUFFICES ASSUME phase' \in {"open", "writing", "draining"}, closing # "sign out", Own,
                      NEW g \in File, store[g] # Nothing, g = "messages" => tracked
               PROVE  (Now(g) = store[g] \/ Due(g) \/ Failing(g))'
    BY <1>b, <1>e DEF Synced
  <2>1. Now(g) = store[g] \/ Due(g) \/ Failing(g)
    BY <1>a, <1>c DEF Synced
  <2> QED  BY <1>b, <1>e, <2>1 DEF Due
<1>11. SignedOutIsGone'
  <2>1. CASE phase' = phase
    BY <1>a, <1>b, <2>1, SignedOutSame
  <2>2. CASE closing = "keep" \/ phase' = "removing"
    BY <1>b, <2>2 DEF SignedOutIsGone
  <2> QED  BY <1>c, <2>1, <2>2
<1>12. KeptAtClose'
  <2>1. CASE phase' = phase
    BY <1>a, <1>b, <2>1, KeptSame
  <2>2. CASE phase' = "removing"
    BY <2>2 DEF KeptAtClose
  <2>3. CASE phase = "draining" /\ closing = "keep" /\ serving = cache
    <3> SUFFICES ASSUME gen[cache] = clearGen, ~shadowed,
                        NEW f \in File, store[f] # Nothing, f = "messages" => tracked, f \notin lost
                 PROVE  disk[f] = store[f]
      BY <1>b DEF KeptAtClose, Kept
    <3>1. Own
      BY <1>a, <2>3 DEF Own, Phases
    <3>2. Now(f) = store[f] \/ Due(f) \/ Failing(f)
      BY <1>a, <2>3, <3>1 DEF Synced
    <3>3. ~Due(f)
      BY <1>a, <2>3, <3>1 DEF Due, Phases
    <3>4. ~Failing(f)
      BY DEF Failing
    <3>5. Now(f) = disk[f]
      BY <1>b, <2>3, LatestEmpty DEF Now
    <3> QED  BY <3>2, <3>3, <3>4, <3>5
  <2> QED  BY <1>c, <2>1, <2>2, <2>3
<1> QED  BY <1>1, <1>2, <1>3, <1>4, <1>5, <1>6, <1>7, <1>8, <1>9, <1>10, <1>11, <1>12 DEF IInv

-----------------------------------------------------------------------------
(* The clear and its wipe: until it is over no cache counts as its own. *)

LEMMA ClearKeeps ==
  ASSUME IInv, Clear
  PROVE  IInv'
<1>a. /\ TypeOK /\ Phases /\ Mutex /\ Drains /\ Generations /\ Untracked /\ Filled /\ Believes
      /\ Synced /\ WipedStaysWiped /\ SignedOutIsGone /\ KeptAtClose
  BY DEF IInv
<1>b. /\ clearGen < MaxClears /\ clearGen' = clearGen + 1 /\ wipes' = wipes + 1
      /\ UNCHANGED <<cache, phase, closing, store, dirty, slow, timer, slowTimer, written, dots, tracked, pass>>
      /\ UNCHANGED <<queue, draining, drains, failed, gen, shadowed, holder, serving, hand, disk, from, lost>>
  BY DEF Clear, ui, marks, books, queues, lock, files
<1>n. /\ clearGen \in Nat /\ wipes \in Nat /\ MaxClears \in Nat /\ wipes <= clearGen
  BY <1>a, Numbers DEF Generations
<1>c. \A c \in Cache : gen[c] \in Nat /\ gen[c] <= clearGen
  <2>1. \A c \in Cache : gen[c] \in 0..MaxClears
    BY <1>a DEF TypeOK
  <2> QED  BY <1>a, <1>n, <2>1 DEF Generations
<1>d. cache # 0 => gen[cache] # clearGen'
  <2>1. cache # 0 => cache \in Cache
    BY <1>a, Numbers
  <2> QED  BY <1>b, <1>c, <1>n, <2>1
<1>e. ~Own'
  BY <1>b, <1>d DEF Own
<1>f. clearGen' \in 0..MaxClears /\ wipes' \in 0..MaxClears /\ wipes' <= clearGen' /\ wipes' > 0
  BY <1>b, <1>n
<1>1. TypeOK'
  BY <1>a, <1>b, <1>f DEF TypeOK
<1>2. Phases'
  BY <1>a, <1>b, <1>e DEF Phases
<1>3. Mutex'
  BY <1>a, <1>b, <1>f DEF Mutex, Live
<1>4. Drains'
  BY <1>a, <1>b, DrainsSame
<1>5. Generations'
  <2>1. \A c \in Cache : gen'[c] <= clearGen'
    BY <1>b, <1>c, <1>n
  <2> QED  BY <1>e, <1>f, <2>1 DEF Generations
<1>6. Untracked' /\ Filled'
  BY <1>a, <1>b DEF Untracked, Filled, Due
<1>7. Believes' /\ Synced'
  BY <1>e DEF Believes, Synced
<1>8. WipedStaysWiped'
  <2>1. wipes' # 0
    BY <1>b, <1>n
  <2> QED  BY <2>1 DEF WipedStaysWiped
<1>9. SignedOutIsGone'
  BY <1>a, <1>b, SignedOutSame
<1>10. KeptAtClose'
  <2>1. cache = 0 => closing # "keep"
    BY <1>a DEF Phases
  <2> QED  BY <1>b, <1>d, <2>1 DEF KeptAtClose
<1> QED  BY <1>1, <1>2, <1>3, <1>4, <1>5, <1>6, <1>7, <1>8, <1>9, <1>10 DEF IInv

LEMMA WipeBeginsKeeps ==
  ASSUME IInv, WipeBegins
  PROVE  IInv'
<1>a. /\ TypeOK /\ Phases /\ Mutex /\ Drains /\ Generations /\ Untracked /\ Filled /\ Believes
      /\ Synced /\ WipedStaysWiped /\ SignedOutIsGone /\ KeptAtClose
  BY DEF IInv
<1>b. /\ wipes > 0 /\ holder = "none" /\ holder' = "wipe"
      /\ UNCHANGED <<cache, phase, closing, store, dirty, slow, timer, slowTimer, written, dots, tracked, pass>>
      /\ UNCHANGED <<queue, draining, drains, failed, gen, clearGen, wipes, shadowed, serving, hand>>
      /\ UNCHANGED <<disk, from, lost>>
  BY DEF WipeBegins, ui, marks, books, queues, gens, files
<1>e. Own' = Own /\ \A f \in File : Now(f)' = Now(f) /\ Failing(f)' = Failing(f)
  BY <1>b, OwnSame, LatestSame DEF Failing
<1>1. TypeOK'
  BY <1>a, <1>b DEF TypeOK
<1>2. Phases'
  BY <1>a, <1>b, <1>e DEF Phases
<1>3. Mutex'
  BY <1>a, <1>b DEF Mutex, Live
<1>4. Drains'
  BY <1>a, <1>b DEF Drains, Live
<1>5. Generations' /\ Believes' /\ WipedStaysWiped' /\ SignedOutIsGone' /\ KeptAtClose'
  BY <1>a, <1>b, GenerationsSame, BelievesSame, WipedSame, SignedOutSame, KeptSame
<1>6. Untracked' /\ Filled'
  BY <1>a, <1>b DEF Untracked, Filled, Due
<1>7. Synced'
  BY <1>a, <1>b, <1>e DEF Synced, Due
<1> QED  BY <1>1, <1>2, <1>3, <1>4, <1>5, <1>6, <1>7 DEF IInv

LEMMA WipeFileKeeps ==
  ASSUME IInv, NEW f \in File, WipeFile(f)
  PROVE  IInv'
<1>a. /\ TypeOK /\ Phases /\ Mutex /\ Drains /\ Generations /\ Untracked /\ Filled /\ Believes
      /\ Synced /\ WipedStaysWiped /\ SignedOutIsGone /\ KeptAtClose
  BY DEF IInv
<1>b. /\ holder = "wipe" /\ disk[f] # Nothing
      /\ disk' = [disk EXCEPT ![f] = Nothing] /\ from' = [from EXCEPT ![f] = 0]
      /\ UNCHANGED <<cache, phase, closing, store, dirty, slow, timer, slowTimer, written, dots, tracked, pass>>
      /\ UNCHANGED <<queue, draining, drains, failed, gen, clearGen, wipes, shadowed, holder, serving, hand, lost>>
  BY DEF WipeFile, ui, marks, books, queues, gens, lock
<1>c. wipes # 0 /\ ~Own
  <2>1. wipes > 0 /\ wipes \in Nat
    BY <1>a, <1>b, Numbers DEF Mutex
  <2> QED  BY <1>a, <2>1 DEF Generations
<1>d. ~Own'
  BY <1>b, <1>c, OwnSame
<1>1. TypeOK'
  <2>1. disk' \in [File -> Data \union {Nothing}]
    BY <1>a, <1>b DEF TypeOK
  <2>2. from' \in [File -> 0..MaxClears]
    <3>1. 0 \in 0..MaxClears
      BY Bounds
    <3> QED  BY <1>a, <1>b, <3>1 DEF TypeOK
  <2> QED  BY <1>a, <1>b, <2>1, <2>2 DEF TypeOK
<1>2. Phases'
  BY <1>a, <1>b, <1>d DEF Phases
<1>3. Mutex' /\ Drains' /\ Generations'
  BY <1>a, <1>b, MutexSame, DrainsSame, GenerationsSame
<1>4. Untracked' /\ Filled'
  BY <1>a, <1>b DEF Untracked, Filled, Due
<1>5. Believes' /\ Synced'
  BY <1>d DEF Believes, Synced
<1>6. WipedStaysWiped'
  BY <1>b, <1>c DEF WipedStaysWiped
<1>7. SignedOutIsGone'
  BY <1>a, <1>b DEF SignedOutIsGone, Blank
<1>8. KeptAtClose'
  <2>1. closing = "keep" => cache # 0
    BY <1>a DEF Phases
  <2> QED  BY <1>b, <1>c, <2>1 DEF KeptAtClose, Own
<1> QED  BY <1>1, <1>2, <1>3, <1>4, <1>5, <1>6, <1>7, <1>8 DEF IInv

LEMMA WipeEndsKeeps ==
  ASSUME IInv, WipeEnds
  PROVE  IInv'
<1>a. /\ TypeOK /\ Phases /\ Mutex /\ Drains /\ Generations /\ Untracked /\ Filled /\ Believes
      /\ Synced /\ WipedStaysWiped /\ SignedOutIsGone /\ KeptAtClose
  BY DEF IInv
<1>b. /\ holder = "wipe" /\ disk = Blank /\ wipes' = wipes - 1 /\ holder' = "none"
      /\ UNCHANGED <<cache, phase, closing, store, dirty, slow, timer, slowTimer, written, dots, tracked, pass>>
      /\ UNCHANGED <<queue, draining, drains, failed, gen, clearGen, shadowed, serving, hand, disk, from, lost>>
  BY DEF WipeEnds, ui, marks, books, queues, files
<1>n. /\ wipes \in Nat /\ wipes > 0 /\ wipes <= MaxClears /\ MaxClears \in Nat
      /\ wipes <= clearGen /\ clearGen \in Nat
  BY <1>a, <1>b, Numbers DEF Mutex, Generations
<1>c. ~Own /\ ~Own'
  <2>1. ~Own
    BY <1>a, <1>n DEF Generations
  <2> QED  BY <1>b, <2>1, OwnSame
<1>d. wipes' \in 0..MaxClears /\ wipes' <= clearGen
  BY <1>b, <1>n
<1>e. hand = NoEntry
  BY <1>a, <1>b DEF Mutex
<1>1. TypeOK'
  BY <1>a, <1>b, <1>d DEF TypeOK
<1>2. Phases'
  BY <1>a, <1>b, <1>c DEF Phases
<1>3. Mutex'
  BY <1>a, <1>b DEF Mutex, Live
<1>4. Drains'
  BY <1>a, <1>b DEF Drains, Live
<1>5. Generations'
  BY <1>a, <1>b, <1>c, <1>d, <1>e DEF Generations
<1>6. Untracked' /\ Filled'
  BY <1>a, <1>b DEF Untracked, Filled, Due
<1>7. Believes' /\ Synced'
  BY <1>c DEF Believes, Synced
<1>8. WipedStaysWiped'
  BY <1>b DEF WipedStaysWiped, Blank
<1>9. SignedOutIsGone' /\ KeptAtClose'
  BY <1>a, <1>b, SignedOutSame, KeptSame
<1> QED  BY <1>1, <1>2, <1>3, <1>4, <1>5, <1>6, <1>7, <1>8, <1>9 DEF IInv

-----------------------------------------------------------------------------
(* The theorems. *)

\* The invariant holds at the start and is kept by every action.
LEMMA InvariantInit ==
  ASSUME Init PROVE IInv
<1> DEFINE v0 == CHOOSE v \in Data : TRUE
<1>a. /\ cache = 0 /\ phase = "none" /\ closing = "no" /\ store = Blank
      /\ dirty = {} /\ slow = {} /\ timer = FALSE /\ slowTimer = FALSE
      /\ written = Blank /\ dots = FALSE /\ tracked = FALSE /\ pass = {}
      /\ queue = [c \in Cache |-> <<>>] /\ failed = [c \in Cache |-> {}]
      /\ draining = [c \in Cache |-> FALSE] /\ drains = [c \in Cache |-> 0]
      /\ gen = [c \in Cache |-> 0] /\ clearGen = 0 /\ wipes = 0 /\ shadowed = FALSE
      /\ holder = "none" /\ serving = 0 /\ hand = NoEntry
      /\ \E d \in {Nothing, v0} : disk = [f \in File |-> d]
      /\ from = [f \in File |-> 0] /\ lost = {}
  BY DEF Init
<1>b. v0 \in Data
  <2>1. \E v \in Data : TRUE
    <3>1. Data # {}
      BY Zenon, DiskAssumption
    <3> QED  BY <3>1
  <2> QED  BY <2>1
<1> HIDE DEF v0
<1>n. MaxCaches \in Nat /\ MaxClears \in Nat /\ 0 \in 0..MaxCaches /\ 0 \in 0..MaxClears
  BY Bounds
<1>c. disk \in [File -> Data \union {Nothing}]
  <2>1. PICK d \in {Nothing, v0} : disk = [f \in File |-> d]
    BY <1>a
  <2>2. d \in Data \union {Nothing}
    BY <1>b
  <2> QED  BY <2>1, <2>2
<1>d. Blank \in [File -> Data \union {Nothing}]
  BY DEF Blank
<1>1. TypeOK
  <2>1. queue \in [Cache -> Seq(Entry)] /\ \A c \in Cache : queue[c] = <<>>
    BY <1>a
  <2>2. \A c \in Cache : \A i, j \in 1..Len(queue[c]) : queue[c][i].file = queue[c][j].file => i = j
    BY <2>1
  <2>3. /\ failed \in [Cache -> SUBSET File] /\ draining \in [Cache -> BOOLEAN]
        /\ drains \in [Cache -> Nat] /\ gen \in [Cache -> 0..MaxClears] /\ from \in [File -> 0..MaxClears]
    BY <1>a, <1>n
  <2> QED  BY <1>a, <1>c, <1>d, <1>n, <2>1, <2>2, <2>3 DEF TypeOK, Phase
<1>2. Phases /\ Mutex
  BY <1>a DEF Phases, Mutex
<1>3. Drains
  <2>1. \A c \in Cache : queue[c] = <<>> /\ drains[c] = 0 /\ ~draining[c] /\ ~Live(c)
    BY <1>a DEF Live
  <2> QED  BY <2>1 DEF Drains
<1>4. Generations
  BY <1>a DEF Generations
<1>5. Untracked /\ Filled /\ Believes /\ Synced
  BY <1>a DEF Untracked, Filled, Due, Believes, Synced
<1>6. WipedStaysWiped /\ SignedOutIsGone /\ KeptAtClose
  BY <1>a DEF WipedStaysWiped, SignedOutIsGone, KeptAtClose
<1> QED  BY <1>1, <1>2, <1>3, <1>4, <1>5, <1>6 DEF IInv

LEMMA InvariantStep ==
  ASSUME IInv, [Next]_vars PROVE IInv'
<1>1. CASE Open
  BY <1>1, OpenKeeps
<1>2. CASE Changes
  BY <1>2, ChangesKeep
<1>3. CASE OpenConversation
  BY <1>3, OpenConversationKeeps
<1>4. CASE CloseKeeping \/ Tick
  BY <1>4, TickKeeps
<1>5. CASE SignOut
  BY <1>5, SignOutKeeps
<1>6. CASE Clear
  BY <1>6, ClearKeeps
<1>7. CASE SlowTick
  BY <1>7, SlowTickKeeps
<1>8. CASE WriteFile
  BY <1>8, WriteFileKeeps
<1>9. CASE PassEnds
  BY <1>9, PassEndsKeeps
<1>10. CASE CloseBegins \/ \E c \in Cache : WorkerBegins(c)
  BY <1>10, BeginsKeep
<1>11. CASE Remove
  BY <1>11, RemoveKeeps
<1>12. CASE Drain
  BY <1>12, PopKeeps, LandKeeps, WriteFailsKeeps, DrainEndsKeeps DEF Drain
<1>13. CASE Wipe
  BY <1>13, WipeBeginsKeeps, WipeFileKeeps, WipeEndsKeeps DEF Wipe
<1>14. CASE UNCHANGED vars
  <2>1. /\ UNCHANGED <<cache, phase, closing, store, dirty, slow, timer, slowTimer, written, dots, tracked, pass>>
        /\ UNCHANGED <<queue, draining, drains, failed, gen, clearGen, wipes, shadowed, holder, serving, hand>>
        /\ UNCHANGED <<disk, from, lost>>
    BY <1>14 DEF vars, ui, marks, books, queues, gens, lock, files
  <2>2. /\ TypeOK /\ Phases /\ Mutex /\ Drains /\ Generations /\ Untracked /\ Filled /\ Believes
        /\ Synced /\ WipedStaysWiped /\ SignedOutIsGone /\ KeptAtClose
    BY DEF IInv
  <2>3. TypeOK'
    BY <2>1, <2>2 DEF TypeOK
  <2>4. Phases'
    <3>1. Own' = Own /\ Phases
      BY <2>1, <2>2, OwnSame
    <3>2. UNCHANGED <<cache, phase, closing, dirty, slow, dots, pass>>
      BY <2>1
    <3> QED  BY <3>1, <3>2 DEF Phases
  <2>5. Mutex' /\ Drains' /\ Generations' /\ Believes' /\ WipedStaysWiped' /\ SignedOutIsGone' /\ KeptAtClose'
    BY <2>1, <2>2, MutexSame, DrainsSame, GenerationsSame, BelievesSame, WipedSame, SignedOutSame, KeptSame
  <2>6. Untracked' /\ Filled'
    BY <2>1, <2>2 DEF Untracked, Filled, Due
  <2>7. Synced'
    <3>1. Own' = Own /\ \A f \in File : Now(f)' = Now(f) /\ Failing(f)' = Failing(f) /\ (Due(f)' <=> Due(f))
      BY <2>1, OwnSame, LatestSame DEF Failing, Due
    <3> QED  BY <2>1, <2>2, <3>1 DEF Synced
  <2> QED  BY <2>3, <2>4, <2>5, <2>6, <2>7 DEF IInv
<1> QED
  BY <1>1, <1>2, <1>3, <1>4, <1>5, <1>6, <1>7, <1>8, <1>9, <1>10, <1>11, <1>12, <1>13, <1>14
  DEF Next, UIWrites

\* Every state the cache, its workers and the clears can reach satisfies the invariant.
THEOREM Invariant == Spec => []IInv
<1>1. Init => IInv
  BY InvariantInit
<1>2. IInv /\ [Next]_vars => IInv'
  BY InvariantStep
<1> QED  BY <1>1, <1>2, PTL DEF Spec

\* The variables keep their types, and no queue holds two entries of one file.
THEOREM TypeCorrect == Spec => []TypeOK
<1>1. IInv => TypeOK
  BY DEF IInv
<1> QED  BY <1>1, Invariant, PTL

\* Queued bytes always have a drain that will take them, asked or under way, and a
\* cache never has two asked.
THEOREM DrainPromisedHolds == Spec => []DrainPromised
<1>1. ASSUME IInv PROVE DrainPromised
  <2> SUFFICES ASSUME NEW c \in Cache
               PROVE  /\ drains[c] <= 1
                      /\ queue[c] # <<>> => drains[c] = 1 \/ (holder \in {"worker", "ui"} /\ serving = c)
    BY DEF DrainPromised
  <2>1. Drains
    BY <1>1 DEF IInv
  <2> QED  BY <2>1 DEF Drains
<1> QED  BY <1>1, Invariant, PTL

\* What write() skips as unchanged is on disk or on its way there, or its write has
\* failed and will be made again.
THEOREM BelievedHolds == Spec => []Believed
<1>1. ASSUME IInv PROVE Believed
  <2>a. TypeOK /\ Phases /\ Believes
    BY <1>1 DEF IInv
  <2> SUFFICES ASSUME Current, NEW f \in File
               PROVE  written[f] \in {Nothing, Newest(f)} \/ f \in failed[cache]
    BY DEF Believed
  <2>1. phase # "none" /\ Own /\ cache \in Cache
    <3>1. phase # "none" /\ gen[cache] = clearGen /\ ~shadowed
      BY DEF Current, Writable
    <3> QED  BY <2>a, <3>1, Numbers DEF Phases, Own
  <2>2. Newest(f) = Now(f)
    <3> DEFINE q == queue[cache]
               p == CHOOSE e \in Queued(cache) : e.file = f
    <3>1. q \in Seq(Entry) /\ OneEach(q)
      BY <2>a, <2>1 DEF TypeOK, OneEach
    <3>2. CASE f \in FilesIn(q)
      <4>1. \E e \in Queued(cache) : e.file = f
        BY <3>2 DEF Queued, FilesIn
      <4>2. p \in Queued(cache) /\ p.file = f
        BY <4>1
      <4>3. PICK i \in 1..Len(q) : p = q[i]
        BY <4>2 DEF Queued
      <4>4. Newest(f) = p.data
        BY <4>1 DEF Newest
      <4> HIDE DEF p, q
      <4>5. Latest(q, hand, disk, q[i].file) = q[i].data
        BY <3>1, LatestQueued
      <4>6. Now(f) = Latest(q, hand, disk, f)
        BY DEF Now, q
      <4> QED  BY <4>2, <4>3, <4>4, <4>5, <4>6
    <3>3. CASE f \notin FilesIn(q)
      <4>1. ~\E e \in Queued(cache) : e.file = f
        BY <3>3 DEF Queued, FilesIn
      <4>2. Newest(f) = IF hand.file = f THEN hand.data ELSE disk[f]
        BY <4>1 DEF Newest
      <4> QED  BY <3>3, <4>2, LatestElse DEF Now
    <3> QED  BY <3>2, <3>3
  <2> QED  BY <2>a, <2>1, <2>2 DEF Believes
<1> QED  BY <1>1, Invariant, PTL

\* "Clear cache" is final: its wipe over, every file on disk is of a cache opened after.
THEOREM WipedStaysWipedHolds == Spec => []WipedStaysWiped
<1>1. IInv => WipedStaysWiped
  BY DEF IInv
<1> QED  BY <1>1, Invariant, PTL

\* A sign-out is final: no file is left, and none comes back.
THEOREM SignedOutIsGoneHolds == Spec => []SignedOutIsGone
<1>1. IInv => SignedOutIsGone
  BY DEF IInv
<1> QED  BY <1>1, Invariant, PTL

\* Quitting keeps: the Store is on disk, but for a clear and a write the disk refused.
THEOREM KeptAtCloseHolds == Spec => []KeptAtClose
<1>1. IInv => KeptAtClose
  BY DEF IInv
<1> QED  BY <1>1, Invariant, PTL

\* One of the workers, a wipe and close() at most is in the directory at a time, and no
\* entry in hand is of a cache that has closed.
THEOREM OneAtTheDisk == Spec => []Mutex
<1>1. IInv => Mutex
  BY DEF IInv
<1> QED  BY <1>1, Invariant, PTL
=============================================================================
