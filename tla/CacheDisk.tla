------------------------------ MODULE CacheDisk ------------------------------
(***************************************************************************)
(* cache::WorkspaceCache (src/src/app/cache/workspace_cache.{h,cpp}): one    *)
(* workspace's Store on disk. The cache observes the Store and marks the     *)
(* files that moved; a timer has the UI thread queue their bytes; a worker   *)
(* drains the queue. A clear deletes every file from a worker, a sign-out    *)
(* from the UI thread.                                                       *)
(*                                                                           *)
(* The caches of one directory follow each other (accounts.cpp closes one    *)
(* before it opens the next), but a worker may still be asked to drain an    *)
(* old one. A file's bytes are one value. Other workspaces meet this one at  *)
(* diskMutex alone, which only makes a worker wait longer.                   *)
(***************************************************************************)
EXTENDS Naturals, Sequences, FiniteSets

CONSTANTS
  File,       \* the files in use, of those in Order
  Data,       \* what a file may hold
  Nothing,    \* no such file, no such record
  MaxCaches,  \* bound: caches opened on the directory
  MaxClears,  \* bound: clicks on "Clear cache"
  MaxEdits,   \* bound: changes of the Store
  MaxFailures \* bound: writes the disk refuses

\* The files in the order writePending() makes them; "meta" stands for
\* meta.json, usergroups.json and emoji.json, which are marked at once alike,
\* "messages" for the one conversation that is opened.
Order == <<"roster", "users", "meta", "messages">>
Cache == 1..MaxCaches

ASSUME DiskAssumption ==
  /\ "roster" \in File /\ File \subseteq {Order[i] : i \in 1..Len(Order)}
  /\ Data # {} /\ Nothing \notin Data /\ Nothing \notin File
  /\ MaxCaches \in Nat \ {0} /\ MaxClears \in Nat /\ MaxEdits \in Nat /\ MaxFailures \in Nat

VARIABLES
  \* The UI thread.
  cache,     \* the newest cache, 0 before the first
  phase,     \* where the UI thread is in it
  closing,   \* why it closes
  store,     \* what each file should hold
  dirty, slow, timer, slowTimer, \* _dirty with _msgDirty, _slow, _timer, _slowTimer
  written,   \* _written, the bytes for their hash
  dots,      \* presence moved since users.json was made
  tracked,   \* the conversation is open: _checked and _tracked
  pass,      \* the files writePending has still to make
  \* Shared with the workers.
  queue, failed, draining, \* Disk's, per cache
  gen,       \* _clearGen, per cache
  clearGen,  \* g_clearGen
  drains,    \* drains in the pool, per cache
  wipes,     \* removeTree()s in the pool or under way
  holder,    \* who holds diskMutex
  serving,   \* the cache it drains
  hand,      \* the entry it writes
  disk,
  edits, failures,
  \* History.
  from,      \* the generation of the cache that wrote the file
  shadowed,  \* the cache was opened with a wipe to come
  lost       \* files whose last write failed

marks  == <<dirty, slow, timer, slowTimer>>
books  == <<written, dots, tracked>>
queues == <<queue, draining, drains>>
lock   == <<holder, serving, hand>>
files  == <<disk, from, lost>>
gens   == <<gen, clearGen, wipes, shadowed>>
ui     == <<cache, phase, closing>>
vars   == <<ui, store, marks, books, pass, queues, failed, gens, lock, files, edits, failures>>

NoEntry == [file |-> Nothing, data |-> Nothing]
Entry == [file : File, data : Data]
Blank == [f \in File |-> Nothing]
Phase == {"none", "open", "writing", "draining", "removing"}

Writable == phase # "none" /\ gen[cache] = clearGen

Init ==
  /\ cache = 0 /\ phase = "none" /\ closing = "no"
  /\ store = Blank
  /\ dirty = {} /\ slow = {} /\ timer = FALSE /\ slowTimer = FALSE
  /\ written = Blank /\ dots = FALSE /\ tracked = FALSE /\ pass = {}
  /\ queue = [c \in Cache |-> <<>>] /\ failed = [c \in Cache |-> {}]
  /\ draining = [c \in Cache |-> FALSE] /\ drains = [c \in Cache |-> 0]
  /\ gen = [c \in Cache |-> 0] /\ clearGen = 0 /\ wipes = 0 /\ shadowed = FALSE
  /\ holder = "none" /\ serving = 0 /\ hand = NoEntry
  /\ \E d \in {Nothing, CHOOSE v \in Data : TRUE} : disk = [f \in File |-> d] \* an earlier run's
  /\ from = [f \in File |-> 0] /\ lost = {}
  /\ edits = 0 /\ failures = 0

-----------------------------------------------------------------------------
(* Opening: the constructor and load(), which reads the files without the    *)
(* mutex. No roster, no warm start.                                          *)

Open ==
  /\ phase = "none" /\ cache < MaxCaches
  /\ cache' = cache + 1 /\ phase' = "open" /\ closing' = "no"
  /\ gen' = [gen EXCEPT ![cache + 1] = clearGen]
  /\ store' = IF disk["roster"] = Nothing THEN Blank
              ELSE [f \in File |-> IF f = "messages" THEN Nothing ELSE disk[f]]
  /\ written' = store'
  /\ dots' = FALSE /\ tracked' = FALSE
  /\ shadowed' = (wipes > 0)
  /\ UNCHANGED <<marks, pass, queues, failed, clearGen, wipes, lock, files, edits, failures>>

-----------------------------------------------------------------------------
(* Changes of the Store, and how onChange() marks them. *)

\* schedule() and slow(): no timer for a cache that may not write.
Mark(fs) ==
  /\ dirty' = dirty \union fs
  /\ timer' = (timer \/ Writable)
  /\ UNCHANGED <<slow, slowTimer>>
MarkSlow(fs) ==
  /\ slow' = slow \union fs
  /\ slowTimer' = (slowTimer \/ Writable)
  /\ UNCHANGED <<dirty, timer>>

\* A Users event after a profile change: the first users.json at once.
MarkUsers == IF written["users"] # Nothing THEN MarkSlow({"users"}) ELSE Mark({"users"})

Change(f, v) ==
  /\ phase = "open" /\ edits < MaxEdits /\ f \in File /\ v # store[f]
  /\ store' = [store EXCEPT ![f] = v]
  /\ edits' = edits + 1
  /\ UNCHANGED <<ui, written, tracked, pass, queues, failed, gens, lock, files, failures>>

RecordMoves(v) == Change("roster", v) /\ Mark({"roster"}) /\ UNCHANGED dots
\* noteRecord: a record about to be written anyway takes its cursors along.
CursorsMove(v) ==
  /\ Change("roster", v) /\ store["roster"] # Nothing
  /\ IF "roster" \in dirty THEN UNCHANGED marks ELSE MarkSlow({"roster"})
  /\ UNCHANGED dots
MetaMoves(v) == Change("meta", v) /\ Mark({"meta"}) /\ UNCHANGED dots
ProfileMoves(v) == Change("users", v) /\ MarkUsers /\ UNCHANGED dots
\* A presence flip is a Users event too, and finds the profile change waiting.
PresenceFlips(v) ==
  /\ Change("users", v) /\ store["users"] # Nothing
  /\ IF "users" \in dirty \union slow THEN MarkUsers ELSE UNCHANGED marks
  /\ dots' = TRUE
\* Only the lists of opened conversations are kept.
MessageComes(v) == Change("messages", v) /\ tracked /\ Mark({"messages"}) /\ UNCHANGED dots

\* loadMessages(): the page it adds to the Store marks the list as any change.
OpenConversation ==
  /\ phase = "open" /\ "messages" \in File /\ ~tracked
  /\ tracked' = TRUE
  /\ written' = [written EXCEPT !["messages"] = disk["messages"]]
  /\ store' = [store EXCEPT !["messages"] = disk["messages"]]
  /\ IF disk["messages"] # Nothing THEN Mark({"messages"}) ELSE UNCHANGED marks
  /\ UNCHANGED <<ui, dots, pass, queues, failed, gens, lock, files, edits, failures>>

-----------------------------------------------------------------------------
(* writePending(). *)

\* A write that failed is forgotten, so the next bytes are written, same or not.
Forgotten_Never(f) == FALSE
Forgotten(f) == f \in failed[cache]
\* The slow timer is cancelled once nothing waits for it.
SlowTimerStays_Never(armed, s) == FALSE
SlowTimerStays(armed, s) == armed /\ s # {}

\* Its start: the flags go even when nothing may be written any more.
Pending(d, s, st) ==
  /\ phase' = "writing"
  /\ dirty' = {} /\ timer' = FALSE
  /\ IF Writable
     THEN /\ pass' = d
          /\ written' = [f \in File |-> IF Forgotten(f) THEN Nothing ELSE written[f]]
          /\ failed' = [failed EXCEPT ![cache] = {}]
          /\ slow' = s \ d
          /\ slowTimer' = SlowTimerStays(st, slow')
     ELSE /\ pass' = {}
          /\ slow' = s /\ slowTimer' = st
          /\ UNCHANGED <<written, failed>>

\* The timers of mark() and slow().
Tick ==
  /\ phase = "open" /\ timer
  /\ Pending(dirty, slow, slowTimer)
  /\ UNCHANGED <<cache, closing, store, dots, tracked, queues, gens, lock, files, edits, failures>>
SlowTick ==
  /\ phase = "open" /\ slowTimer
  /\ slow' = {} /\ slowTimer' = FALSE
  /\ dirty' = dirty \union slow /\ timer' = (timer \/ Writable)
  /\ UNCHANGED <<ui, store, books, pass, queues, failed, gens, lock, files, edits, failures>>

\* The newer bytes instead of those still waiting, else behind them.
Put_Appends(q, e) == Append(q, e)
Put(q, e) ==
  IF \E i \in 1..Len(q) : q[i].file = e.file
  THEN [i \in 1..Len(q) |-> IF q[i].file = e.file THEN e ELSE q[i]]
  ELSE Append(q, e)

\* In the order of the code.
ComesNext(f) == \A i, j \in 1..Len(Order) : Order[i] = f /\ Order[j] \in pass => i <= j

\* write(): queued unless it is what the file holds; a worker asked unless one is.
Unchanged(f) == written[f] = store[f]
AskForDrain_Always == TRUE
AskForDrain == ~draining[cache]
WriteFile ==
  /\ phase = "writing"
  /\ \E f \in pass :
     /\ ComesNext(f)
     /\ pass' = pass \ {f}
     /\ dots' = (dots /\ f # "users")
     /\ IF Unchanged(f)
        THEN UNCHANGED <<written, queues>>
        ELSE /\ written' = [written EXCEPT ![f] = store[f]]
             /\ queue' = [queue EXCEPT ![cache] = Put(@, [file |-> f, data |-> store[f]])]
             /\ draining' = [draining EXCEPT ![cache] = TRUE]
             /\ drains' = IF AskForDrain THEN [drains EXCEPT ![cache] = @ + 1] ELSE drains
  /\ UNCHANGED <<ui, store, marks, tracked, failed, gens, lock, files, edits, failures>>

PassEnds ==
  /\ phase = "writing" /\ pass = {}
  /\ IF closing = "no"
     THEN phase' = "open" /\ UNCHANGED marks
     ELSE /\ phase' = "draining"
          /\ dirty' = {} /\ slow' = {} /\ timer' = FALSE /\ slowTimer' = FALSE
  /\ UNCHANGED <<cache, closing, store, books, pass, queues, failed, gens, lock, files, edits, failures>>

-----------------------------------------------------------------------------
(* close(), and the sign-out's remove() after it. *)

\* Quitting: flush() first, the presence dots and what is slow with it.
DueAtClose_NoDots == dirty \union slow
DueAtClose == dirty \union slow \union (IF dots THEN {"users"} ELSE {})
CloseKeeping ==
  /\ phase = "open"
  /\ closing' = "keep"
  /\ Pending(DueAtClose, {}, FALSE)
  /\ UNCHANGED <<cache, store, dots, tracked, queues, gens, lock, files, edits, failures>>

\* Signing out: what is pending goes.
Leave(next) ==
  /\ phase = "open"
  /\ phase' = next /\ closing' = "sign out"
  /\ dirty' = {} /\ slow' = {} /\ timer' = FALSE /\ slowTimer' = FALSE
  /\ UNCHANGED <<cache, store, books, pass, queues, failed, gens, lock, files, edits, failures>>

SignOut_Undrained == Leave("removing")
SignOut == Leave("draining")

\* remove(), once the mutex is free; the cache and its Store go.
Remove ==
  /\ phase = "removing" /\ holder = "none"
  /\ phase' = "none"
  /\ disk' = Blank /\ from' = [f \in File |-> 0] /\ lost' = {}
  /\ store' = Blank /\ written' = Blank /\ dots' = FALSE /\ tracked' = FALSE
  /\ UNCHANGED <<cache, closing, marks, pass, queues, failed, gens, lock, edits, failures>>

-----------------------------------------------------------------------------
(* Disk::drain(), on a worker or in close(). *)

Begin(who, c) ==
  /\ holder = "none"
  /\ holder' = who /\ serving' = c
  /\ UNCHANGED <<ui, store, marks, books, pass, queue, draining, failed, gens, hand, files, edits,
                 failures>>
WorkerBegins(c) ==
  /\ drains[c] > 0
  /\ drains' = [drains EXCEPT ![c] = @ - 1]
  /\ Begin("worker", c)
CloseBegins == phase = "draining" /\ Begin("ui", cache) /\ UNCHANGED drains

\* The oldest entry; a cache from before the last clear writes none of them.
Stale_Never(c) == FALSE
Stale(c) == gen[c] # clearGen
Pop ==
  /\ holder \in {"worker", "ui"} /\ hand = NoEntry /\ queue[serving] # <<>>
  /\ queue' = [queue EXCEPT ![serving] = Tail(@)]
  /\ hand' = IF Stale(serving) THEN NoEntry ELSE Head(queue[serving])
  /\ UNCHANGED <<ui, store, marks, books, pass, draining, drains, failed, gens, holder, serving,
                 files, edits, failures>>

\* writeAtomic(): the new bytes, or the old ones still.
Land ==
  /\ hand # NoEntry
  /\ disk' = [disk EXCEPT ![hand.file] = hand.data]
  /\ from' = [from EXCEPT ![hand.file] = gen[serving]]
  /\ lost' = lost \ {hand.file}
  /\ hand' = NoEntry
  /\ UNCHANGED <<ui, store, marks, books, pass, queues, failed, gens, holder, serving, edits, failures>>
WriteFails ==
  /\ hand # NoEntry /\ failures < MaxFailures
  /\ failures' = failures + 1
  /\ failed' = [failed EXCEPT ![serving] = @ \union {hand.file}]
  /\ lost' = lost \union {hand.file}
  /\ hand' = NoEntry
  /\ UNCHANGED <<ui, store, marks, books, pass, queues, gens, holder, serving, disk, from, edits>>

DrainEnds ==
  /\ holder \in {"worker", "ui"} /\ hand = NoEntry /\ queue[serving] = <<>>
  /\ draining' = [draining EXCEPT ![serving] = FALSE]
  /\ holder' = "none" /\ serving' = 0
  /\ phase' = IF holder = "worker" THEN phase
              ELSE IF closing = "keep" THEN "none" ELSE "removing"
  /\ UNCHANGED <<cache, closing, store, marks, books, pass, queue, drains, failed, gens, hand, files,
                 edits, failures>>

-----------------------------------------------------------------------------
(* clearAllAsync(): open caches stop at once, the files go on a worker. *)

Clear ==
  /\ phase \in {"none", "open"} /\ clearGen < MaxClears
  /\ clearGen' = clearGen + 1 /\ wipes' = wipes + 1
  /\ UNCHANGED <<ui, store, marks, books, pass, queues, failed, gen, shadowed, lock, files, edits,
                 failures>>
WipeBegins ==
  /\ wipes > 0 /\ holder = "none"
  /\ holder' = "wipe"
  /\ UNCHANGED <<ui, store, marks, books, pass, queues, failed, gens, serving, hand, files, edits,
                 failures>>
WipeFile(f) ==
  /\ holder = "wipe" /\ disk[f] # Nothing
  /\ disk' = [disk EXCEPT ![f] = Nothing]
  /\ from' = [from EXCEPT ![f] = 0]
  /\ UNCHANGED <<ui, store, marks, books, pass, queues, failed, gens, lock, lost, edits, failures>>
WipeEnds ==
  /\ holder = "wipe" /\ disk = Blank
  /\ wipes' = wipes - 1
  /\ holder' = "none"
  /\ UNCHANGED <<ui, store, marks, books, pass, queues, failed, gen, clearGen, shadowed, serving,
                 hand, files, edits, failures>>

-----------------------------------------------------------------------------
Changes ==
  \E v \in Data :
    \/ RecordMoves(v) \/ CursorsMove(v) \/ MetaMoves(v) \/ ProfileMoves(v)
    \/ PresenceFlips(v) \/ MessageComes(v)
UIWrites == Tick \/ SlowTick \/ WriteFile \/ PassEnds \/ CloseBegins \/ Remove
Drain == Pop \/ Land \/ WriteFails \/ DrainEnds
Wipe == WipeBegins \/ (\E f \in File : WipeFile(f)) \/ WipeEnds

Next ==
  \/ Open \/ Changes \/ OpenConversation \/ CloseKeeping \/ SignOut \/ Clear
  \/ UIWrites \/ (\E c \in Cache : WorkerBegins(c)) \/ Drain \/ Wipe

Spec == Init /\ [][Next]_vars

\* Timers fire, the UI thread goes on, pool tasks run and writes end.
Fairness ==
  /\ WF_vars(Tick) /\ WF_vars(SlowTick) /\ WF_vars(WriteFile \/ PassEnds \/ Remove)
  /\ WF_vars(CloseBegins) /\ WF_vars(Drain) /\ WF_vars(Wipe)
  /\ \A c \in Cache : WF_vars(WorkerBegins(c))
FairSpec == Spec /\ Fairness

-----------------------------------------------------------------------------
(* Properties. *)

TypeOK ==
  /\ cache \in 0..MaxCaches /\ phase \in Phase /\ closing \in {"no", "keep", "sign out"}
  /\ store \in [File -> Data \union {Nothing}]
  /\ dirty \subseteq File /\ slow \subseteq File /\ timer \in BOOLEAN /\ slowTimer \in BOOLEAN
  /\ dots \in BOOLEAN /\ tracked \in BOOLEAN
  /\ written \in [File -> Data \union {Nothing}]
  /\ pass \subseteq File
  /\ queue \in [Cache -> Seq(Entry)]
  /\ \A c \in Cache : \A i, j \in 1..Len(queue[c]) : queue[c][i].file = queue[c][j].file => i = j
  /\ failed \in [Cache -> SUBSET File]
  /\ draining \in [Cache -> BOOLEAN] /\ drains \in [Cache -> Nat]
  /\ gen \in [Cache -> 0..MaxClears] /\ clearGen \in 0..MaxClears /\ wipes \in 0..MaxClears
  /\ holder \in {"none", "worker", "ui", "wipe"} /\ serving \in 0..MaxCaches
  /\ hand \in Entry \union {NoEntry}
  /\ disk \in [File -> Data \union {Nothing}] /\ from \in [File -> 0..MaxClears]
  /\ shadowed \in BOOLEAN /\ lost \subseteq File

Queued(c) == {queue[c][i] : i \in 1..Len(queue[c])}
\* What the file will hold once the cache's queue is out.
Newest(f) ==
  IF \E e \in Queued(cache) : e.file = f THEN (CHOOSE e \in Queued(cache) : e.file = f).data
  ELSE IF hand.file = f THEN hand.data ELSE disk[f]
Current == Writable /\ ~shadowed

\* What write() skips as unchanged really is on disk or on its way there, or its
\* write has failed and writePending will forget it: two writes of one file never
\* cross, and no older cache writes over this one.
Believed ==
  Current => \A f \in File : written[f] \in {Nothing, Newest(f)} \/ f \in failed[cache]

\* "Clear cache": once its wipe is over, every file there was written by a cache
\* opened after the click; a write under way never brings an old one back.
WipedStaysWiped ==
  wipes = 0 => \A f \in File : disk[f] # Nothing => from[f] = clearGen

\* Queued bytes always have someone to write them, and a cache never has two
\* workers asked.
DrainPromised ==
  \A c \in Cache :
    LET atWork == holder \in {"worker", "ui"} /\ serving = c
    IN /\ drains[c] <= 1
       /\ queue[c] # <<>> => drains[c] = 1 \/ atWork

\* A sign-out leaves no file, and no later write of the closed cache brings one back.
SignedOutIsGone == phase = "none" /\ closing = "sign out" => disk = Blank

\* Quitting leaves on disk all the Store held: what was due, slow, queued, and the
\* presence dots; only a clear or a failed write takes that away.
Kept == {f \in File : store[f] # Nothing /\ (f = "messages" => tracked) /\ f \notin lost}
KeptAtClose ==
  phase = "none" /\ closing = "keep" /\ gen[cache] = clearGen /\ ~shadowed
    => \A f \in Kept : disk[f] = store[f]

\* Every change gets written while the cache stays open: no mark, timer or drain is
\* lost, whatever met it. (Presence waits for the next profile change or the close.)
Saved ==
  []<>(Current => \A f \in Kept : disk[f] = store[f] \/ (f = "users" /\ dots))
=============================================================================
