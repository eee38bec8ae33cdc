# A verification of msga's core

msga is a native Slack and Claude Code client in C++. This directory holds TLA+
modules that model its core, TLC configurations that check them on small
instances, and proofs, checked by TLAPS, of their invariants for every value of
the constants. `PROJECT.json` lists the components, the runs, the mutants, the
lines each definition models, the hazards and the findings.

Paths below are relative to the repository (`src/app/...`).

## The system and its components

Everything the user sees runs on one UI thread: plat's event loop runs posted
closures in order, and timers. Nothing heavy is allowed there, so beside it run
the worker threads of `base::WorkerPool` (one pool per `net::Client`, one for
background jobs), one reader thread per WebSocket, and the outside world: Slack,
the network, other devices on the same keys, suspends. A worker or a reader
never touches the UI's state; it posts a closure. The hard behaviours are at
those seams.

| Component | State | Operations | Talks to |
|---|---|---|---|
| `app/slack/socket_mode` (shared socket) | `_ws`, `_pending`, connect flag, open call, backoff, timer, contention | start, stop, onOpen/onClosed/onText, liveness, network change, poll's kicks | WebSocket callbacks, `net::Client`, timers, the backends (sinks) |
| `net/websocket` | epoch, open, reader thread | open, send, close, destroy | posts to the UI loop |
| `app/slack/slack_backend_core`, refresh in `slack_realtime` | credentials, calls in flight, refresh and its waiters | api, refresh, loseAuth, destroy | `net::Client`, accounts (save, sign-out) |
| `net/client` | requests pending, queue, cancel flags | send, cancel, worker loop, deliver, destroy | WorkerPool, UI loop |
| `base/thread` (WorkerPool) | queue, workers, parked count | post, loop, stop | threads, a condition variable |
| `app/model/jobs` | running count, job list | runInBackground, stop, wait | WorkerPool, UI loop |
| `app/slack/slack_backend` reads | the interactive and the paced lane, 429 holds per method, pages | call, pump, page, poll | tracked calls, the store |
| delivery (`slack_realtime`, `slack_backend`, `model/store`) | a conversation's messages, poll baselines, unread state | onMessage, inject, poll, cached head, older pages | socket, polls, the cache, the store |
| `app/slack/slack_actions` | sends in flight, confirmations | send, upload, undo, delete, edit, react, mark | tracked calls, the store |
| `app/slack/rtm_presence` | second WebSocket | connect, subscribe | WebSocket |
| `app/model/store`, `base/observers` | conversations, messages, callbacks | merge, notify | every screen |
| `app/cache` | dirty bits, write queue, generation | mark, write, drain, close, wipe | workers, files |
| `app/auth`, `screens/shell/accounts` | workspace records, running backends | start, save, sign out, retry | backends, keychain |
| `app/claude`, `app/llm`, `app/update` | transcripts, links, runs; streams; a download | many | processes, files, HTTP |
| `ui`, `text`, `gfx`, `plat`, `mrkdwn`, `spell`, `media`, `i18n` | views, glyphs, pixels, OS windows | — | sequential or OS-bound |

What makes each correct, in one line:

- shared socket: exactly one connection of ours is read; it comes back whatever
  happens; nothing missed in a gap is forgotten.
- tracked call: answered once, sent twice at most; the single-use refresh token
  is never lost by our own doing; signed out only when the keys are dead.
- HTTP client: every request ends; its caller hears nothing after the end.
- worker pool: every task runs once, in order, under the cap; `stop()` returns
  and leaves nothing.
- cache: what it believes written is; every change is written in the end; what was
  wiped or signed out stays gone.
- reads: no starved lane, every caller hears, through 429s, retries and listings.
- one conversation's messages: only what was deleted disappears, and an open chat
  ends up as Slack has it.
- outbox: no send lost, doubled or left pending; what was taken back goes.

## Modules

| Module | Models |
|---|---|
| `SocketMode` | `slack::SocketMode` with its WebSockets' reader threads, the UI loop and Slack |
| `SocketModeProofs` | its invariant and the theorems |
| `TokenRefresh` | `SlackBackend::issueApi`, `loseAuth`, `Live::refresh`, with Slack, quits and another device |
| `TokenRefreshProofs` | its invariant and the theorems |
| `TaskQueue` | what `base/thread.h` promises of a WorkerPool (abstract) |
| `WorkerPool` | `base/thread.cpp` in critical sections; implements `TaskQueue` |
| `WorkerPoolProofs` | its invariant, the theorems, the refinement |
| `NetClient` | `net::Client`, composed with `TaskQueue` as its pool |
| `NetClientProofs` | its invariant, the theorems, and that it uses its pool as `TaskQueue` allows |
| `CacheDisk` | `cache::WorkspaceCache`: marks, timers, the write queue, its drains, close, sign-out and clear |
| `CacheDiskProofs` | its invariant and the theorems |
| `ReadLanes` | `SlackBackend::Read::call`, `pumpPaced`, `issue`, `pageFrom` |
| `ReadLanesProofs` | its invariant and the theorems |
| `Timeline` | one conversation's messages: `onMessage`, `inject`, `pollConversation`, `refreshCachedHead`, `loadHistory`, `setActiveConversation`, on the Store's list |
| `TimelineProofs` | its invariant and the theorems |
| `Outbox` | `SlackBackend::Write`: sends of text and files, the scans, undo, `chat.delete` |
| `OutboxProofs` | its invariants, the theorems, two more promises (`DoneIsTrue`, `ScreenAgrees`) |
| `MC*` | instances for TLC |

An operator named `X_Fault`, defined just before `X`, is `X` with a bug seeded in
it; nothing uses it, and the mutants of `PROJECT.json` put it in `X`'s place to
show that a property notices.

### SocketMode

A handler of the UI thread is one action: nothing else of the object runs
meanwhile. `loop` is the UI loop's queue as far as the sockets post to it:
`Opened`, `Text` and `Closed` closures in the order the reader threads posted
them, across sockets. `conn[s]` is a transport as its reader sees it; a socket is
`retired` once `retireSocket` unhooked its callbacks and `free` again when the
turn that destroys it (posted behind what its reader had posted) has run.
`requests` are `apps.connections.open` calls that will still be answered; `openReq`
is the id the object remembers. `served` is Slack's count of our connections,
which may lag behind; Slack routes an event to one connection it counts and never
replays it. `missed` is a history variable: an event was missed since the last
hello that made the sinks backfill.

Times are what the handlers compare them with: `durable` (60 s up), `grace` (5 s
after a promotion), closes inside the contention window, `noticed` (5 min); the
action `Elapse` moves them. `_connectedSince` and `durable` agree wherever
`durable` is read.

Not modelled: the list of sinks and its changes during a notification, pings
(they change no state), the destructor beyond `stop()`.

### TokenRefresh

`call[c]` is one tracked call at a time per caller: its state, the token it was
sent with (`sentWith`) and its `refreshed` flag. A pair of access and refresh
token issued together is one number. `oauth` is the one `oauth.v2.access` call and
Slack's answer under way. Slack may rotate the refresh token (single use) or not,
and may leave it out of the answer when it does not (`EmptyToken`). `Quit` ends
the process anywhere and `Launch` reads the saved record back; the record stays
after a sign-out, so a signed-out workspace is tried again at the next launch.
`stranded` is a history variable: a renewed pair was lost on the way, or went to
another device, which no client can repair. `revoked` says that Slack withdrew the
keys (account closed, app removed): it then answers a call either with a code a refresh
is tried for (`rejected`: `invalid_auth`, `token_expired`) or with one that signs out at
once (`disowned`: `token_revoked`, `account_inactive`, `not_authed`), and renews nothing.

`finishRefresh` runs all its waiters in one action. Waiters that destroy the
backend are left out. `_store.save` is taken as whole, so a crash inside the save is not
covered; one before Slack's answer arrives is the exemption `stranded`.

### TaskQueue and WorkerPool

One action of `WorkerPool` is one critical section of `_mutex`, or what happens
between two: `Post` (the whole locked block of `post`, the thread's creation
included) and `Notify` (its `notify_one`, after the unlock) are separate, so are
`StopSwaps`, `StopNotifies`, each `Join`, `StopReturns`. A worker is `ready` (at
the loop's top, waiting for the mutex), `asleep` in `wait_until`, `woken` (out of
it, waiting for the mutex again), `running`, `ended` (returned because of
`stop()`). `WakesByItself` is a spurious return or the deadline, and a woken worker
may find the deadline passed at any recheck; `setIdleMs` can do no more. A thread
may fail to start `MaxFailures` times. Tasks differ in name only, so the name of the
next one posted is fixed (`Fresh`).

`TaskQueue` hides the threads. `WorkerPool!Implements` is `TaskQueue!Spec` under
the mapping running ← tasks held by workers, MaxRunning ← MaxWorkers.

### NetClient

Requests and pool tasks share names: `send(r)` posts the pool task `r`, but the
task runs the *oldest* queued request. `at[k]` is where the worker of pool task
`k` is: `start` (about to lock in `runNext`), `hop`, `wire` (in `perform`), `got`,
`post` (in `deliver`, past the check of `stopping`). The pool is an instance of
`TaskQueue`, so what `WorkerPool` proves is what `NetClient` relies on. `log[r]` is
what the caller was told or did, in order. `send` and `cancel` are single steps:
between their two locks only the queue and the flag matter to a worker, and a
worker that takes a request before its task is posted leaves the same state as
one that takes it after.

Not modelled (`NetClient`): headers, cookies, the method rewrite of a redirect, URL resolution,
the idle-connection cache.

### CacheDisk

The files of one workspace's directory, the cache that is open on it, and the drains
of earlier ones still asked of the pool. The UI thread is `none` (no cache open),
`open`, `writing` (in `writePending`, one `WriteFile` per `write()` call, so that a
worker may run between two), `draining` (`close()` waits for `diskMutex` or drains)
or `removing` (the sign-out's `remove()`). `Pop` takes an entry and compares the
generations, `Land` or `WriteFails` is `writeAtomic`: between them a click on "Clear
cache" moves the generation, and `removeTree` waits for the mutex. A file's bytes
are one of two values; `meta` stands for meta.json, usergroups.json and emoji.json,
`messages` for one conversation. `pass` is the set of files a `writePending` has still to look at,
which it does in `Order` (`ComesNext`). Changes say how `onChange` marks them: at once
(a record, a mark, a message of an opened conversation, the first profile), slowly
(cursors, later profiles) or at the close only (presence).

History: `from` (the generation that wrote a file), `shadowed` (the cache was opened
between a clear's click and the end of its wipe) and `lost` (the last write of a file
failed; the code tries again "with the next bytes" only). A shadowed cache is exempt
from `Believed`, `KeptAtClose` and `Saved`: it reads files that are about to go and
takes them for written, so the next start may find some of them missing. That is
listed as a hazard.

Not modelled: a crash (each file is replaced atomically, and no file's meaning
depends on another's version), the one-off usergroups migration, the synchronous
`clearAll` (called by tests alone), changes of a list before its conversation is
opened (they are not kept).

### ReadLanes

Each of `Calls` is made at most once; `at[c]` says where it is: `queued` in the paced
lane, `joined` to an equal one queued, `out` at Slack, `waiting` (a backoff, or its
method on hold), `between` two pages, `done`. The handlers are written as functions of
the lanes' state (`Lanes`), because an answer runs several of them in one turn of the
loop: the caller's `done` may make a call (`Made`) before the paced lane is let go
(`Release`), a listing asks for its next page from inside the answer of the last.
`cooling` is `readyAt`; a 429 that comes while the method is already on hold prolongs
it, which the order of the timers covers. How often a listing goes on is Slack's
choice, without a bound: `EveryCallerHears` must hold with a listing that never ends.

Calls of one `Key` are equal. A caller that finds an equal call queued joins it, and who
joined a listing hears its pages as well: those that are listings themselves ask for the
next page from inside the same answer, the first of them (`lead`) behind the listing's
own, the others joined to it. `met` says which listings stand at the same cursor, which
Slack's answers decide.

Two interactive listings that never end would leave no moment without an interactive
call, and the paced lane would wait for both; the code accepts that (listings are
finite) and the instance has one such listing. It has no two equal listings, which triple
its states: an instance with two, of five and of six calls (3.4 million states), was run by
hand over `LaneMoves` and the invariant, which is proved for any.

Not modelled: what the reads do with their answers, the page limit of a listing, the
end of the backend inside an answer (`alive`), the banner of a 429.

### Timeline

One conversation, top level. `held` maps the ts of each message of the Store's list to
whether it shows the edited text; the list's order is that of the ts. A request in
`asks` is issued with what the code captures at that moment (`known` = lastKnown,
`upTo` = the newest message held, or `cachedNewest`, or the page's `before`), read by
Slack at one moment (`SlackReads`), applied at another (`Apply*`), so that pushes and
other pages fall between each two of these. A push may be lost (the socket is down),
doubled (an envelope acknowledged too late) or overtaken by later ones (two sockets
overlap). `Open` covers `setActiveConversation` with the cached run's `loadMessages`;
`LoadOlder` is the list's edge check. `Outrun` is `completedPoll`: the answer of a poll
issued before one already applied is dropped when it comes, so the model forgets what
it would say (`Ignored`).

`HeadAgrees` speaks of the newest page only, and of a conversation not emptied: the
poll returns early on an empty page (`slack_backend.cpp:2752`), so the last messages
of a conversation emptied elsewhere stay on screen. Older messages are judged by no
page: an older page read before a deletion and applied after its push brings the
message back for good.

Not modelled: threads, unread counts, my own pending copies (each of these steps skips
them), conversations not listed yet, huddles. A foreground poll's page is merged with
`addPage`, which does not look for a pending copy of the same text as `inject` does,
so my own message may show twice until its send is answered.

### Outbox

`phase[s]` is what the send waits for: `posting` (nothing at Slack yet), `posted` (its
answer on the way), `backoff`, `scanning` (`reconcile`), and for files `reading`,
`uploading`, `sharing`, `shared`, `looking` (`scanUpload`), `lookLater`; a `Send` is in
`sends` in these and only these. `posts` is Slack's history, kept with its deletions.
A lost answer (`Lose`) may be that of a post that took place or of one that did not.
`Skew` is how far the app's clock is ahead of Slack's: a pending copy's ts is the app's,
the anchors are compared with Slack's. `Anchor` is the newest ts the Store knows, or in a
fresh conversation the app's clock less `Margin` (60 s in the code). `Crowded` says whether
more than the `limit=100` a scan asks for may lie past its anchor: the page it reads is then
any part of that, and all of it otherwise. `lost` counts ambiguous answers and is bounded.

Assumed of Slack: a post given up on has taken place by the time its scan reads history or
never will. Assumed of the conversation in the runs and in two theorems (`PageReaches`):
`~Crowded`, the anchor is no more than 100 messages stale. The limit is the code's, and it
reads no second page; past it `NeverTwice` fails (see Findings).

Not modelled: edits, marks, reactions, saved items, drafts; the agents' answers beyond
`awaitShare` and the metadata marker; the 16 remembered confirmations, and that one
refusal of metadata is remembered for the later sends (the model lets every marked
send be refused). A send taken back while its post is lost and absent is posted again
and then deleted, as in the code.

## Runs

All runs use two workers of TLC and end well inside five minutes.

| Run | Bounds | Shows |
|---|---|---|
| `socket_mode` | 2 sockets, 2 open calls, backoff 1..2, threshold 1, loop ≤ 2 when Slack sends, 1 kick | `SingleFlight`, `NeverStalled`, `NoUnreadSocket`, `QuietAfterStop`, `BackfilledGaps`, `BackoffHolds` |
| `socket_mode_live` | smaller loop, no symmetry | `Recovers`, `GapsEndInBackfill` under fairness |
| `token_refresh` | 2 calls, 2 renewals, 1 quit | `AtMostTwoSends`, `NeverStranded`, `WaitersHaveARefresh`, `NothingOutWhileRefreshing`, `EveryCallAnswered` |
| `token_refresh_sign_out` | as above | **violation** of onAuthLost's promise |
| `worker_pool` | 4 tasks, 4 worker objects, cap 3, 2 parked, 1 failure | `Capped`, `Served`, `NoLostWakeup`, `StopLeavesNothing`, the refinement, `EveryTaskRuns`, `StopEnds` |
| `net_client` | 3 requests, 2 workers, 1 redirect, 1 with progress | `NothingAfterTheEnd`, `TasksEnough`, `QuietOnceGone`, `EveryRequestEnds` |
| `cache_disk` | 4 files, 2 values, 2 caches on the directory (files of an earlier run or none), 2 changes, 1 clear, 1 failed write | `Believed`, `WipedStaysWiped`, `DrainPromised`, `SignedOutIsGone`, `KeptAtClose`, `Saved` |
| `read_lanes` | 2 interactive calls (one a listing), 3 paced ones (two equal, one a listing), 1 retry of each kind, 1 429 | `LaneMoves`, `EveryCallerHears` |
| `timeline` | pages of 1, 1 message before the start and 1 after, 1 change (a deletion or an edit), 2 requests out, 1 failing | `OnlyDeletedVanish`, `HeadAgrees` |
| `timeline_hole` | pages of 1, 3 messages, no changes, one request | **violation** of what a foreground poll and `refreshCachedHead` promise of holes |
| `outbox` | 2 sends of different texts in a fresh or a known conversation, 1 upload scan repeated, 2 answers lost, clocks equal, a margin of 1, pages not cut | `NeverTwice`, `PendingMeansInFlight`, `EverySendSettles`, `UndoneIsGone` |
| `outbox_twice` | 2 sends, the app's clock 3 ahead, a margin of 4, 1 answer lost, pages not cut | **violation** of `NeverTwice` |

Why these bounds: a socket that is live and one coming up are all the object can
hold; a third transport only matters while retired, when it is unhooked. Two open
calls show a cancelled one beside its successor. The backoff needs one doubling
and the cap. Two calls show one rejected while the other's refresh is out, landed,
or twice landed; two renewals let a token be superseded twice. Four tasks under a
cap of 3 with 2 parked reach parking, retiring, starting, waking and the cap itself
at once; `Worker` is one larger so that a retired thread's successor is another one,
and so that a thread beyond the cap could exist. Three
requests on two workers leave one queued while two run and a cancellation makes a
hole in the queue. Two caches show a drain asked for by the first run beside the
second; files left by an earlier run let two changes go away from the written bytes
and back, so that an unchanged file is skipped. In `timeline` a page of one message
is the head page, so one more post moves it, and an older page exists; two requests
out are a stale one beside a fresh one, of any two kinds. (`OnlyDeletedVanish` is proved
for every size; a larger instance, pages of 2 and 3 messages, was run by hand too.) Two sends are enough for one to move the other's anchor; two lost
answers lose a post and then its scan, or a post twice.

Symmetry is used only in `socket_mode`, whose properties are invariants and one
action property over symmetric sets.

### Fairness

- `SocketMode`: the UI loop runs what is posted, timers fire, open calls are
  answered (each has a timeout), a handshake ends (timeout), a reader whose peer
  is gone or which we closed ends (the keepalive ping makes a dead TCP connection
  fail). Strong fairness of the *successful* open call and handshake says Slack
  does not refuse for ever; without it no client reconnects. Nothing is assumed of
  callers: no poll, kick or `ensureConnected` is needed for `Recovers`.
- `TokenRefresh`: `net::Client` answers every request (run `net_client` checks
  that) and the UI loop delivers it.
- `WorkerPool`: threads run, tasks end, a caller inside `post`/`stop` goes on.
  There is deliberately none on `WakesByItself`: sleeping workers must be woken by
  notifications, not by their 30 s deadline.
- `ReadLanes`: each call is answered or re-issued in the end (`token_refresh` checks
  that a tracked call is), holds and the gap end. Nothing is assumed of the
  answers: a listing may go on for ever, the retries are bounded by the code.
- `Timeline`: the tick polls for ever, Slack reads what it is asked, answers are
  applied, an event on its way arrives (one that is lost never was). Nothing is assumed
  of the user but, where the property says so, that the chat stays open, and in
  `HolesFill` that they keep scrolling up. `Fail` is bounded.
- `Outbox`: calls are answered, timers fire. Nothing is assumed of how: losses are
  bounded, refusals are not excluded.
- `CacheDisk`: timers fire, the UI thread goes on, pool tasks run, writes end. Nothing
  is assumed of the order in which threads get `diskMutex` beyond that.
- `NetClient`: pool tasks are taken (what `WorkerPool`'s `EveryTaskRuns` checks),
  each exchange ends, the UI loop runs, a begun destructor goes on.

`CHECK_DEADLOCK FALSE` where the system may rest: a stopped socket, a stopped
pool, a destroyed client, every call answered.

## Proofs

Every safety property a passing run checks is a theorem too, for every value of the
constants. The assumptions are those the modules
state on their constants: null values differ from real ones, the backoff bounds are
ordered, worker objects are finite and at least the cap, the calls of the lanes and the
sends of the outbox are finitely many, a file has some bytes. Nothing else is assumed, but
for three theorems of `OutboxProofs`, which state their conditions.

**SocketMode.** `IInv` = `TypeOK`, `SingleFlight`, `NeverStalled`, `NoUnreadSocket`,
`QuietAfterStop` and `NoEarlyMessage` (a reader posts nothing before its handshake
ends, and a socket is destroyed behind all it posted). None is inductive alone:
`NeverStalled` needs `SingleFlight` (the flag tells that a cycle really runs),
which needs `NoUnreadSocket` to know the pending socket is the one coming up,
which needs `NoEarlyMessage` to know that an `Opened` heard by a held socket is not
from a previous life. One step per action, one lemma for the steps that share
`ForceReconnect`. `BackoffHolds` follows from the same invariant, step by step.
`BackfilledGaps` needs a second invariant, `Gaps`, on top of the first. An event may be
missed at any moment Slack routes it to nobody, so `Gaps` says where the cure is:
`Ordered` (in the loop a hello comes behind the `Opened` of its socket, nothing comes
behind `Closed`), `Counted` (Slack counts every connection that is up, so that a hello's
count is wrong in one direction only), and `Healing` (what was missed has a hello that
backfills on its way, or the connection is going down). Posting is at the loop's end
and a turn takes its head, so each step is one of three lemmas about the loop.

**TokenRefresh.** `IInv` adds to the checked properties `SendCount` (the sends are
bounded by the `refreshed` flag and the waiting state, which `AtMostTwoSends`
alone does not say), `RecordIsCurrent` (the record equals what is held) and
`RenewalIsCurrent` (the answer under way carries what Slack takes next).
`NothingOutWhileRefreshing`, an action property, follows step by step from it.
`RefusedOnlyWhenStranded` says more than `NeverStranded`: Slack's refusal of a refresh
token always has its cause outside this process, a pair lost or spent elsewhere, or keys
withdrawn.

**WorkerPool.** `IInv` = `TypeOK`, `Registered` (live threads are exactly those in
`_workers`, or taken over by `stop()`), `Counted` (`_parked` is the number of
parked threads), `OnePlace` (no task in two places), `Capped`, `Served`,
`NoLostWakeup`. Counting arguments over finite sets are lemmas cited by name. The
refinement theorem maps the initial state and every step: `Post`, `Take` (from
`Enter` or `Unpark`), `Finish` and `StopSwaps` to their namesakes, the rest to
stutters; `Take`'s guard (room under MaxRunning) comes from `Capped` and `OnePlace`.

**NetClient.** `IInv` follows a request from its queue through its one worker to the loop.
`OnePlace`: a request is queued, or with one worker, or in neither. `TasksEnough` is not
inductive without it: a task takes whichever request is oldest and a cancelled one leaves
its task behind, so the count of tasks still looking, a cardinality, must be compared with
the queue's length at each step. `Posted` orders what is in the loop (`DoneIsLast`: progress
never behind the done of its request), `Flagged` relates the cancel flags to the requests
pending, `ShutDown` is what each stage of `~Client` has made sure of. The client only ever takes
`TaskQueue`'s steps on its pool (`ClientKeepsPoolContract`), each step by step, and
`WorkerPool` implements `TaskQueue` (`PoolImplementsTaskQueue`): the two theorems meet at
that module.

**CacheDisk.** The core of `IInv` is one function: `Now(f)`, the latest bytes of a file, in
the queue if an entry is there, else in the hand of who holds `diskMutex`, else on disk.
`Believes` says `written` is that or nothing, or the write failed and will be forgotten;
`Synced` says the Store is that, or due, or failed. `Put`, `Pop` and `Land` leave `Now` as it
is, which is what the lemmas on queues are for; `Mutex` makes the hand unique, `Drains`
keeps someone coming for the queue, and `Generations` makes both hold of the newest
cache only, so long as no clear moved past it. `KeptAtClose`, `WipedStaysWiped` and
`SignedOutIsGone` are conjuncts: at the end of `close()` nothing is due, queued or in hand,
so the disk is what `Synced` says.

**ReadLanes.** `IInv` = `Good` (the queue holds a call once, what is queued or joined
is where its place says, with one other; the count is that of the interactive calls
unanswered) and `Moves`. `LaneMoves` is not inductive without the first part: a call
taken out of the queue must not have been counted already. The handlers are functions
of the lanes' state, so the lemmas go through them one by one, and a handler that runs
inside another is met by its own lemma; `Apart` describes the state between two of
them, where the one call being answered is in no place and no longer counted. `NobodyLost`
is the half of `EveryCallerHears` that needs no fairness: whoever joined is with exactly
one call that is still on its way. `OneRequestEach` is what `pacedByKey`'s `emplace` takes
for granted.

**Outbox.** The types need `Named` (what a deletion names is a message of the send's
own). `PendingMeansInFlight` needs that nobody takes back a send not made yet.
`NeverTwice` needs `Once`: a message is of the one send it settled, newer than that
send's anchor, and deleted only after it settled it, so that a scan finds exactly what
its own send left (`FoundIsOwn`, `FoundIsAll`). That is where the three conditions enter: a
clock not ahead (`ClockAgrees`) keeps the anchor older than the message, texts that differ
(`TextsDiffer`) keep another send's scan from claiming it, and a page that isn't cut
(`PageReaches`) shows the message to its scan. Run `outbox_twice` shows the first is needed.
Two more rest on it. `DoneIsTrue`: a Done is answered when its send ends, and an "ok" is of a
message that was posted; it needs the texts to differ, or a scan takes the other send's
message for its own (listed as a hazard). `ScreenAgrees`: the Store shows a message of ours
only while Slack has it, and one that was taken back, in flight or confirmed, is deleted
unless its `chat.delete` is out, refused or unanswered; this is what `UndoneIsGone` says
without fairness, for files too. Its invariant `Deletions` ties the stages of the deletion to
the message that settled the send, which `Once` makes the only one.

**Timeline.** `IInv` ties every page to the moment Slack read it: `Speaks` says that
what a page could have shown (posted when it was asked for, not older than its oldest
message, or than anything if no more follows) and doesn't is deleted, and stays so
however long the answer takes. It rests on what the last `Limit` of a set are
(`LastOfIs`, cardinalities of finite sets) and on the least element of a set of naturals
(`LeastExists`, from the library's well-foundedness of `<`). `OnlyDeletedVanish` then
follows handler by handler; the bound `upTo` is what makes it true, since a message
pushed while the page was out is beyond it.

Only model-checked: the liveness properties (`Recovers`, `GapsEndInBackfill`,
`EveryCallAnswered`, `EveryTaskRuns`, `StopEnds`, `EveryRequestEnds`, `Saved`,
`EveryCallerHears`, `HeadAgrees`, `EverySendSettles`, `UndoneIsGone`): temporal formulas
under fairness, whose ENABLED the provers do not handle.

## Findings

Each is a run TLC violates; `PROJECT.json` quotes the lines.

1. `token_refresh_sign_out`: a call rejected after its one re-send signs the
   workspace out even if another refresh landed meanwhile.
2. `timeline_hole`: an open chat that missed more than a page of messages merges the
   head page into what it holds without asking whether the two touch; no poll and no
   scrolling ever asks for the messages between. `refreshCachedHead` guards against
   exactly that, `pollConversation` does not.
3. `outbox_twice`: the anchor of a scan is the conversation's newest ts, which the
   pending copy of an earlier send has moved to the app's clock. With that clock ahead
   of Slack's the scan cannot see its own message and posts it again.

Met while modelling, and not run: a promoted replacement unhooks the old socket with
events already posted behind it (the hello's backfill brings them back); after a
reconnect forced by the watchdog the contention banner may count our own dropped
connection; `net::Client` calls `Handler::finished` for a cancelled request; with more than
100 messages past its anchor, a scan's only page may miss the post it looks for, and
`reconcile` posts it again (`MCOutbox.cfg` with `Crowded = TRUE` violates `NeverTwice`).

## Plan

In this order; each module is written to be proved about (constants with named
assumptions, one action per operation, no RECURSIVE operator).

1. Proofs: done for every safety property the runs check. Left: an abstract specification
   of the outbox (each send ends once, posted, taken back or failed) that `Outbox` implements.
2. `Background` (`app/model/jobs.cpp`) on `TaskQueue`: no `then` after
   `stopBackground`, `waitBackground` returns exactly when nothing runs.
3. The rest of `Write`: marks, reactions and saved items, where the last wish of the
   user must win over answers and pushes out of order; edits of a message in flight.
4. Unread counts and threads on `Timeline`; `Timeline` composed with `Outbox` (the echo
   of a send meeting its pending copy).
5. `Observers`, then `SocketMode`'s sinks on it; `RtmPresence`; the updater; the
   Claude links and launcher.

Not planned: painting, text, widgets, plat's OS code, parsers and JSON
conversions, wire code: sequential, visual or pure I/O, where tests do better
than a model.
