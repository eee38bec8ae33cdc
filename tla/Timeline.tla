------------------------------- MODULE Timeline -------------------------------
(***************************************************************************)
(* One conversation of the Store as the read side keeps it                   *)
(* (src/src/app/slack/slack_backend.cpp, slack_realtime.cpp; the Store's     *)
(* list in src/src/app/model/store.cpp): pushed events, the head-page poll,  *)
(* older pages, and the cached run shown at the first opening, all merged    *)
(* into one list. Every page is read by Slack at one moment and applied at   *)
(* a later one, after pushes and other pages.                                *)
(*                                                                           *)
(* A message is its ts; its text is the one posted or the one edited (an     *)
(* edit stands for whatever else may change in it). Threads, unread counts   *)
(* and my own pending copies (every step here skips those) are left out.     *)
(***************************************************************************)
EXTENDS Naturals, Sequences, FiniteSets, FiniteSetsExt, SequencesExt

CONSTANTS
  Limit,      \* kHistoryLimit: the messages of a page
  Start,      \* posted before the app starts
  MaxPosts,   \* bound: messages ever posted
  MaxChanges, \* bound: deletions and edits of them
  MaxOut,     \* bound: requests out at once
  MaxFailures \* bound: requests that fail for good

ASSUME TimelineAssumption ==
  /\ Limit \in Nat \ {0} /\ MaxOut \in Nat \ {0}
  /\ MaxPosts \in Nat /\ Start \in 0..MaxPosts
  /\ MaxChanges \in Nat /\ MaxFailures \in Nat

Ts == 1..MaxPosts

VARIABLES
  \* Slack.
  posted,        \* the newest ts given out
  deleted, edited,
  events,        \* pushes on their way, <<kind, ts>>
  \* The Store's conversation.
  held,          \* messages: ts -> it shows the edited text
  hasMoreBefore, latest,
  \* SlackBackend::Read.
  isOpen,        \* openConv is this conversation
  baseline,      \* pollBaseline, 0 = never polled
  asks,          \* its conversations.history calls, in the order issued
  \* The rest.
  loading,       \* MessageList::_loadingOlder
  cached,        \* the cache file, until the first opening reads it
  failures

vars == <<posted, deleted, edited, events, held, hasMoreBefore, latest, isOpen, baseline,
          asks, loading, cached, failures>>
slack == <<posted, deleted, edited>>

Nothing == [m \in {} |-> FALSE]
Polls == {"front", "back"}
Pages == UNION {[S -> BOOLEAN] : S \in SUBSET Ts}
Ask == [kind : Polls \union {"outrun", "older", "head"},
        known : 0..MaxPosts, \* a poll's lastKnown
        upTo : 0..MaxPosts,  \* a poll's held, a head's cachedNewest, an older's before
        read : BOOLEAN, page : Pages, more : BOOLEAN]

Newest(S) == IF S = {} THEN 0 ELSE Max(S)
Live == (1..posted) \ deleted

\* Slack's page of the messages below `before` (all of them for 0).
Below(before) == {m \in Live : before = 0 \/ m < before}
LastOf(S) == {m \in S : Cardinality({k \in S : k > m}) < Limit}
PageOf(S) == [m \in LastOf(S) |-> m \in edited]

-----------------------------------------------------------------------------
(* The Store. *)

\* addPage: what is held is replaced, the rest goes in by ts.
Merged(page, list) ==
  [m \in DOMAIN page \union DOMAIN list |-> IF m \in DOMAIN page THEN page[m] ELSE list[m]]

\* Every way in moves `latest` up to the newest of the list.
Keep(list) ==
  /\ held' = list
  /\ latest' = Max({latest, Newest(DOMAIN list)})

-----------------------------------------------------------------------------
(* Slack, and what becomes of its pushes: an event may be lost (the socket   *)
(* is down or silent), come late behind a later one (two sockets overlap),   *)
(* or come twice (an envelope sent again).                                   *)

Push(e) ==
  \/ events' = events \union {e}
  \/ UNCHANGED events

Changes == Cardinality(deleted) + Cardinality(edited)

Post ==
  /\ posted < MaxPosts
  /\ posted' = posted + 1
  /\ Push(<<"post", posted + 1>>)
  /\ UNCHANGED <<deleted, edited, held, hasMoreBefore, latest, isOpen, baseline, asks,
                 loading, cached, failures>>

Delete(m) ==
  /\ m \in Live /\ Changes < MaxChanges
  /\ deleted' = deleted \union {m}
  /\ Push(<<"delete", m>>)
  /\ UNCHANGED <<posted, edited, held, hasMoreBefore, latest, isOpen, baseline, asks,
                 loading, cached, failures>>

Edit(m) ==
  /\ m \in Live \ edited /\ Changes < MaxChanges
  /\ edited' = edited \union {m}
  /\ Push(<<"edit", m>>)
  /\ UNCHANGED <<posted, deleted, held, hasMoreBefore, latest, isOpen, baseline, asks,
                 loading, cached, failures>>

\* Live::onMessage: a post goes to inject(), which drops what is held; an
\* edit and a deletion only touch what is held.
OnMessage(e) ==
  CASE e[1] = "post" -> IF e[2] \in DOMAIN held
                        THEN UNCHANGED <<held, latest>>
                        ELSE Keep(Merged([m \in {e[2]} |-> FALSE], held))
    [] e[1] = "edit" -> /\ held' = [m \in DOMAIN held |-> held[m] \/ m = e[2]]
                        /\ UNCHANGED latest
    [] e[1] = "delete" -> /\ held' = Restrict(held, DOMAIN held \ {e[2]})
                          /\ UNCHANGED latest

Deliver(e, again) ==
  /\ e \in events
  /\ OnMessage(e)
  /\ events' = IF again THEN events ELSE events \ {e}
  /\ UNCHANGED <<slack, hasMoreBefore, isOpen, baseline, asks, loading, cached, failures>>

-----------------------------------------------------------------------------
(* Requests go out, are read by Slack, and fail or are applied. *)

Call(kind, known, upTo) ==
  asks' = Append(asks, [kind |-> kind, known |-> known, upTo |-> upTo,
                        read |-> FALSE, page |-> Nothing, more |-> FALSE])

\* setActiveConversation and showConversation. The first opening shows what
\* loadMessages() finds in the cache and asks for the head page.
Open ==
  /\ ~isOpen /\ Len(asks) < MaxOut
  /\ isOpen' = TRUE /\ loading' = FALSE
  /\ cached' = [run |-> Nothing, more |-> TRUE]
  /\ Keep(Merged(cached.run, held))
  /\ hasMoreBefore' = (hasMoreBefore /\ (cached.more \/ held # Nothing))
  /\ IF cached.run = Nothing
     THEN UNCHANGED asks
     ELSE Call("head", 0, Newest(DOMAIN cached.run))
  /\ UNCHANGED <<slack, events, baseline, failures>>

Close ==
  /\ isOpen
  /\ isOpen' = FALSE
  /\ UNCHANGED <<slack, events, held, hasMoreBefore, latest, baseline, asks, loading, cached,
                 failures>>

\* pollConversation: the open chat's from tick() or backfillOpen(), a closed
\* one's from the rotation, or from applyActivity() with the `latest` of the
\* snapshot before (hint).
PollConversation(hint) ==
  /\ Len(asks) < MaxOut
  /\ isOpen => hint = 0
  /\ LET lastKnown == IF baseline # 0 THEN baseline ELSE IF hint # 0 THEN hint ELSE latest
     IN Call(IF isOpen THEN "front" ELSE "back", lastKnown, Newest(DOMAIN held))
  /\ UNCHANGED <<slack, events, held, hasMoreBefore, latest, isOpen, baseline, loading, cached,
                 failures>>

\* The list's edge check: scrolled to its top, or empty.
LoadOlder ==
  /\ isOpen /\ hasMoreBefore /\ ~loading /\ Len(asks) < MaxOut
  /\ loading' = TRUE
  /\ Call("older", 0, IF held = Nothing THEN 0 ELSE Min(DOMAIN held))
  /\ UNCHANGED <<slack, events, held, hasMoreBefore, latest, isOpen, baseline, cached, failures>>

SlackReads(i) ==
  /\ ~asks[i].read
  /\ LET S == Below(IF asks[i].kind = "older" THEN asks[i].upTo ELSE 0)
     IN asks' = [asks EXCEPT ![i].read = TRUE, ![i].page = PageOf(S),
                             ![i].more = Cardinality(S) > Limit]
  /\ UNCHANGED <<posted, deleted, edited, events, held, hasMoreBefore, latest, isOpen, baseline,
                 loading, cached, failures>>

\* Retried until it won't do any more: the caller hears an error.
Fail(i) ==
  /\ failures < MaxFailures
  /\ failures' = failures + 1
  /\ asks' = RemoveAt(asks, i)
  /\ loading' = (loading /\ asks[i].kind # "older")
  /\ UNCHANGED <<slack, events, held, hasMoreBefore, latest, isOpen, baseline, cached>>

\* The poll moved on: its chat opened or closed meanwhile.
StaleIntent(a) == a.kind = IF isOpen THEN "back" ELSE "front"

DropPoll(i) ==
  /\ asks[i].read
  /\ asks[i].kind = "outrun" \/ StaleIntent(asks[i])
  /\ asks' = RemoveAt(asks, i)
  /\ UNCHANGED <<slack, events, held, hasMoreBefore, latest, isOpen, baseline, loading, cached,
                 failures>>

\* completedPoll: polls issued before this one will find it done, whatever
\* their answers say.
Ignored == [kind |-> "outrun", known |-> 0, upTo |-> 0,
            read |-> TRUE, page |-> Nothing, more |-> FALSE]
Outrun(i) ==
  [j \in DOMAIN asks |-> IF j < i /\ asks[j].kind \in Polls THEN Ignored ELSE asks[j]]

\* What is newer than lastKnown comes in as live messages; never scanned
\* (priming), nothing does.
Injected(a) ==
  Restrict(a.page, {m \in DOMAIN a.page : a.known # 0 /\ m > a.known /\ m \notin DOMAIN held})

\* Held from the page's oldest on, but not on it: deleted elsewhere. The
\* page can't speak for what came while it was out.
GoneFrom_AllOfThePage(a, list) ==
  {m \in DOMAIN list : m >= Min(DOMAIN a.page) /\ m \notin DOMAIN a.page}
GoneFrom_SinceLastPoll(a, list) ==
  {m \in DOMAIN list : m >= Min(DOMAIN a.page) /\ m <= a.known /\ m \notin DOMAIN a.page}
GoneFrom(a, list) ==
  {m \in DOMAIN list : m >= Min(DOMAIN a.page) /\ m <= a.upTo /\ m \notin DOMAIN a.page}

ApplyPoll(i) ==
  LET a == asks[i]
      list == Merged(Injected(a), held)
  IN /\ a.read /\ a.kind \in Polls /\ ~StaleIntent(a)
     /\ asks' = RemoveAt(Outrun(i), i)
     /\ baseline' = IF a.page = Nothing THEN baseline ELSE Newest(DOMAIN a.page)
     /\ IF a.kind = "back" \/ a.page = Nothing
        THEN Keep(list)
        ELSE Keep(Merged(a.page, Restrict(list, DOMAIN list \ GoneFrom(a, list))))
     /\ UNCHANGED <<slack, events, hasMoreBefore, isOpen, loading, cached, failures>>

\* refreshCachedHead's answer: what came from the cache (up to upTo) and is
\* no longer there goes, and all of it when it doesn't reach the page (cut).
Cut(a) ==
  a.more /\ \A m \in DOMAIN held : m <= a.upTo => m \notin DOMAIN a.page

GoneFromCache(a) ==
  {m \in DOMAIN held \ DOMAIN a.page :
     /\ m <= a.upTo
     /\ \/ Cut(a) \/ ~a.more
        \/ m >= Min(DOMAIN a.page)}

ApplyHead(i) ==
  LET a == asks[i]
  IN /\ a.read /\ a.kind = "head"
     /\ asks' = RemoveAt(asks, i)
     /\ baseline' = Max({baseline, Newest(DOMAIN a.page)})
     /\ Keep(Merged(a.page, Restrict(held, DOMAIN held \ GoneFromCache(a))))
     /\ hasMoreBefore' = IF Cut(a) \/ ~a.more THEN a.more ELSE hasMoreBefore
     /\ UNCHANGED <<slack, events, isOpen, loading, cached, failures>>

ApplyOlder(i) ==
  LET a == asks[i]
  IN /\ a.read /\ a.kind = "older"
     /\ asks' = RemoveAt(asks, i)
     /\ Keep(Merged(a.page, held))
     /\ hasMoreBefore' = a.more
     /\ loading' = FALSE
     /\ UNCHANGED <<slack, events, isOpen, baseline, cached, failures>>

Answer(i) == ApplyPoll(i) \/ DropPoll(i) \/ ApplyHead(i) \/ ApplyOlder(i)

-----------------------------------------------------------------------------
\* Started warm: a run that ends at the newest message then may be cached.
Init ==
  /\ posted = Start /\ deleted = {} /\ edited = {} /\ events = {}
  /\ held = Nothing /\ hasMoreBefore = TRUE /\ latest = Start
  /\ isOpen = FALSE /\ baseline = 0 /\ asks = <<>> /\ loading = FALSE /\ failures = 0
  /\ \E from \in 1..Start + 1 :
       cached = [run |-> [m \in from..Start |-> FALSE], more |-> from # 1 \/ Start = 0]

Next ==
  \/ Post \/ Open \/ Close \/ LoadOlder
  \/ \E m \in Ts : Delete(m) \/ Edit(m)
  \/ \E e \in events, again \in BOOLEAN : Deliver(e, again)
  \/ \E hint \in 0..latest : PollConversation(hint)
  \/ \E i \in DOMAIN asks : SlackReads(i) \/ Fail(i) \/ Answer(i)

Spec == Init /\ [][Next]_vars

\* The tick polls for ever, Slack reads what it is asked, answers come back,
\* an event on its way arrives. The user opens, closes and scrolls as they
\* please.
FairSpec ==
  /\ Spec
  /\ WF_vars(PollConversation(0))
  /\ WF_vars(\E i \in DOMAIN asks : SlackReads(i))
  /\ WF_vars(\E i \in DOMAIN asks : Answer(i))
  /\ WF_vars(\E e \in events : Deliver(e, FALSE))

-----------------------------------------------------------------------------
(* Properties. *)

\* Every variable has its type, the cached text and the older pages included.
TypeOK ==
  /\ posted \in Start..MaxPosts /\ latest \in 0..MaxPosts /\ baseline \in 0..MaxPosts
  /\ deleted \subseteq Ts /\ edited \subseteq Ts
  /\ events \subseteq {"post", "edit", "delete"} \X Ts
  /\ held \in Pages
  /\ hasMoreBefore \in BOOLEAN /\ isOpen \in BOOLEAN /\ loading \in BOOLEAN
  /\ asks \in Seq(Ask) /\ Len(asks) <= MaxOut
  /\ cached.run \in Pages /\ cached.more \in BOOLEAN
  /\ failures \in 0..MaxFailures

\* A message on screen goes only because Slack deleted it, or because the
\* cached run it belongs to is cut loose below the head page, from where
\* scrolling up brings it back: a page too old to know a message (pushed
\* while the poll was out) never takes it away
\* (slack_backend.cpp:2713-2718, 2760-2772, 2413-2417).
OnlyDeletedVanish ==
  [][\A m \in DOMAIN held \ DOMAIN held' :
       \/ m \in deleted
       \/ hasMoreBefore' /\ \A k \in DOMAIN held' : m < k]_vars

HeadPage == PageOf(Live)

HeadShown ==
  Restrict(held, {m \in DOMAIN held : m >= Min(DOMAIN HeadPage)}) = HeadPage

\* Whatever pushes were lost, doubled or overtaken, and whatever stale pages
\* were applied, a chat left open ends up showing Slack's newest messages as
\* they are: none missing, none deleted, none with its old text
\* (slack_backend.cpp:2697-2700). A conversation emptied altogether is left
\* out: the poll returns on an empty page (slack_backend.cpp:2753) and the
\* last messages stay until their pushes or the next start.
HeadAgrees == <>[]isOpen => <>[](HeadPage = Nothing \/ HeadShown)

NoHole ==
  \A m \in Live \ DOMAIN held, k \in DOMAIN held : m < k => \A j \in DOMAIN held : m < j

\* Scrolling up reaches every message: for a user who keeps scrolling, what
\* an open chat holds is in the end one run without holes (the reason
\* refreshCachedHead gives for cutting a run loose, slack_backend.cpp:2415:
\* "kept, it would leave a hole that paging from its oldest message could
\* never fill").
HolesFill ==
  (<>[]isOpen /\ WF_vars(LoadOlder)) => <>[]NoHole
=============================================================================
