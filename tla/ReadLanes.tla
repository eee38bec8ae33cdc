------------------------------- MODULE ReadLanes -------------------------------
(***************************************************************************)
(* The read side's calls (SlackBackend::Read, src/src/app/slack/             *)
(* slack_backend.cpp): Normal calls go out at once, Background ones trickle  *)
(* out of a queue while no Normal call is unanswered; a call already queued  *)
(* is joined, not queued again; a 429 holds its method; lost connections and *)
(* Slack's hiccups are retried; a listing asks page after page.              *)
(*                                                                           *)
(* Each of Calls is made at most once. A listing is a call that may have     *)
(* another page each time. The end of the backend is left out.               *)
(***************************************************************************)
EXTENDS Naturals, Sequences, FiniteSets, SequencesExt

CONSTANTS
  Calls,
  Background, Listing, \* subsets of Calls
  Method, Key,         \* Calls -> method; Calls -> method and form
  TransientRetries, TransportRetries, \* kMaxTransientRetries, kMaxTransportRetries
  MaxLimited           \* bound: 429s

ASSUME LanesAssumption ==
  /\ IsFiniteSet(Calls) /\ Background \subseteq Calls /\ Listing \subseteq Calls
  /\ DOMAIN Method = Calls /\ DOMAIN Key = Calls
  /\ TransientRetries \in Nat /\ TransportRetries \in Nat /\ MaxLimited \in Nat

VARIABLES
  at,            \* where a call is
  paced,         \* the queue, Background calls not yet issued
  joined,        \* the callers of a queued or issued one besides its own
  pacedBusy,     \* the gap after a paced call
  normalPending,
  later,         \* listings past their first page (their key has a cursor)
  attempt,       \* of the request (a settled one's is 0)
  cooling,       \* readyAt: the methods on hold
  limited

lanes == <<at, paced, joined, pacedBusy, normalPending, later>>
vars == <<at, paced, joined, pacedBusy, normalPending, later, attempt, cooling, limited>>

Normal == Calls \ Background
Methods == {Method[c] : c \in Calls}
Unanswered == {"out", "waiting"} \* at Slack, or backing off, or on hold

-----------------------------------------------------------------------------
(* What a handler does to the lanes, call by call: l is their state.         *)

Lanes == [at |-> at, paced |-> paced, joined |-> joined, busy |-> pacedBusy,
          pending |-> normalPending, later |-> later]

Become(l) ==
  /\ at' = l.at /\ paced' = l.paced /\ joined' = l.joined /\ pacedBusy' = l.busy
  /\ normalPending' = l.pending /\ later' = l.later

\* issue, for a call whose turn it is.
Issue(l, c) == [l EXCEPT !.at[c] = IF Method[c] \in cooling THEN "waiting" ELSE "out"]

\* pumpPaced: interactive work first.
Pump(l) ==
  IF l.busy \/ l.paced = <<>> \/ l.pending > 0
  THEN l
  ELSE Issue([l EXCEPT !.busy = TRUE, !.paced = Tail(@)], Head(l.paced))

\* pacedByKey: the same call, waiting. A later page of a listing is the same if
\* its cursor is; met are the listings that are at c's page.
Same(l, c, met) ==
  {q \in ToSet(l.paced) : Key[q] = Key[c] /\ IF c \in l.later THEN q \in met ELSE q \notin l.later}

\* call: out at once, joined to the same call waiting, or queued. Who joined c
\* goes where it goes.
Made(l, c, met) ==
  IF c \in Normal
  THEN Issue([l EXCEPT !.pending = @ + 1], c)
  ELSE IF Same(l, c, met) # {}
  THEN LET q == CHOOSE q \in Same(l, c, met) : TRUE
       IN [l EXCEPT !.at[c] = "joined",
                    !.joined = [l.joined EXCEPT ![q] = @ \union {c} \union l.joined[c], ![c] = {}]]
  ELSE Pump([l EXCEPT !.at[c] = "queued", !.paced = Append(@, c)])

\* The answer is final: a Normal call counts no longer.
Settled(l, c) == IF c \in Normal THEN [l EXCEPT !.pending = @ - 1] ELSE l

\* Once it has been told: the last Normal call lets the paced lane move.
Release_OnlyTold(l, c) == l
Release(l, c) == IF c \in Normal THEN Pump(l) ELSE l

-----------------------------------------------------------------------------
(* The app. *)

Call(c) ==
  /\ at[c] = "new"
  /\ Become(Made(Lanes, c, {}))
  /\ UNCHANGED <<attempt, cooling, limited>>

-----------------------------------------------------------------------------
(* Slack's answers. *)

RateLimited(c) ==
  /\ at[c] = "out" /\ limited < MaxLimited
  /\ limited' = limited + 1
  /\ cooling' = cooling \union {Method[c]}
  /\ at' = [at EXCEPT ![c] = "waiting"]
  /\ UNCHANGED <<paced, joined, pacedBusy, normalPending, later, attempt>>

\* Retried within the limit of its kind; both kinds count together.
Flaky(c, retries) ==
  /\ at[c] = "out" /\ attempt[c] < retries
  /\ attempt' = [attempt EXCEPT ![c] = @ + 1]
  /\ at' = [at EXCEPT ![c] = "waiting"]
  /\ UNCHANGED <<paced, joined, pacedBusy, normalPending, later, cooling, limited>>

\* An answer or an error: the callers hear it, and may make another call from
\* inside; then the paced lane moves.
Told(l, c) ==
  [l EXCEPT !.at = [d \in Calls |-> IF d = c \/ d \in l.joined[c] THEN "done" ELSE l.at[d]],
            !.joined[c] = {}]

Final(c) ==
  /\ at[c] = "out"
  /\ LET told == Told(Settled(Lanes, c), c)
     IN \/ Become(Release(told, c))
        \/ \E d \in Calls : told.at[d] = "new" /\ Become(Release(Made(told, d, {}), c))
  /\ attempt' = [attempt EXCEPT ![c] = 0]
  /\ UNCHANGED <<cooling, limited>>

\* A listing with another page: asked for from inside the answer, unless the
\* paced lane has something to let in.
LetsIn_Never(l) == FALSE
LetsIn(l) == l.paced # <<>>

\* Those who joined it hear the page too; the listings among them ask for the
\* next one after it, the first of these (lead) with the others behind.
Others(l, c) == l.joined[c] \intersect Listing
Heard(l, c, lead) ==
  [l EXCEPT !.at = [d \in Calls |-> IF d \in l.joined[c] \ Listing THEN "done"
                                    ELSE IF d = lead /\ d # c THEN "between" ELSE l.at[d]],
            !.joined = [l.joined EXCEPT ![c] = {}, ![lead] = Others(l, c) \ {lead}],
            !.later = @ \union {c} \union Others(l, c)]

Page(c) ==
  /\ at[c] = "out" /\ c \in Listing
  /\ \E met \in SUBSET later, lead \in IF Others(Lanes, c) = {} THEN {c} ELSE Others(Lanes, c) :
       LET l == Heard(Settled(Lanes, c), c, lead)
           next == IF c \in Normal /\ LetsIn(l)
                   THEN [l EXCEPT !.at[c] = "between"]
                   ELSE Made(l, c, met)
       IN Become(Release(IF lead = c THEN next ELSE Made(next, lead, met \union {c}), c))
  /\ attempt' = [attempt EXCEPT ![c] = 0]
  /\ UNCHANGED <<cooling, limited>>

-----------------------------------------------------------------------------
(* Timers. *)

NextPage(c) ==
  /\ at[c] = "between"
  /\ Become(Made(Lanes, c, {}))
  /\ UNCHANGED <<attempt, cooling, limited>>

\* Its backoff or its hold is over; a hold that isn't means another wait.
Reissue(c) ==
  /\ at[c] = "waiting" /\ Method[c] \notin cooling
  /\ Become(Issue(Lanes, c))
  /\ UNCHANGED <<attempt, cooling, limited>>

CoolOver(m) ==
  /\ m \in cooling
  /\ cooling' = cooling \ {m}
  /\ UNCHANGED <<lanes, attempt, limited>>

PacedGapOver ==
  /\ pacedBusy
  /\ Become(Pump([Lanes EXCEPT !.busy = FALSE]))
  /\ UNCHANGED <<attempt, cooling, limited>>

-----------------------------------------------------------------------------
Init ==
  /\ at = [c \in Calls |-> "new"] /\ paced = <<>> /\ joined = [c \in Calls |-> {}]
  /\ pacedBusy = FALSE /\ normalPending = 0 /\ later = {}
  /\ attempt = [c \in Calls |-> 0] /\ cooling = {} /\ limited = 0

Answer(c) ==
  \/ RateLimited(c) \/ Flaky(c, TransientRetries) \/ Flaky(c, TransportRetries)
  \/ Final(c) \/ Page(c)

Next ==
  \/ \E c \in Calls : Call(c) \/ Answer(c) \/ NextPage(c) \/ Reissue(c)
  \/ \E m \in Methods : CoolOver(m)
  \/ PacedGapOver

\* Slack answers and timers fire; how often a listing has another page is
\* Slack's choice.
Spec ==
  /\ Init /\ [][Next]_vars
  /\ \A c \in Calls : WF_vars(Answer(c) \/ NextPage(c) \/ Reissue(c))
  /\ WF_vars(\E m \in Methods : CoolOver(m))
  /\ WF_vars(PacedGapOver)

-----------------------------------------------------------------------------
(* Properties. *)

\* Every variable has its type, and what is queued waits its turn once.
TypeOK ==
  /\ at \in [Calls -> {"new", "queued", "joined", "between", "done"} \union Unanswered]
  /\ paced \in Seq(Background) /\ IsInjective(paced)
  /\ joined \in [Calls -> SUBSET Background]
  /\ pacedBusy \in BOOLEAN /\ normalPending \in Nat /\ later \subseteq Listing
  /\ attempt \in [Calls -> 0..TransientRetries + TransportRetries]
  /\ cooling \subseteq Methods /\ limited \in 0..MaxLimited

\* normalPending is the number of Normal calls unanswered, through retries,
\* holds, pages and calls made from inside an answer; and nothing waits in
\* the paced lane that neither such a call nor the gap holds back: a count
\* off by one, or an answer that doesn't move the lane, stops it for ever
\* (slack_backend.cpp:155-157, 478-492, 527-531).
LaneMoves ==
  /\ normalPending = Cardinality({c \in Normal : at[c] \in Unanswered})
  /\ paced = <<>> \/ normalPending > 0 \/ pacedBusy

\* Every caller hears: whoever made a call gets its answer, those who joined
\* it too, through 429s and retries, and though a listing of interactive
\* calls has page after page for ever: again and again nobody is left waiting
\* (slack_backend.cpp:456-471, 598-601).
EveryCallerHears == []<>(\A c \in Calls \ Listing : at[c] \in {"new", "done"})
=============================================================================
