----------------------------- MODULE TimelineProofs -----------------------------
(***************************************************************************)
(* Timeline's invariant: what a page could have shown and did not is        *)
(* deleted. From it, that only the deleted vanish.                            *)
(***************************************************************************)
EXTENDS Timeline, FiniteSetTheorems, SequenceTheorems, WellFoundedInduction, TLAPS

-----------------------------------------------------------------------------
(* The oldest and the newest. *)

Less == {p \in Nat \X Nat : p[1] < p[2]}

\* A set of naturals has a least element.
LEMMA LeastExists ==
  ASSUME NEW S \in SUBSET Nat, S # {}
  PROVE  \E x \in S : \A y \in S : x <= y
<1>1. IsWellFoundedOn(Less, Nat)
  BY NatLessThanWellFounded DEF OpToRel, Less
<1>2. PICK x \in S : \A y \in S : <<y, x>> \notin Less
  BY <1>1, WFMin
<1>3. ASSUME NEW y \in S PROVE x <= y
  <2>1. x \in Nat /\ y \in Nat
    OBVIOUS
  <2>2. <<y, x>> \notin Less
    BY <1>2
  <2>3. ~(y < x)
    BY <2>1, <2>2 DEF Less
  <2> QED  BY <2>1, <2>3
<1> QED  BY <1>3

\* A bounded one has a greatest: the least of its bounds.
LEMMA GreatestExists ==
  ASSUME NEW n \in Nat, NEW S \in SUBSET (0..n), S # {}
  PROVE  \E x \in S : \A y \in S : x >= y
<1> DEFINE B == {b \in 0..n : \A y \in S : y <= b}
<1>1. n \in B /\ B \in SUBSET Nat
  OBVIOUS
<1>2. PICK x \in B : \A b \in B : x <= b
  <2> HIDE DEF B
  <2> QED  BY <1>1, LeastExists
<1>3. x \in 0..n /\ \A y \in S : y \in 0..n /\ y <= x
  BY <1>2
<1>4. ASSUME x \notin S PROVE FALSE
  <2>1. \A y \in S : y <= x - 1
    BY <1>3, <1>4
  <2>2. x - 1 \in 0..n
    <3>1. PICK y \in S : TRUE
      OBVIOUS
    <3> QED  BY <1>3, <2>1, <3>1
  <2>3. x - 1 \in B
    BY <2>1, <2>2
  <2> QED  BY <1>2, <1>3, <2>3
<1> QED  BY <1>3, <1>4

\* Min and Max are what they say.
LEMMA MinIs ==
  ASSUME NEW S \in SUBSET Nat, S # {}
  PROVE  Min(S) \in S /\ \A y \in S : Min(S) <= y
  BY LeastExists DEF Min

LEMMA MaxIs ==
  ASSUME NEW n \in Nat, NEW S \in SUBSET (0..n), S # {}
  PROVE  Max(S) \in S /\ \A y \in S : Max(S) >= y
  BY GreatestExists DEF Max

\* Both stay within the bound.
LEMMA NewestIs ==
  ASSUME NEW n \in Nat, NEW S \in SUBSET (1..n)
  PROVE  Newest(S) \in 0..n
<1>1. CASE S = {}
  BY <1>1 DEF Newest
<1>2. CASE S # {}
  <2>1. S \in SUBSET (0..n)
    OBVIOUS
  <2>2. Max(S) \in S
    BY <1>2, <2>1, MaxIs
  <2> QED  BY <1>2, <2>1, <2>2 DEF Newest
<1> QED  BY <1>1, <1>2

LEMMA LaterIs ==
  ASSUME NEW n \in Nat, NEW a \in 0..n, NEW b \in 0..n
  PROVE  Max({a, b}) \in 0..n
  BY MaxIs

-----------------------------------------------------------------------------
(* Lists of messages, and sequences of requests. *)

\* A page is a list of texts by ts.
LEMMA PageIs ==
  ASSUME NEW f
  PROVE  f \in Pages <=> DOMAIN f \subseteq Ts /\ f \in [DOMAIN f -> BOOLEAN]
  BY DEF Pages

LEMMA NothingIs ==
  ASSUME NEW f \in Pages
  PROVE  f = Nothing <=> DOMAIN f = {}
<1>1. f \in [DOMAIN f -> BOOLEAN] /\ Nothing \in [{} -> BOOLEAN] /\ DOMAIN Nothing = {}
  BY PageIs DEF Nothing
<1> QED  BY <1>1

\* Merging keeps everything on either side.
LEMMA MergedIs ==
  ASSUME NEW page \in Pages, NEW list \in Pages
  PROVE  Merged(page, list) \in Pages /\ DOMAIN Merged(page, list) = DOMAIN page \union DOMAIN list
  BY PageIs DEF Merged

LEMMA RestrictIs ==
  ASSUME NEW list \in Pages, NEW S \in SUBSET DOMAIN list
  PROVE  Restrict(list, S) \in Pages /\ DOMAIN Restrict(list, S) = S
  BY PageIs DEF Restrict

\* What is left of a sequence was in it.
LEMMA RemoveAtIs ==
  ASSUME NEW S, NEW s \in Seq(S), NEW i \in DOMAIN s
  PROVE  RemoveAt(s, i) \in Seq(S) /\ Len(RemoveAt(s, i)) <= Len(s)
<1>1. i \in 1..Len(s) /\ Len(s) \in Nat
  OBVIOUS
<1>2. SubSeq(s, 1, i - 1) \in Seq(S) /\ Len(SubSeq(s, 1, i - 1)) = i - 1
  BY <1>1
<1>3. SubSeq(s, i + 1, Len(s)) \in Seq(S) /\ Len(SubSeq(s, i + 1, Len(s))) = Len(s) - i
  BY <1>1
<1> QED  BY <1>1, <1>2, <1>3 DEF RemoveAt

LEMMA WiderSeq ==
  ASSUME NEW S, NEW T, NEW s \in Seq(S), \A x \in S : x \in T
  PROVE  s \in Seq(T)
  OBVIOUS

-----------------------------------------------------------------------------
(* What Slack's pages say. *)

\* Of a finite set, the last Limit: nothing of the set is left out from the
\* oldest of them on, nor at all if there are no more than Limit.
LEMMA LastOfIs ==
  ASSUME NEW n \in Nat, NEW S \in SUBSET (1..n)
  PROVE  /\ LastOf(S) \subseteq S
         /\ \A m \in S, k \in LastOf(S) : k <= m => m \in LastOf(S)
         /\ Cardinality(S) <= Limit => LastOf(S) = S
         /\ Cardinality(S) > Limit => LastOf(S) # {}
<1> DEFINE Later(m) == {k \in S : k > m}
<1>1. IsFiniteSet(S) /\ Cardinality(S) \in Nat
  <2>1. IsFiniteSet(1..n)
    BY FS_Interval
  <2> QED  BY <2>1, FS_Subset, FS_CardinalityType
<1>2. ASSUME NEW m \in S
      PROVE  IsFiniteSet(Later(m)) /\ Cardinality(Later(m)) \in Nat
  BY <1>1, FS_Subset, FS_CardinalityType
<1>3. LastOf(S) = {m \in S : Cardinality(Later(m)) < Limit}
  BY DEF LastOf
<1>4. ASSUME NEW m \in S, NEW k \in LastOf(S), k <= m PROVE m \in LastOf(S)
  <2>1. k \in S /\ Later(m) \subseteq Later(k)
    <3>1. k \in S /\ S \subseteq Nat
      BY <1>3
    <3>2. \A y \in S : y > m => y > k
      BY <1>4, <3>1
    <3> QED  BY <3>1, <3>2
  <2>2. Cardinality(Later(m)) <= Cardinality(Later(k))
    <3> HIDE DEF Later
    <3> QED  BY <1>2, <2>1, FS_Subset
  <2>3. Cardinality(Later(k)) < Limit
    BY <1>3
  <2>4. Cardinality(Later(m)) < Limit
    <3> HIDE DEF Later
    <3> QED  BY <1>2, <2>1, <2>2, <2>3, TimelineAssumption
  <2> QED  BY <1>3, <2>4
<1>5. ASSUME Cardinality(S) <= Limit, NEW m \in S PROVE m \in LastOf(S)
  <2>1. Later(m) \subseteq S /\ Later(m) # S
    OBVIOUS
  <2>2. Cardinality(Later(m)) < Cardinality(S)
    <3> HIDE DEF Later
    <3> QED  BY <1>1, <1>2, <2>1, FS_Subset
  <2>3. Cardinality(Later(m)) < Limit
    <3> HIDE DEF Later
    <3> QED  BY <1>1, <1>2, <1>5, <2>2, TimelineAssumption
  <2> QED  BY <1>3, <2>3
<1>6. ASSUME Cardinality(S) > Limit PROVE LastOf(S) # {}
  <2>1. S # {}
    BY <1>6, FS_EmptySet, TimelineAssumption
  <2>2. S \in SUBSET (0..n)
    OBVIOUS
  <2>3. PICK x \in S : \A y \in S : x >= y
    <3> HIDE DEF Later
    <3> QED  BY <2>1, <2>2, GreatestExists
  <2>4. \A y \in S : y \in Nat /\ ~(y > x)
    BY <2>3
  <2>5. Later(x) = {}
    BY <2>4
  <2>6. Cardinality(Later(x)) = 0
    BY <2>5, FS_EmptySet
  <2> QED  BY <1>3, <2>6, TimelineAssumption
<1> QED  BY <1>3, <1>4, <1>5, <1>6

-----------------------------------------------------------------------------
(* The invariant. *)

\* A page that was read speaks for the messages there were when it was asked
\* for (up to upTo), from its oldest on, or altogether if it is the last one:
\* what isn't on it is deleted.
Speaks(a) ==
  /\ \A m \in (1..a.upTo) \ DOMAIN a.page :
       ~a.more \/ (\E k \in DOMAIN a.page : k <= m) => m \in deleted
  /\ a.more => DOMAIN a.page # {}

\* A request knows of nothing that wasn't posted.
GoodAsk ==
  {a \in Ask : /\ a.upTo \in 0..posted /\ DOMAIN a.page \subseteq 1..posted
               /\ a.read /\ a.kind # "older" => Speaks(a)}

\* What a push tells was done.
Told(e) ==
  /\ e \in {"post", "edit", "delete"} \X (1..posted)
  /\ e[1] = "delete" => e[2] \in deleted

IInv ==
  /\ posted \in 0..MaxPosts /\ deleted \subseteq 1..posted
  /\ held \in Pages /\ DOMAIN held \subseteq 1..posted
  /\ cached.run \in Pages /\ DOMAIN cached.run \subseteq 1..posted
  /\ latest \in 0..MaxPosts /\ baseline \in 0..MaxPosts
  /\ \A e \in events : Told(e)
  /\ asks \in Seq(GoodAsk)

\* Time only adds to what Slack gave out and took back.
LEMMA StillGood ==
  ASSUME IInv, posted' \in Nat, posted <= posted', deleted \subseteq deleted'
  PROVE  \A a \in GoodAsk : a \in GoodAsk'
<1> SUFFICES ASSUME NEW a \in GoodAsk PROVE a \in GoodAsk'
  OBVIOUS
<1>1. a \in Ask /\ a.upTo \in 0..posted' /\ DOMAIN a.page \subseteq 1..posted'
  BY DEF IInv, GoodAsk
<1>2. a.read /\ a.kind # "older" => Speaks(a)'
  BY DEF GoodAsk, Speaks
<1> QED  BY <1>1, <1>2 DEF GoodAsk

\* Whoever asks knows what it holds.
LEMMA CallIs ==
  ASSUME IInv, UNCHANGED slack, NEW kind \in Polls \union {"older", "head"},
         NEW known \in 0..MaxPosts, NEW upTo \in 0..posted, Call(kind, known, upTo)
  PROVE  asks' \in Seq(GoodAsk')
<1> DEFINE a == [kind |-> kind, known |-> known, upTo |-> upTo,
                 read |-> FALSE, page |-> Nothing, more |-> FALSE]
<1>1. Nothing \in Pages /\ DOMAIN Nothing = {}
  BY PageIs DEF Nothing
<1>2. a \in Ask
  BY <1>1, TimelineAssumption DEF IInv, Ask
<1>3. a \in GoodAsk
  BY <1>1, <1>2 DEF GoodAsk
<1>4. asks \in Seq(GoodAsk) /\ asks' = Append(asks, a)
  BY DEF IInv, Call
<1> HIDE DEF a
<1>5. GoodAsk' = GoodAsk
  BY DEF slack, GoodAsk, Speaks
<1> QED  BY <1>3, <1>4, <1>5

\* What Slack answers speaks for what it read.
LEMMA ReadIs ==
  ASSUME IInv, NEW i \in DOMAIN asks, SlackReads(i)
  PROVE  asks' \in Seq(GoodAsk')
<1> DEFINE a == asks[i]
           S == Below(IF a.kind = "older" THEN a.upTo ELSE 0)
           b == [a EXCEPT !.read = TRUE, !.page = PageOf(S), !.more = Cardinality(S) > Limit]
<1>1. a \in GoodAsk /\ asks \in Seq(GoodAsk)
  BY DEF IInv
<1>2. S \in SUBSET (1..posted) /\ posted \in Nat
  BY DEF IInv, Below, Live
<1>3. a.kind # "older" => S = Live
  BY DEF Below
<1>4. asks' = [asks EXCEPT ![i] = b]
  BY DEF SlackReads
<1> HIDE DEF S
<1>5. /\ LastOf(S) \subseteq S
      /\ \A m \in S, k \in LastOf(S) : k <= m => m \in LastOf(S)
      /\ Cardinality(S) <= Limit => LastOf(S) = S
      /\ Cardinality(S) > Limit => LastOf(S) # {}
  BY <1>2, LastOfIs
<1>6. DOMAIN PageOf(S) = LastOf(S) /\ PageOf(S) \in Pages
  <2>1. LastOf(S) \subseteq Ts
    <3>1. 1..posted \subseteq 1..MaxPosts
      BY TimelineAssumption DEF IInv
    <3> QED  BY <1>2, <1>5, <3>1 DEF Ts
  <2>2. PageOf(S) \in [LastOf(S) -> BOOLEAN]
    <3>1. \A m \in LastOf(S) : (m \in edited) \in BOOLEAN
      OBVIOUS
    <3> QED  BY <3>1, Zenon DEF PageOf
  <2> QED  BY <2>1, <2>2, PageIs
<1>7. Cardinality(S) \in Nat
  <2>1. IsFiniteSet(1..posted)
    BY <1>2, FS_Interval
  <2> QED  BY <1>2, <2>1, FS_Subset, FS_CardinalityType
<1>8. /\ b \in Ask /\ b.upTo = a.upTo /\ b.kind = a.kind
      /\ b.page = PageOf(S) /\ b.more = (Cardinality(S) > Limit)
  <2>1. a \in Ask
    BY <1>1 DEF GoodAsk
  <2> DEFINE page == PageOf(S)
             more == Cardinality(S) > Limit
  <2>2. page \in Pages /\ more \in BOOLEAN
    BY <1>6
  <2>3. b = [a EXCEPT !.read = TRUE, !.page = page, !.more = more]
    OBVIOUS
  <2> HIDE DEF page, more, b
  <2>4. b \in Ask /\ b.upTo = a.upTo /\ b.kind = a.kind /\ b.page = page /\ b.more = more
    BY <2>1, <2>2, <2>3 DEF Ask
  <2> QED  BY <2>4 DEF page, more
<1> HIDE DEF b
<1>9. b.kind # "older" => Speaks(b)
  <2> SUFFICES ASSUME b.kind # "older" PROVE Speaks(b)
    OBVIOUS
  <2>1. S = Live
    BY <1>3, <1>8
  <2>2. ASSUME NEW m \in (1..b.upTo) \ DOMAIN b.page,
               ~b.more \/ (\E k \in DOMAIN b.page : k <= m), m \notin deleted
        PROVE  FALSE
    <3>1. m \in 1..posted
      BY <1>1, <1>2, <1>8 DEF GoodAsk
    <3>2. m \in S
      BY <2>1, <2>2, <3>1 DEF Live
    <3>3. m \notin LastOf(S)
      BY <1>6, <1>8
    <3>4. CASE ~b.more
      <4>1. Cardinality(S) <= Limit
        <5>1. ~(Cardinality(S) > Limit)
          BY <1>8, <3>4, Zenon
        <5> QED  BY <1>7, <5>1, TimelineAssumption
      <4> QED  BY <1>5, <3>2, <3>3, <4>1
    <3>5. CASE \E k \in DOMAIN b.page : k <= m
      BY <1>5, <1>6, <1>8, <3>2, <3>3, <3>5
    <3> QED  BY <2>2, <3>4, <3>5
  <2>3. b.more => DOMAIN b.page # {}
    BY <1>5, <1>6, <1>8
  <2> QED  BY <2>2, <2>3 DEF Speaks
<1>10. b \in GoodAsk
  BY <1>1, <1>2, <1>5, <1>6, <1>8, <1>9 DEF GoodAsk
<1>11. GoodAsk' = GoodAsk
  BY DEF SlackReads, GoodAsk, Speaks
<1> QED  BY <1>1, <1>4, <1>10, <1>11

\* A request answered leaves the others as good, outrun or not.
LEMMA AnsweredIs ==
  ASSUME IInv, UNCHANGED slack, NEW i \in DOMAIN asks,
         asks' = RemoveAt(asks, i) \/ asks' = RemoveAt(Outrun(i), i)
  PROVE  asks' \in Seq(GoodAsk') /\ Len(asks') <= Len(asks)
<1>1. GoodAsk' = GoodAsk /\ asks \in Seq(GoodAsk)
  BY DEF IInv, slack, GoodAsk, Speaks
<1>2. Outrun(i) \in Seq(GoodAsk) /\ DOMAIN Outrun(i) = DOMAIN asks /\ Len(Outrun(i)) = Len(asks)
  <2>1. Ignored \in GoodAsk
    <3>1. Nothing \in Pages /\ DOMAIN Nothing = {}
      BY PageIs DEF Nothing
    <3>2. Ignored \in Ask /\ Ignored.page = Nothing /\ Ignored.upTo = 0 /\ ~Ignored.more
      BY <3>1, TimelineAssumption DEF Ignored, Ask
    <3>3. Speaks(Ignored)
      BY <3>2 DEF Speaks
    <3> QED  BY <3>1, <3>2, <3>3 DEF IInv, GoodAsk
  <2>2. \A j \in DOMAIN asks : asks[j] \in GoodAsk
    BY <1>1
  <2>3. /\ Outrun(i) = [j \in DOMAIN asks |-> Outrun(i)[j]]
        /\ \A j \in DOMAIN asks : Outrun(i)[j] \in GoodAsk
    BY <2>1, <2>2 DEF Outrun
  <2>4. DOMAIN asks = 1..Len(asks) /\ Len(asks) \in Nat
    BY <1>1
  <2>5. Outrun(i) \in [1..Len(asks) -> GoodAsk]
    BY <2>3, <2>4
  <2> QED  BY <2>4, <2>5
<1> QED  BY <1>1, <1>2, RemoveAtIs

\* The list stays one of messages posted, `latest` moves within the bound.
LEMMA KeepIs ==
  ASSUME IInv, NEW list \in Pages, DOMAIN list \subseteq 1..posted, Keep(list)
  PROVE  held' = list /\ latest' \in 0..MaxPosts
<1>1. DOMAIN list \in SUBSET (1..MaxPosts)
  BY TimelineAssumption DEF IInv
<1>2. Newest(DOMAIN list) \in 0..MaxPosts
  BY <1>1, NewestIs, TimelineAssumption
<1> QED  BY <1>2, LaterIs, TimelineAssumption DEF IInv, Keep

\* What a poll injects is on its page.
LEMMA InjectedIs ==
  ASSUME NEW a, a.page \in Pages
  PROVE  Injected(a) \in Pages /\ DOMAIN Injected(a) \subseteq DOMAIN a.page
<1> DEFINE S == {m \in DOMAIN a.page : a.known # 0 /\ m > a.known /\ m \notin DOMAIN held}
<1>1. S \in SUBSET DOMAIN a.page
  OBVIOUS
<1>2. Injected(a) = Restrict(a.page, S)
  BY DEF Injected
<1> HIDE DEF S
<1> QED  BY <1>1, <1>2, RestrictIs

\* The open chat's list, with a page merged in and some of it gone.
LEMMA PutIs ==
  ASSUME IInv, NEW page \in Pages, NEW list \in Pages, NEW gone,
         DOMAIN page \subseteq 1..posted, DOMAIN list \subseteq 1..posted
  PROVE  /\ Merged(page, Restrict(list, DOMAIN list \ gone)) \in Pages
         /\ DOMAIN Merged(page, Restrict(list, DOMAIN list \ gone)) \subseteq 1..posted
<1>1. DOMAIN list \ gone \in SUBSET DOMAIN list
  OBVIOUS
<1>2. /\ Restrict(list, DOMAIN list \ gone) \in Pages
      /\ DOMAIN Restrict(list, DOMAIN list \ gone) = DOMAIN list \ gone
  BY <1>1, RestrictIs
<1> QED  BY <1>2, MergedIs

\* The request of an answer.
LEMMA AskIs ==
  ASSUME IInv, NEW i \in DOMAIN asks
  PROVE  /\ asks[i] \in GoodAsk /\ asks[i].page \in Pages
         /\ DOMAIN asks[i].page \subseteq 1..posted
         /\ DOMAIN asks[i].page \subseteq 1..MaxPosts
<1>1. asks[i] \in GoodAsk
  BY DEF IInv
<1> QED  BY <1>1, TimelineAssumption DEF IInv, GoodAsk, Ask

\* A poll applied keeps the list, its `latest` and its baseline in their types.
LEMMA ApplyPollIs ==
  ASSUME IInv, NEW i \in DOMAIN asks, ApplyPoll(i)
  PROVE  /\ held' \in Pages /\ DOMAIN held' \subseteq 1..posted
         /\ latest' \in 0..MaxPosts /\ baseline' \in 0..MaxPosts
<1> DEFINE a == asks[i]
           list == Merged(Injected(a), held)
<1>1. /\ a.page \in Pages /\ DOMAIN a.page \subseteq 1..posted
      /\ DOMAIN a.page \subseteq 1..MaxPosts
  BY AskIs
<1>2. list \in Pages /\ DOMAIN list \subseteq 1..posted
  BY <1>1, InjectedIs, MergedIs DEF IInv
<1>3. baseline' \in 0..MaxPosts
  <2>1. Newest(DOMAIN a.page) \in 0..MaxPosts
    BY <1>1, NewestIs, TimelineAssumption
  <2> QED  BY <2>1 DEF ApplyPoll, IInv
<1>4. CASE Keep(list)
  <2> HIDE DEF list
  <2> QED  BY <1>2, <1>3, <1>4, KeepIs
<1>5. CASE Keep(Merged(a.page, Restrict(list, DOMAIN list \ GoneFrom(a, list))))
  <2> DEFINE gone == GoneFrom(a, list)
             out == Merged(a.page, Restrict(list, DOMAIN list \ gone))
  <2>1. Keep(out)
    BY <1>5
  <2> HIDE DEF a, list, gone
  <2>2. out \in Pages /\ DOMAIN out \subseteq 1..posted
    BY <1>1, <1>2, PutIs
  <2> HIDE DEF out
  <2> QED  BY <1>3, <2>1, <2>2, KeepIs
<1> QED  BY <1>4, <1>5 DEF ApplyPoll

\* A head page applied, too.
LEMMA ApplyHeadIs ==
  ASSUME IInv, NEW i \in DOMAIN asks, ApplyHead(i)
  PROVE  /\ held' \in Pages /\ DOMAIN held' \subseteq 1..posted
         /\ latest' \in 0..MaxPosts /\ baseline' \in 0..MaxPosts
<1> DEFINE a == asks[i]
<1>1. /\ a.page \in Pages /\ DOMAIN a.page \subseteq 1..posted
      /\ DOMAIN a.page \subseteq 1..MaxPosts
  BY AskIs
<1>2. Newest(DOMAIN a.page) \in 0..MaxPosts
  BY <1>1, NewestIs, TimelineAssumption
<1>3. baseline' \in 0..MaxPosts
  BY <1>2, LaterIs, TimelineAssumption DEF ApplyHead, IInv
<1>4. Keep(Merged(a.page, Restrict(held, DOMAIN held \ GoneFromCache(a))))
  BY DEF ApplyHead
<1> DEFINE gone == GoneFromCache(a)
           out == Merged(a.page, Restrict(held, DOMAIN held \ gone))
<1>5. Keep(out)
  BY <1>4
<1> HIDE DEF a, gone
<1>6. held \in Pages /\ DOMAIN held \subseteq 1..posted
  BY DEF IInv
<1>7. out \in Pages /\ DOMAIN out \subseteq 1..posted
  BY <1>1, <1>6, PutIs
<1> HIDE DEF out
<1> QED  BY <1>3, <1>5, <1>7, KeepIs

\* Every step keeps the invariant.
LEMMA IInvStep == IInv /\ [Next]_vars => IInv'
<1> SUFFICES ASSUME IInv, [Next]_vars PROVE IInv'
  OBVIOUS
<1>0. posted \in 0..MaxPosts /\ MaxPosts \in Nat /\ held \in Pages /\ cached.run \in Pages
      /\ DOMAIN held \subseteq 1..posted /\ DOMAIN cached.run \subseteq 1..posted
      /\ asks \in Seq(GoodAsk)
  BY TimelineAssumption DEF IInv
<1>1. CASE Post
  <2>1. posted' \in 0..MaxPosts /\ posted <= posted' /\ 1..posted \subseteq 1..posted'
        /\ posted' \in 1..posted'
    BY <1>0, <1>1 DEF Post
  <2>2. asks' \in Seq(GoodAsk')
    BY <1>0, <1>1, <2>1, StillGood, WiderSeq DEF Post
  <2>3. \A e \in events' : Told(e)'
    <3> SUFFICES ASSUME NEW e \in events \union {<<"post", posted'>>}
                 PROVE  Told(e)'
      BY <1>1 DEF Post, Push
    <3>1. CASE e \in events
      <4>1. Told(e)
        BY <3>1 DEF IInv
      <4> QED  BY <1>1, <2>1, <4>1 DEF Told, Post
    <3>2. CASE e = <<"post", posted'>>
      BY <2>1, <3>2 DEF Told
    <3> QED  BY <3>1, <3>2
  <2> QED  BY <1>1, <2>1, <2>2, <2>3 DEF IInv, Post
<1>2. ASSUME NEW m \in Ts, Delete(m) PROVE IInv'
  <2>1. m \in 1..posted
    BY <1>2 DEF Delete, Live
  <2>2. asks' \in Seq(GoodAsk')
    BY <1>0, <1>2, StillGood, WiderSeq DEF Delete
  <2>3. \A e \in events' : Told(e)'
    BY <1>2, <2>1 DEF IInv, Told, Delete, Push
  <2> QED  BY <1>2, <2>1, <2>2, <2>3 DEF IInv, Delete
<1>3. ASSUME NEW m \in Ts, Edit(m) PROVE IInv'
  <2>1. m \in 1..posted
    BY <1>3 DEF Edit, Live
  <2>2. asks' \in Seq(GoodAsk')
    BY <1>0, <1>3, StillGood, WiderSeq DEF Edit
  <2>3. \A e \in events' : Told(e)'
    BY <1>3, <2>1 DEF IInv, Told, Edit, Push
  <2> QED  BY <1>3, <2>1, <2>2, <2>3 DEF IInv, Edit
<1>4. ASSUME UNCHANGED <<slack, asks>> PROVE asks' \in Seq(GoodAsk')
  BY <1>0, <1>4 DEF slack, GoodAsk, Speaks
<1>5. ASSUME NEW e \in events, NEW again \in BOOLEAN, Deliver(e, again) PROVE IInv'
  <2>0. e[1] \in {"post", "edit", "delete"} /\ e[2] \in 1..posted
    <3>1. Told(e)
      BY <1>5 DEF IInv
    <3> QED  BY <3>1 DEF Told
  <2>1. e[2] \in 1..posted /\ e[2] \in Ts
    BY <1>0, <2>0 DEF Ts
  <2>2. held' \in Pages /\ DOMAIN held' \subseteq 1..posted /\ latest' \in 0..MaxPosts
    <3>1. CASE UNCHANGED <<held, latest>>
      BY <1>0, <3>1 DEF IInv
    <3>2. CASE Keep(Merged([m \in {e[2]} |-> FALSE], held))
      <4>1. [m \in {e[2]} |-> FALSE] \in Pages
        BY <2>1, PageIs
      <4>2. /\ Merged([m \in {e[2]} |-> FALSE], held) \in Pages
            /\ DOMAIN Merged([m \in {e[2]} |-> FALSE], held) = {e[2]} \union DOMAIN held
        BY <1>0, <4>1, MergedIs
      <4> QED  BY <1>0, <2>1, <3>2, <4>2, KeepIs
    <3>3. CASE held' = [m \in DOMAIN held |-> held[m] \/ m = e[2]] /\ UNCHANGED latest
      <4>1. \A m \in DOMAIN held : (held[m] \/ m = e[2]) \in BOOLEAN
        OBVIOUS
      <4>2. DOMAIN held' = DOMAIN held /\ held' \in [DOMAIN held -> BOOLEAN]
        BY <3>3, <4>1, Zenon
      <4>3. held' \in Pages
        BY <1>0, <4>2, PageIs
      <4> QED  BY <1>0, <3>3, <4>2, <4>3 DEF IInv
    <3>4. CASE held' = Restrict(held, DOMAIN held \ {e[2]}) /\ UNCHANGED latest
      BY <1>0, <3>4, RestrictIs DEF IInv
    <3> QED  BY <1>5, <2>0, <3>1, <3>2, <3>3, <3>4 DEF Deliver, OnMessage
  <2>3. UNCHANGED <<slack, asks, cached, baseline>> /\ events' \subseteq events
    BY <1>5 DEF Deliver
  <2> QED  BY <1>4, <2>2, <2>3 DEF IInv, Told, slack
<1>6. CASE Open
  <2>1. Merged(cached.run, held) \in Pages /\ DOMAIN Merged(cached.run, held) \subseteq 1..posted
    BY <1>0, MergedIs
  <2>2. held' = Merged(cached.run, held) /\ latest' \in 0..MaxPosts
    BY <1>6, <2>1, KeepIs DEF Open
  <2>3. cached'.run = Nothing /\ Nothing \in Pages /\ DOMAIN Nothing = {}
    BY <1>6, PageIs DEF Open, Nothing
  <2>4. asks' \in Seq(GoodAsk')
    <3>1. Newest(DOMAIN cached.run) \in 0..posted
      BY <1>0, NewestIs
    <3>2. UNCHANGED slack
      BY <1>6 DEF Open
    <3>3. CASE UNCHANGED asks
      BY <1>4, <3>2, <3>3
    <3>4. CASE Call("head", 0, Newest(DOMAIN cached.run))
      <4>1. 0 \in 0..MaxPosts /\ "head" \in Polls \union {"older", "head"}
        BY <1>0
      <4> QED  BY <3>1, <3>2, <3>4, <4>1, CallIs
    <3> QED  BY <1>6, <3>3, <3>4 DEF Open
  <2> QED  BY <1>6, <2>1, <2>2, <2>3, <2>4 DEF IInv, Told, Open, slack
<1>7. CASE Close
  BY <1>4, <1>7 DEF IInv, Told, Close, slack
<1>8. ASSUME NEW hint \in 0..latest, PollConversation(hint) PROVE IInv'
  <2> DEFINE lastKnown == IF baseline # 0 THEN baseline ELSE IF hint # 0 THEN hint ELSE latest
             kind == IF isOpen THEN "front" ELSE "back"
  <2>1. lastKnown \in 0..MaxPosts /\ kind \in Polls
    BY <1>0 DEF IInv, Polls
  <2>2. Newest(DOMAIN held) \in 0..posted
    BY <1>0, NewestIs
  <2>3. Call(kind, lastKnown, Newest(DOMAIN held)) /\ UNCHANGED slack
    BY <1>8 DEF PollConversation
  <2> HIDE DEF lastKnown, kind
  <2>4. asks' \in Seq(GoodAsk')
    BY <2>1, <2>2, <2>3, CallIs
  <2> QED  BY <1>8, <2>4 DEF IInv, Told, PollConversation, slack
<1>9. CASE LoadOlder
  <2> DEFINE before == IF held = Nothing THEN 0 ELSE Min(DOMAIN held)
  <2>1. before \in 0..posted
    <3>1. CASE held # Nothing
      <4>1. DOMAIN held # {} /\ DOMAIN held \in SUBSET Nat
        <5>1. DOMAIN held # {}
          BY <1>0, <3>1, NothingIs, Zenon
        <5> QED  BY <1>0, <5>1
      <4>2. Min(DOMAIN held) \in DOMAIN held
        BY <4>1, MinIs
      <4> QED  BY <1>0, <3>1, <4>2
    <3> QED  BY <1>0, <3>1
  <2>2. Call("older", 0, before) /\ UNCHANGED slack
    BY <1>9 DEF LoadOlder
  <2> HIDE DEF before
  <2>3. asks' \in Seq(GoodAsk')
    <3>1. 0 \in 0..MaxPosts /\ "older" \in Polls \union {"older", "head"}
      BY <1>0
    <3> QED  BY <2>1, <2>2, <3>1, CallIs
  <2> QED  BY <1>9, <2>3 DEF IInv, Told, LoadOlder, slack
<1>10. ASSUME NEW i \in DOMAIN asks, SlackReads(i) PROVE IInv'
  BY <1>10, ReadIs DEF IInv, Told, SlackReads
<1>11. ASSUME NEW i \in DOMAIN asks, Fail(i) \/ DropPoll(i) PROVE IInv'
  <2>1. asks' \in Seq(GoodAsk')
    BY <1>11, AnsweredIs DEF Fail, DropPoll
  <2> QED  BY <1>11, <2>1 DEF IInv, Told, Fail, DropPoll, slack
<1>12. ASSUME NEW i \in DOMAIN asks, ApplyPoll(i) PROVE IInv'
  <2>1. asks' \in Seq(GoodAsk')
    BY <1>12, AnsweredIs DEF ApplyPoll
  <2> QED  BY <1>12, <2>1, ApplyPollIs DEF IInv, Told, ApplyPoll, slack
<1>13. ASSUME NEW i \in DOMAIN asks, ApplyHead(i) PROVE IInv'
  <2>1. asks' \in Seq(GoodAsk')
    BY <1>13, AnsweredIs DEF ApplyHead
  <2> QED  BY <1>13, <2>1, ApplyHeadIs DEF IInv, Told, ApplyHead, slack
<1>14. ASSUME NEW i \in DOMAIN asks, ApplyOlder(i) PROVE IInv'
  <2>1. asks' \in Seq(GoodAsk')
    BY <1>14, AnsweredIs DEF ApplyOlder
  <2>2. /\ Merged(asks[i].page, held) \in Pages
        /\ DOMAIN Merged(asks[i].page, held) \subseteq 1..posted
    <3>1. asks[i].page \in Pages /\ DOMAIN asks[i].page \subseteq 1..posted
      BY AskIs
    <3> QED  BY <1>0, <3>1, MergedIs
  <2>3. held' = Merged(asks[i].page, held) /\ latest' \in 0..MaxPosts
    BY <1>14, <2>2, KeepIs DEF ApplyOlder
  <2> QED  BY <1>14, <2>1, <2>2, <2>3 DEF IInv, Told, ApplyOlder, slack
<1>15. CASE UNCHANGED vars
  BY <1>4, <1>15 DEF IInv, Told, vars, slack
<1> QED
  BY <1>1, <1>2, <1>3, <1>5, <1>6, <1>7, <1>8, <1>9, <1>10, <1>11, <1>12, <1>13, <1>14, <1>15
  DEF Next, Answer

\* The invariant, in every reachable state.
THEOREM Invariant == Spec => []IInv
<1>1. Init => IInv
  <2> SUFFICES ASSUME Init PROVE IInv
    OBVIOUS
  <2>1. Nothing \in Pages /\ DOMAIN Nothing = {}
    BY PageIs DEF Nothing
  <2>2. PICK from \in 1..Start + 1 : cached.run = [m \in from..Start |-> FALSE]
    BY DEF Init
  <2>3. from..Start \subseteq 1..Start /\ 1..Start \subseteq Ts
    BY TimelineAssumption DEF Ts
  <2>4. cached.run \in Pages /\ DOMAIN cached.run = from..Start
    BY <2>2, <2>3, PageIs
  <2>5. asks \in Seq(GoodAsk) /\ posted = Start
    BY DEF Init
  <2>6. posted \in 0..MaxPosts /\ latest \in 0..MaxPosts /\ baseline \in 0..MaxPosts
    BY TimelineAssumption DEF Init
  <2> QED  BY <2>1, <2>3, <2>4, <2>5, <2>6 DEF Init, IInv
<1> QED  BY <1>1, IInvStep, PTL DEF Spec

-----------------------------------------------------------------------------
(* Type correctness. *)

\* Every variable has its type, through pages, pushes and polls outrun.
THEOREM TypeCorrect == Spec => []TypeOK
<1> DEFINE Rest == /\ posted \in Start..MaxPosts /\ edited \subseteq Ts
                   /\ hasMoreBefore \in BOOLEAN /\ isOpen \in BOOLEAN /\ loading \in BOOLEAN
                   /\ Len(asks) <= MaxOut /\ cached.more \in BOOLEAN
                   /\ failures \in 0..MaxFailures
<1>1. Init => Rest
  <2> SUFFICES ASSUME Init PROVE Rest
    OBVIOUS
  <2>1. cached.more \in BOOLEAN
    <3>1. PICK from \in 1..Start + 1 : cached.more = (from # 1 \/ Start = 0)
      BY DEF Init
    <3> QED  BY <3>1
  <2>2. Len(asks) <= MaxOut
    BY TimelineAssumption DEF Init
  <2>3. posted \in Start..MaxPosts /\ failures \in 0..MaxFailures
    BY TimelineAssumption DEF Init
  <2> QED  BY <2>1, <2>2, <2>3 DEF Init
<1>2. IInv /\ Rest /\ [Next]_vars => Rest'
  <2> SUFFICES ASSUME IInv, Rest, [Next]_vars PROVE Rest'
    OBVIOUS
  <2>0. asks \in Seq(GoodAsk)
    BY DEF IInv
  <2>1. CASE Post
    BY <2>1, TimelineAssumption DEF Post
  <2>2. ASSUME NEW m \in Ts, Delete(m) \/ Edit(m) PROVE Rest'
    BY <2>2 DEF Delete, Edit, Ts
  <2>3. ASSUME NEW e \in events, NEW again \in BOOLEAN, Deliver(e, again) PROVE Rest'
    BY <2>3 DEF Deliver, slack
  <2>4. ASSUME NEW kind, NEW known, NEW upTo, Call(kind, known, upTo), Len(asks) < MaxOut
        PROVE  Len(asks') <= MaxOut
    BY <2>0, <2>4, TimelineAssumption DEF Call
  <2>5. CASE Open
    <3>1. Len(asks') <= MaxOut
      BY <2>4, <2>5, TimelineAssumption DEF Open
    <3>2. hasMoreBefore' \in BOOLEAN /\ cached'.more \in BOOLEAN
      BY <2>5, Zenon DEF Open
    <3> QED  BY <2>5, <3>1, <3>2 DEF Open, slack
  <2>6. CASE Close
    BY <2>6 DEF Close, slack
  <2>7. ASSUME NEW hint \in 0..latest, PollConversation(hint) PROVE Rest'
    BY <2>4, <2>7 DEF PollConversation, slack
  <2>8. CASE LoadOlder
    BY <2>4, <2>8 DEF LoadOlder, slack
  <2>9. ASSUME NEW i \in DOMAIN asks, SlackReads(i) PROVE Rest'
    <3>1. Len(asks') = Len(asks)
      BY <2>0, <2>9 DEF SlackReads
    <3> QED  BY <2>9, <3>1 DEF SlackReads
  <2>10. ASSUME NEW i \in DOMAIN asks, Fail(i) \/ Answer(i) PROVE Rest'
    <3>1. Len(asks') <= Len(asks) /\ Len(asks') \in Nat
      <4>1. asks' = RemoveAt(asks, i) \/ asks' = RemoveAt(Outrun(i), i)
        BY <2>10 DEF Fail, Answer, ApplyPoll, DropPoll, ApplyHead, ApplyOlder
      <4>2. UNCHANGED slack
        BY <2>10 DEF Fail, Answer, ApplyPoll, DropPoll, ApplyHead, ApplyOlder
      <4> QED  BY <4>1, <4>2, AnsweredIs
    <3>2. Len(asks') <= MaxOut
      BY <2>0, <3>1, TimelineAssumption
    <3>3. asks[i].more \in BOOLEAN
      BY AskIs DEF GoodAsk, Ask
    <3>4. hasMoreBefore' \in BOOLEAN
      BY <2>10, <3>3 DEF Fail, Answer, ApplyPoll, DropPoll, ApplyHead, ApplyOlder
    <3>5. loading' \in BOOLEAN
      BY <2>10, Zenon DEF Fail, Answer, ApplyPoll, DropPoll, ApplyHead, ApplyOlder
    <3>6. failures' \in 0..MaxFailures
      BY <2>10, TimelineAssumption DEF Fail, Answer, ApplyPoll, DropPoll, ApplyHead, ApplyOlder
    <3>7. UNCHANGED <<posted, edited, isOpen, cached>>
      BY <2>10 DEF Fail, Answer, ApplyPoll, DropPoll, ApplyHead, ApplyOlder, slack
    <3> QED  BY <3>2, <3>4, <3>5, <3>6, <3>7
  <2>11. CASE UNCHANGED vars
    BY <2>11 DEF vars
  <2> QED
    BY <2>1, <2>2, <2>3, <2>5, <2>6, <2>7, <2>8, <2>9, <2>10, <2>11 DEF Next
<1>3. IInv /\ Rest => TypeOK
  <2> SUFFICES ASSUME IInv, Rest PROVE TypeOK
    OBVIOUS
  <2>1. 1..posted \subseteq Ts
    BY TimelineAssumption DEF IInv, Ts
  <2>2. events \subseteq {"post", "edit", "delete"} \X Ts
    BY <2>1 DEF IInv, Told
  <2>3. asks \in Seq(Ask)
    BY WiderSeq DEF IInv, GoodAsk
  <2> QED  BY <2>1, <2>2, <2>3 DEF IInv, TypeOK
<1> QED  BY <1>1, <1>2, <1>3, Invariant, PTL DEF Spec

-----------------------------------------------------------------------------
(* What vanishes. *)

\* A message that leaves the list was deleted, or belonged to a run cut loose.
Vanishes(m) ==
  \/ m \in deleted
  \/ hasMoreBefore' /\ \A k \in DOMAIN held' : m < k

\* The open chat's poll takes away what its page denies.
LEMMA PollVanishes ==
  ASSUME IInv, NEW i \in DOMAIN asks, ApplyPoll(i), NEW m \in DOMAIN held \ DOMAIN held'
  PROVE  m \in deleted
<1> DEFINE a == asks[i]
           list == Merged(Injected(a), held)
           gone == GoneFrom(a, list)
           out == Merged(a.page, Restrict(list, DOMAIN list \ gone))
<1>1. /\ a \in GoodAsk /\ a.page \in Pages /\ DOMAIN a.page \subseteq 1..posted
      /\ DOMAIN a.page \in SUBSET Nat
  BY AskIs DEF IInv
<1>2. held \in Pages /\ DOMAIN held \subseteq 1..posted
  BY DEF IInv
<1>3. /\ list \in Pages /\ DOMAIN list \subseteq 1..posted
      /\ DOMAIN held \subseteq DOMAIN list
  BY <1>1, <1>2, InjectedIs, MergedIs
<1>4. CASE Keep(list)
  BY <1>3, <1>4 DEF Keep
<1>5. CASE Keep(out) /\ a.page # Nothing
  <2>1. DOMAIN a.page # {}
    BY <1>1, <1>5, NothingIs, Zenon
  <2>2. Min(DOMAIN a.page) \in DOMAIN a.page
    BY <1>1, <2>1, MinIs
  <2>3. a.read /\ a.kind # "older"
    BY DEF ApplyPoll, Polls
  <2>4. m \in gone
    <3> HIDE DEF a, list, gone
    <3>1. DOMAIN out = DOMAIN a.page \union (DOMAIN list \ gone)
      <4> DEFINE rest == Restrict(list, DOMAIN list \ gone)
      <4>1. DOMAIN list \ gone \in SUBSET DOMAIN list
        OBVIOUS
      <4>2. rest \in Pages /\ DOMAIN rest = DOMAIN list \ gone
        BY <1>3, <4>1, RestrictIs
      <4>3. out = Merged(a.page, rest)
        OBVIOUS
      <4> HIDE DEF rest
      <4> QED  BY <1>1, <4>2, <4>3, MergedIs
    <3>2. held' = out
      BY <1>5 DEF Keep
    <3> HIDE DEF out
    <3> QED  BY <1>3, <3>1, <3>2
  <2>5. m >= Min(DOMAIN a.page) /\ m <= a.upTo /\ m \notin DOMAIN a.page
    BY <2>4 DEF GoneFrom
  <2>6. m \in (1..a.upTo) \ DOMAIN a.page
    BY <1>1, <1>2, <2>5 DEF IInv, GoodAsk
  <2>7. \E k \in DOMAIN a.page : k <= m
    BY <1>1, <2>2, <2>5
  <2>8. Speaks(a)
    BY <1>1, <2>3 DEF GoodAsk
  <2> HIDE DEF a
  <2> QED  BY <2>6, <2>7, <2>8 DEF Speaks
<1> QED  BY <1>4, <1>5 DEF ApplyPoll

\* The cached head's page takes away what it denies, and cuts loose what it
\* doesn't reach.
LEMMA HeadVanishes ==
  ASSUME IInv, NEW i \in DOMAIN asks, ApplyHead(i), NEW m \in DOMAIN held \ DOMAIN held'
  PROVE  Vanishes(m)
<1> DEFINE a == asks[i]
           gone == GoneFromCache(a)
           out == Merged(a.page, Restrict(held, DOMAIN held \ gone))
<1>1. /\ a \in GoodAsk /\ a.page \in Pages /\ DOMAIN a.page \subseteq 1..posted
      /\ DOMAIN a.page \in SUBSET Nat
  BY AskIs DEF IInv
<1>2. held \in Pages /\ DOMAIN held \subseteq 1..posted /\ posted \in Nat
  BY TimelineAssumption DEF IInv
<1>3. Speaks(a) /\ a.upTo \in Nat
  BY <1>1, <1>2 DEF GoodAsk, ApplyHead
<1>4. /\ held' = out
      /\ hasMoreBefore' = IF Cut(a) \/ ~a.more THEN a.more ELSE hasMoreBefore
  BY DEF ApplyHead, Keep
<1> HIDE DEF a
<1>5. DOMAIN held' = DOMAIN a.page \union (DOMAIN held \ gone)
  <2> HIDE DEF gone
  <2>1. DOMAIN out = DOMAIN a.page \union (DOMAIN held \ gone)
    <3> DEFINE rest == Restrict(held, DOMAIN held \ gone)
    <3>1. DOMAIN held \ gone \in SUBSET DOMAIN held
      OBVIOUS
    <3>2. rest \in Pages /\ DOMAIN rest = DOMAIN held \ gone
      BY <1>2, <3>1, RestrictIs
    <3>3. out = Merged(a.page, rest)
      OBVIOUS
    <3> HIDE DEF rest
    <3> QED  BY <1>1, <3>2, <3>3, MergedIs
  <2> QED  BY <1>4, <2>1
<1>6. m \in (1..a.upTo) \ DOMAIN a.page /\ (Cut(a) \/ ~a.more \/ m >= Min(DOMAIN a.page))
  BY <1>2, <1>3, <1>5 DEF GoneFromCache
<1>7. CASE ~a.more \/ \E k \in DOMAIN a.page : k <= m
  <2>1. m \in deleted
    BY <1>3, <1>6, <1>7 DEF Speaks
  <2> QED  BY <2>1 DEF Vanishes
<1>8. CASE a.more /\ ~Cut(a)
  <2>1. Min(DOMAIN a.page) \in DOMAIN a.page
    BY <1>1, <1>3, <1>8, MinIs DEF Speaks
  <2>2. \E k \in DOMAIN a.page : k <= m
    BY <1>1, <1>6, <1>8, <2>1
  <2> QED  BY <1>7, <2>2
<1>9. CASE a.more /\ Cut(a) /\ ~ \E k \in DOMAIN a.page : k <= m
  <2>1. hasMoreBefore'
    BY <1>4, <1>9
  <2>2. ASSUME NEW k \in DOMAIN held' PROVE m < k
    <3>1. CASE k \in DOMAIN a.page
      BY <1>1, <1>6, <1>9, <3>1
    <3>2. CASE k \in DOMAIN held \ gone /\ k \notin DOMAIN a.page
      <4>1. ~(k <= a.upTo)
        BY <1>9, <3>2 DEF GoneFromCache
      <4> QED  BY <1>2, <1>3, <1>6, <3>2, <4>1
    <3> QED  BY <1>5, <2>2, <3>1, <3>2
  <2> QED  BY <2>1, <2>2 DEF Vanishes
<1> QED  BY <1>7, <1>8, <1>9

\* Only what Slack deleted, or cut loose, vanishes: for pages of any length,
\* any number of messages, requests and changes, and any order of them.
THEOREM OnlyDeletedVanishHolds == Spec => OnlyDeletedVanish
<1>1. ASSUME IInv, Next, NEW m \in DOMAIN held \ DOMAIN held'
      PROVE  Vanishes(m)
  <2>1. ASSUME UNCHANGED held PROVE Vanishes(m)
    BY <1>1, <2>1
  <2>2. CASE Post \/ Close \/ LoadOlder \/ \E n \in Ts : Delete(n) \/ Edit(n)
    BY <2>1, <2>2 DEF Post, Close, LoadOlder, Delete, Edit
  <2>3. CASE Open
    BY <1>1, <2>3, MergedIs DEF IInv, Open, Keep
  <2>4. ASSUME NEW e \in events, NEW again \in BOOLEAN, Deliver(e, again)
        PROVE  Vanishes(m)
    <3>1. Told(e)
      BY <1>1 DEF IInv
    <3>2. CASE e[1] = "post"
      BY <1>1, <2>4, <3>2 DEF Deliver, OnMessage, Keep, Merged
    <3>3. CASE e[1] = "edit"
      BY <1>1, <2>4, <3>3 DEF Deliver, OnMessage
    <3>4. CASE e[1] = "delete"
      <4>1. held' = Restrict(held, DOMAIN held \ {e[2]})
        BY <2>4, <3>4 DEF Deliver, OnMessage
      <4>2. m = e[2]
        BY <1>1, <4>1 DEF Restrict
      <4>3. m \in deleted
        BY <3>1, <3>4, <4>2 DEF Told
      <4> QED  BY <4>3 DEF Vanishes
    <3> QED  BY <3>1, <3>2, <3>3, <3>4 DEF Told
  <2>5. ASSUME NEW hint \in 0..latest, PollConversation(hint) PROVE Vanishes(m)
    BY <2>1, <2>5 DEF PollConversation
  <2>6. ASSUME NEW i \in DOMAIN asks, SlackReads(i) \/ Fail(i) \/ DropPoll(i)
        PROVE  Vanishes(m)
    BY <2>1, <2>6 DEF SlackReads, Fail, DropPoll
  <2>7. ASSUME NEW i \in DOMAIN asks, ApplyOlder(i) PROVE Vanishes(m)
    BY <1>1, <2>7 DEF ApplyOlder, Keep, Merged
  <2>8. ASSUME NEW i \in DOMAIN asks, ApplyPoll(i) PROVE Vanishes(m)
    <3>1. m \in deleted
      BY <1>1, <2>8, PollVanishes
    <3> QED  BY <3>1 DEF Vanishes
  <2>9. ASSUME NEW i \in DOMAIN asks, ApplyHead(i) PROVE Vanishes(m)
    BY <1>1, <2>9, HeadVanishes
  <2> QED  BY <1>1, <2>2, <2>3, <2>4, <2>5, <2>6, <2>7, <2>8, <2>9 DEF Next, Answer
<1>2. IInv /\ [Next]_vars
        => [\A m \in DOMAIN held \ DOMAIN held' :
              \/ m \in deleted
              \/ hasMoreBefore' /\ \A k \in DOMAIN held' : m < k]_vars
  BY <1>1 DEF Vanishes
<1> QED  BY <1>2, Invariant, PTL DEF Spec, OnlyDeletedVanish
=============================================================================
