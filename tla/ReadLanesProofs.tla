---------------------------- MODULE ReadLanesProofs ----------------------------
(***************************************************************************)
(* ReadLanes' invariant: the count of interactive calls is right through     *)
(* every handler, so that the paced lane moves. The lemmas go through the    *)
(* handlers' parts (issue, pumpPaced, call, the answer) one after the other. *)
(***************************************************************************)
EXTENDS ReadLanes, FiniteSetTheorems, SequenceTheorems, TLAPS

-----------------------------------------------------------------------------
(* The lanes' state, as the handlers pass it on. *)

Place == {"new", "queued", "joined", "between", "done"} \union Unanswered

LanesState ==
  [at : [Calls -> Place], paced : Seq(Background), joined : [Calls -> SUBSET Background],
   busy : BOOLEAN, pending : Int, later : SUBSET Listing]

\* The interactive calls unanswered.
Held(l) == {c \in Normal : l.at[c] \in Unanswered}

\* Calls are where their place says: the queued in the queue, once, and two of
\* them are the same only as pages of a listing.
Queued(l) ==
  /\ IsInjective(l.paced)
  /\ \A i \in DOMAIN l.paced : l.at[l.paced[i]] = "queued"
  /\ \A c \in Calls : l.at[c] = "queued" => \E i \in DOMAIN l.paced : l.paced[i] = c
  /\ \A i, j \in DOMAIN l.paced :
       Key[l.paced[i]] = Key[l.paced[j]] /\ {l.paced[i], l.paced[j]} \intersect l.later = {} => i = j

\* The joined are with one other, which is on its way to an answer.
Joined(l) ==
  /\ \A q \in Calls : \A d \in l.joined[q] :
       l.at[d] = "joined" /\ \A r \in Calls : d \in l.joined[r] => r = q
  /\ \A d \in Calls : l.at[d] = "joined" => \E q \in Calls : d \in l.joined[q]
  /\ \A q \in Calls : l.joined[q] # {} => q \in Background /\ l.at[q] \notin {"new", "joined", "done"}

Placed(l) == Queued(l) /\ Joined(l)

\* Well formed, all but c's place: c is on its way from one to another, and
\* no longer counted.
Apart(l, c) ==
  /\ l \in LanesState /\ Placed(l)
  /\ l.at[c] \notin {"queued", "joined"}
  /\ l.pending = Cardinality(Held(l) \ {c})

Good(l) == l \in LanesState /\ Placed(l) /\ l.pending = Cardinality(Held(l))

Moves(l) == l.paced = <<>> \/ l.pending > 0 \/ l.busy

-----------------------------------------------------------------------------
(* Counting. *)

\* The interactive calls unanswered are finitely many.
LEMMA HeldFinite == ASSUME NEW l PROVE IsFiniteSet(Held(l)) /\ Cardinality(Held(l)) \in Nat
<1>1. Held(l) \subseteq Calls
  BY DEF Held, Normal
<1> QED  BY <1>1, LanesAssumption, FS_Subset, FS_CardinalityType

\* One more, one less.
LEMMA HeldLess ==
  ASSUME NEW l, NEW c \in Held(l)
  PROVE  Cardinality(Held(l) \ {c}) = Cardinality(Held(l)) - 1 /\ Cardinality(Held(l)) > 0
<1>1. Cardinality(Held(l) \ {c}) = Cardinality(Held(l)) - 1
  BY HeldFinite, FS_RemoveElement
<1>2. Cardinality(Held(l)) # 0
  BY HeldFinite, FS_EmptySet
<1> QED  BY <1>1, <1>2, HeldFinite

\* Where nothing interactive is left or comes out, the count stays.
LEMMA SameHeld ==
  ASSUME NEW l, NEW m, \A c \in Normal : m.at[c] \in Unanswered <=> l.at[c] \in Unanswered
  PROVE  Held(m) = Held(l)
  BY DEF Held

-----------------------------------------------------------------------------
(* issue. *)

\* issue puts its call out, or on hold, and touches nothing else.
LEMMA IssueDoes ==
  ASSUME NEW l \in LanesState, NEW c \in Calls
  PROVE  /\ Issue(l, c) \in LanesState
         /\ Issue(l, c).at[c] \in Unanswered
         /\ \A d \in Calls : d # c => Issue(l, c).at[d] = l.at[d]
         /\ Issue(l, c).paced = l.paced /\ Issue(l, c).joined = l.joined
         /\ Issue(l, c).busy = l.busy /\ Issue(l, c).pending = l.pending
         /\ Issue(l, c).later = l.later
  BY DEF Issue, LanesState, Place, Unanswered

-----------------------------------------------------------------------------
(* pumpPaced. *)

\* pumpPaced leaves the interactive calls alone and the lane moving.
LEMMA PumpDoes ==
  ASSUME NEW l, Good(l)
  PROVE  /\ Good(Pump(l)) /\ Moves(Pump(l))
         /\ \A d \in Calls : l.at[d] # "queued" => Pump(l).at[d] = l.at[d]
<1>1. CASE l.busy \/ l.paced = <<>> \/ l.pending > 0
  BY <1>1 DEF Pump, Moves
<1>2. CASE ~(l.busy \/ l.paced = <<>> \/ l.pending > 0)
  <2> DEFINE h == Head(l.paced)
             k == [l EXCEPT !.busy = TRUE, !.paced = Tail(@)]
  <2>1. l \in LanesState /\ l.paced \in Seq(Background) /\ l.paced # <<>>
    BY <1>2 DEF Good, LanesState
  <2>2. /\ h = l.paced[1] /\ h \in Background /\ 1 \in DOMAIN l.paced
        /\ Tail(l.paced) \in Seq(Background)
        /\ \A i \in DOMAIN Tail(l.paced) :
             i + 1 \in DOMAIN l.paced /\ i + 1 # 1 /\ Tail(l.paced)[i] = l.paced[i + 1]
    BY <2>1
  <2>3. k \in LanesState /\ k.at = l.at /\ k.joined = l.joined /\ k.pending = l.pending
        /\ k.busy = TRUE /\ k.paced = Tail(l.paced) /\ k.later = l.later
    BY <2>1, <2>2 DEF LanesState
  <2>4. h \in Calls
    BY <2>2, LanesAssumption
  <2>5. Pump(l) = Issue(k, h)
    BY <1>2 DEF Pump
  <2> HIDE DEF k, h
  <2> DEFINE p == Issue(k, h)
  <2>6. /\ p \in LanesState /\ p.paced = Tail(l.paced) /\ p.joined = l.joined
        /\ p.pending = l.pending /\ p.busy = TRUE /\ p.later = l.later
        /\ p.at[h] \in Unanswered
        /\ \A d \in Calls : d # h => p.at[d] = l.at[d]
    BY <2>3, <2>4, IssueDoes
  <2> HIDE DEF p
  <2>7. Queued(l) /\ Joined(l) /\ l.at[h] = "queued"
    BY <2>2 DEF Good, Placed, Queued
  <2>8. Queued(p)
    <3>1. \A i \in DOMAIN p.paced : i + 1 \in DOMAIN l.paced /\ i + 1 # 1 /\ p.paced[i] = l.paced[i + 1]
      BY <2>2, <2>6
    <3>2. IsInjective(p.paced)
      BY <3>1, <2>2, <2>6, <2>7 DEF Queued, IsInjective
    <3>3. ASSUME NEW i \in DOMAIN p.paced PROVE p.at[p.paced[i]] = "queued"
      <4>1. l.paced[i + 1] # l.paced[1]
        BY <3>1, <2>2, <2>7 DEF Queued, IsInjective
      <4>2. l.paced[i + 1] \in Calls
        BY <3>1, <2>1, LanesAssumption
      <4> QED  BY <3>1, <4>1, <4>2, <2>2, <2>6, <2>7 DEF Queued
    <3>4. ASSUME NEW c \in Calls, p.at[c] = "queued" PROVE \E i \in DOMAIN p.paced : p.paced[i] = c
      <4>1. c # h /\ l.at[c] = "queued"
        BY <2>6, <3>4 DEF Unanswered
      <4>2. PICK i \in DOMAIN l.paced : l.paced[i] = c
        BY <2>7, <4>1 DEF Queued
      <4>3. i # 1 /\ i - 1 \in DOMAIN Tail(l.paced) /\ Tail(l.paced)[i - 1] = l.paced[i]
        BY <2>1, <2>2, <4>1, <4>2
      <4> QED  BY <2>6, <4>2, <4>3
    <3>5. ASSUME NEW i \in DOMAIN p.paced, NEW j \in DOMAIN p.paced,
                 Key[p.paced[i]] = Key[p.paced[j]], {p.paced[i], p.paced[j]} \intersect p.later = {}
          PROVE  i = j
      <4>1. i + 1 = j + 1
        BY <2>6, <2>7, <3>1, <3>5 DEF Queued
      <4> QED  BY <2>2, <2>6, <4>1
    <3> QED  BY <3>2, <3>3, <3>4, <3>5 DEF Queued
  <2>9. Joined(p)
    <3>1. ASSUME NEW q \in Calls, NEW d \in p.joined[q]
          PROVE  p.at[d] = "joined" /\ \A r \in Calls : d \in p.joined[r] => r = q
      <4>1. l.at[d] = "joined" /\ d \in Calls
        BY <2>1, <2>6, <2>7, <3>1, LanesAssumption DEF Joined, LanesState
      <4> QED  BY <4>1, <2>6, <2>7, <3>1 DEF Joined
    <3>2. \A d \in Calls : p.at[d] = "joined" => \E q \in Calls : d \in p.joined[q]
      BY <2>6, <2>7 DEF Joined, Unanswered
    <3>3. \A q \in Calls : p.joined[q] # {} => q \in Background /\ p.at[q] \notin {"new", "joined", "done"}
      BY <2>6, <2>7 DEF Joined, Unanswered
    <3> QED  BY <3>1, <3>2, <3>3 DEF Joined
  <2>10. Held(p) = Held(l)
    BY <2>2, <2>6, SameHeld DEF Normal
  <2>11. \A d \in Calls : l.at[d] # "queued" => p.at[d] = l.at[d]
    BY <2>6, <2>7
  <2> QED  BY <2>5, <2>6, <2>8, <2>9, <2>10, <2>11 DEF p, Good, Placed, Moves
<1> QED  BY <1>1, <1>2

-----------------------------------------------------------------------------
(* call. *)

\* The same call, found in the queue.
LEMMA SameDoes ==
  ASSUME NEW l \in LanesState, NEW c, NEW met, NEW q \in Same(l, c, met)
  PROVE  q \in Background /\ q \in Calls /\ \E i \in DOMAIN l.paced : l.paced[i] = q
<1>1. q \in ToSet(l.paced) /\ l.paced \in [1..Len(l.paced) -> Background]
  BY DEF Same, LanesState
<1> QED  BY <1>1, LanesAssumption DEF ToSet

\* An interactive call counts again, and goes out at once.
LEMMA MadeNormal ==
  ASSUME NEW l, NEW c \in Normal, NEW met, Apart(l, c)
  PROVE  /\ Good(Made(l, c, met)) /\ Moves(Made(l, c, met))
         /\ \A d \in Calls : d # c => Made(l, c, met).at[d] = l.at[d]
<1> DEFINE k == [l EXCEPT !.pending = @ + 1]
           p == Issue(k, c)
<1>0. l \in LanesState /\ Queued(l) /\ Joined(l) /\ l.pending = Cardinality(Held(l) \ {c})
      /\ l.at[c] \notin {"queued", "joined"} /\ c \in Calls
  BY DEF Apart, Placed, Normal
<1>1. /\ k \in LanesState /\ k.at = l.at /\ k.joined = l.joined /\ k.paced = l.paced
      /\ k.pending = l.pending + 1 /\ k.later = l.later
  <2>1. l \in LanesState /\ l.pending + 1 \in Int
    BY <1>0 DEF LanesState
  <2> QED  BY ONLY <2>1 DEF k, LanesState
<1>2. Made(l, c, met) = p
  BY DEF Made
<1> HIDE DEF k
<1>3. /\ p \in LanesState /\ p.paced = l.paced /\ p.joined = l.joined /\ p.later = l.later
      /\ p.pending = l.pending + 1 /\ p.at[c] \in Unanswered
      /\ \A d \in Calls : d # c => p.at[d] = l.at[d]
  BY <1>0, <1>1, IssueDoes
<1> HIDE DEF p
<1>4. Held(p) = (Held(l) \ {c}) \union {c}
  BY <1>3 DEF Held, Normal
<1>5. Cardinality(Held(p)) = Cardinality(Held(l) \ {c}) + 1
  <2>1. IsFiniteSet(Held(l) \ {c})
    BY HeldFinite, FS_Subset
  <2> QED  BY <1>4, <2>1, FS_AddElement
<1>6. l.paced \in [1..Len(l.paced) -> Background] /\ l.joined \in [Calls -> SUBSET Background]
  BY <1>0 DEF LanesState
<1>7. Queued(p)
  <2>1. \A i \in DOMAIN p.paced : p.at[p.paced[i]] = "queued"
    BY <1>0, <1>3, <1>6, LanesAssumption DEF Queued
  <2>2. \A d \in Calls : p.at[d] = "queued" => \E i \in DOMAIN p.paced : p.paced[i] = d
    BY <1>0, <1>3 DEF Queued, Unanswered
  <2> QED  BY <1>0, <1>3, <2>1, <2>2 DEF Queued
<1>8. Joined(p)
  <2>1. ASSUME NEW q \in Calls, NEW d \in p.joined[q]
        PROVE  p.at[d] = "joined" /\ \A r \in Calls : d \in p.joined[r] => r = q
    <3>1. d \in Calls /\ l.at[d] = "joined"
      BY <1>0, <1>3, <1>6, <2>1, LanesAssumption DEF Joined
    <3> QED  BY <1>0, <1>3, <2>1, <3>1 DEF Joined
  <2>2. \A d \in Calls : p.at[d] = "joined" => \E q \in Calls : d \in p.joined[q]
    BY <1>0, <1>3 DEF Joined, Unanswered
  <2>3. \A q \in Calls : p.joined[q] # {} => q \in Background /\ p.at[q] \notin {"new", "joined", "done"}
    BY <1>0, <1>3 DEF Joined, Unanswered
  <2> QED  BY <2>1, <2>2, <2>3 DEF Joined
<1>9. p.pending > 0
  BY <1>0, <1>3, <1>5, HeldFinite, FS_Subset, FS_CardinalityType
<1> QED  BY <1>0, <1>2, <1>3, <1>5, <1>7, <1>8, <1>9 DEF Good, Placed, Moves

\* A paced call joins the same one waiting, and those who joined it come along.
LEMMA MadeJoins ==
  ASSUME NEW l, NEW c \in Background, NEW met, Apart(l, c), Same(l, c, met) # {}
  PROVE  /\ Good(Made(l, c, met)) /\ (Moves(l) => Moves(Made(l, c, met)))
         /\ \A d \in Calls : d # c => Made(l, c, met).at[d] = l.at[d]
<1> DEFINE q == CHOOSE q \in Same(l, c, met) : TRUE
           k == [l EXCEPT !.at[c] = "joined",
                          !.joined = [l.joined EXCEPT ![q] = @ \union {c} \union l.joined[c], ![c] = {}]]
<1>0. l \in LanesState /\ Queued(l) /\ Joined(l) /\ l.pending = Cardinality(Held(l) \ {c})
      /\ l.at[c] \notin {"queued", "joined"} /\ c \in Calls /\ c \notin Normal
  BY LanesAssumption DEF Apart, Placed, Normal
<1>1. q \in Same(l, c, met)
  OBVIOUS
<1>2. Made(l, c, met) = k
  BY <1>0 DEF Made
<1> HIDE DEF q, k
<1>3. q \in Calls /\ q \in Background /\ l.at[q] = "queued" /\ q # c
  <2>1. q \in Calls /\ q \in Background /\ \E i \in DOMAIN l.paced : l.paced[i] = q
    BY <1>0, <1>1, SameDoes
  <2> QED  BY <1>0, <2>1 DEF Queued
<1>4. l.at \in [Calls -> Place] /\ l.joined \in [Calls -> SUBSET Background]
      /\ l.paced \in Seq(Background)
  BY <1>0 DEF LanesState
<1>5. /\ k.paced = l.paced /\ k.pending = l.pending /\ k.busy = l.busy /\ k.later = l.later
      /\ k.at = [l.at EXCEPT ![c] = "joined"]
      /\ k.joined = [l.joined EXCEPT ![q] = @ \union {c} \union l.joined[c], ![c] = {}]
  <2> DEFINE a == [l.at EXCEPT ![c] = "joined"]
             j == [l.joined EXCEPT ![q] = @ \union {c} \union l.joined[c], ![c] = {}]
  <2>1. k = [l EXCEPT !.at = a, !.joined = j]
    BY <1>0 DEF k, LanesState
  <2> HIDE DEF a, j, k
  <2>2. /\ k.paced = l.paced /\ k.pending = l.pending /\ k.busy = l.busy /\ k.later = l.later
        /\ k.at = a /\ k.joined = j
    BY <1>0, <2>1 DEF LanesState
  <2> QED  BY <2>2 DEF a, j
<1>6. /\ \A d \in Calls : k.at[d] = IF d = c THEN "joined" ELSE l.at[d]
      /\ \A r \in Calls : k.joined[r] = IF r = c THEN {}
                                      ELSE IF r = q THEN l.joined[q] \union {c} \union l.joined[c]
                                      ELSE l.joined[r]
  BY <1>3, <1>4, <1>5
<1>7. k \in LanesState
  <2>1. k.at \in [Calls -> Place]
    BY <1>4, <1>5 DEF Place
  <2>2. \A r \in Calls : l.joined[r] \in SUBSET Background
    BY <1>4
  <2>3. \A r \in Calls : k.joined[r] \in SUBSET Background
    BY <1>0, <1>3, <1>6, <2>2
  <2>4. k.joined \in [Calls -> SUBSET Background]
    BY <1>4, <1>5, <2>3
  <2>5. k = [l EXCEPT !.at = k.at, !.joined = k.joined]
    BY <1>0, <1>5 DEF k, LanesState
  <2> QED  BY <1>0, <2>1, <2>4, <2>5 DEF LanesState
<1>8. Queued(k)
  <2>1. \A i \in DOMAIN k.paced : k.at[k.paced[i]] = "queued"
    BY <1>0, <1>4, <1>5 DEF Queued
  <2>2. \A d \in Calls : k.at[d] = "queued" => \E i \in DOMAIN k.paced : k.paced[i] = d
    BY <1>0, <1>5, <1>6 DEF Queued
  <2> QED  BY <1>0, <1>5, <2>1, <2>2 DEF Queued
<1>9. Joined(k)
  <2>1. \A r \in Calls : c \notin l.joined[r]
    BY <1>0 DEF Joined
  <2>2. ASSUME NEW r \in Calls, NEW d \in k.joined[r]
        PROVE  k.at[d] = "joined" /\ \A t \in Calls : d \in k.joined[t] => t = r
    <3>1. CASE d = c
      BY <1>0, <1>3, <1>6, <2>1, <2>2, <3>1
    <3>2. CASE d # c
      <4>1. PICK t \in Calls : d \in l.joined[t] /\ (IF t = c THEN r = q ELSE r = t)
        BY <1>0, <1>3, <1>6, <2>2, <3>2
      <4>2. d \in Calls /\ l.at[d] = "joined" /\ \A u \in Calls : d \in l.joined[u] => u = t
        BY <1>0, <1>4, <4>1, LanesAssumption DEF Joined
      <4>3. \A u \in Calls : d \in k.joined[u] => u = r
        BY <1>0, <1>3, <1>6, <3>2, <4>1, <4>2
      <4> QED  BY <1>6, <3>2, <4>2, <4>3
    <3> QED  BY <3>1, <3>2
  <2>3. ASSUME NEW d \in Calls, k.at[d] = "joined" PROVE \E r \in Calls : d \in k.joined[r]
    <3>1. CASE d = c
      BY <1>3, <1>6, <3>1
    <3>2. CASE d # c
      <4>1. PICK r \in Calls : d \in l.joined[r]
        BY <1>0, <1>6, <2>3, <3>2 DEF Joined
      <4> QED  BY <1>3, <1>6, <4>1
    <3> QED  BY <3>1, <3>2
  <2>4. \A r \in Calls : k.joined[r] # {} => r \in Background /\ k.at[r] \notin {"new", "joined", "done"}
    BY <1>0, <1>3, <1>6 DEF Joined
  <2> QED  BY <2>2, <2>3, <2>4 DEF Joined
<1>10. Held(k) = Held(l) /\ Held(l) = Held(l) \ {c}
  BY <1>0, <1>6 DEF Held, Normal
<1> QED  BY <1>0, <1>2, <1>5, <1>6, <1>7, <1>8, <1>9, <1>10 DEF Good, Placed, Moves

\* A paced call of its own waits behind the others.
LEMMA MadeQueues ==
  ASSUME NEW l, NEW c \in Background, NEW met, Apart(l, c), Same(l, c, met) = {}
  PROVE  /\ Good(Made(l, c, met)) /\ Moves(Made(l, c, met))
         /\ \A d \in Calls : d # c /\ l.at[d] # "queued" => Made(l, c, met).at[d] = l.at[d]
<1> DEFINE k == [l EXCEPT !.at[c] = "queued", !.paced = Append(@, c)]
           n == Len(l.paced)
<1>0. l \in LanesState /\ Queued(l) /\ Joined(l) /\ l.pending = Cardinality(Held(l) \ {c})
      /\ l.at[c] \notin {"queued", "joined"} /\ c \in Calls /\ c \notin Normal
  BY LanesAssumption DEF Apart, Placed, Normal
<1>1. l.at \in [Calls -> Place] /\ l.joined \in [Calls -> SUBSET Background]
      /\ l.paced \in Seq(Background)
  BY <1>0 DEF LanesState
<1>2. /\ k \in LanesState /\ k.paced = Append(l.paced, c) /\ k.pending = l.pending
      /\ k.at = [l.at EXCEPT ![c] = "queued"] /\ k.joined = l.joined /\ k.later = l.later
  <2>1. Append(l.paced, c) \in Seq(Background)
    BY <1>1
  <2>2. [l.at EXCEPT ![c] = "queued"] \in [Calls -> Place]
    BY <1>1 DEF Place
  <2> QED  BY <1>0, <2>1, <2>2 DEF LanesState
<1>3. Made(l, c, met) = Pump(k)
  BY <1>0 DEF Made
<1> HIDE DEF k
<1>4. /\ DOMAIN k.paced = 1..n + 1 /\ DOMAIN l.paced = 1..n /\ n \in Nat /\ k.paced[n + 1] = c
      /\ \A i \in 1..n : k.paced[i] = l.paced[i]
  BY <1>1, <1>2
<1> HIDE DEF n
<1>5. /\ \A i \in DOMAIN k.paced : (i \in DOMAIN l.paced /\ i # n + 1) \/ i = n + 1
      /\ \A i \in DOMAIN l.paced : i \in DOMAIN k.paced /\ k.paced[i] = l.paced[i]
      /\ n + 1 \in DOMAIN k.paced
  BY <1>4
<1>6. \A i \in DOMAIN l.paced : l.paced[i] # c
  BY <1>0 DEF Queued
<1>7. Queued(k)
  <2>1. IsInjective(k.paced)
    BY <1>0, <1>4, <1>5, <1>6 DEF Queued, IsInjective
  <2>2. \A i \in DOMAIN k.paced : k.at[k.paced[i]] = "queued"
    BY <1>0, <1>1, <1>2, <1>4, <1>5 DEF Queued
  <2>3. ASSUME NEW d \in Calls, k.at[d] = "queued" PROVE \E i \in DOMAIN k.paced : k.paced[i] = d
    <3>1. CASE d = c
      BY <1>4, <1>5, <3>1
    <3>2. CASE d # c
      <4>1. PICK i \in DOMAIN l.paced : l.paced[i] = d
        BY <1>0, <1>1, <1>2, <2>3, <3>2 DEF Queued
      <4> QED  BY <1>5, <4>1
    <3> QED  BY <3>1, <3>2
  <2>4. ASSUME NEW i \in DOMAIN l.paced, Key[l.paced[i]] = Key[c], l.paced[i] \notin l.later, c \notin l.later
        PROVE  FALSE
    <3>1. l.paced[i] \in ToSet(l.paced)
      BY <2>4 DEF ToSet
    <3>2. l.paced[i] \in Same(l, c, met)
      BY <2>4, <3>1 DEF Same
    <3> QED  BY <3>2
  <2>5. ASSUME NEW i \in DOMAIN k.paced, NEW j \in DOMAIN k.paced,
               Key[k.paced[i]] = Key[k.paced[j]], {k.paced[i], k.paced[j]} \intersect k.later = {}
        PROVE  i = j
    <3>1. k.paced[i] \notin l.later /\ k.paced[j] \notin l.later
      BY <1>2, <2>5
    <3>2. CASE i = n + 1 \/ j = n + 1
      BY <1>4, <1>5, <2>4, <2>5, <3>1, <3>2
    <3>3. CASE i \in DOMAIN l.paced /\ j \in DOMAIN l.paced
      BY <1>0, <1>5, <2>5, <3>1, <3>3 DEF Queued
    <3> QED  BY <1>5, <3>2, <3>3
  <2> QED  BY <2>1, <2>2, <2>3, <2>5 DEF Queued
<1>8. Joined(k)
  <2>1. \A d \in Calls : k.at[d] = IF d = c THEN "queued" ELSE l.at[d]
    BY <1>1, <1>2
  <2>2. ASSUME NEW r \in Calls, NEW d \in k.joined[r]
        PROVE  k.at[d] = "joined" /\ \A t \in Calls : d \in k.joined[t] => t = r
    BY <1>0, <1>1, <1>2, <2>2 DEF Joined
  <2>3. \A d \in Calls : k.at[d] = "joined" => \E r \in Calls : d \in k.joined[r]
    BY <1>0, <1>2, <2>1 DEF Joined
  <2>4. \A r \in Calls : k.joined[r] # {} => r \in Background /\ k.at[r] \notin {"new", "joined", "done"}
    BY <1>0, <1>2, <2>1 DEF Joined
  <2> QED  BY <2>2, <2>3, <2>4 DEF Joined
<1>9. Held(k) = Held(l) /\ Held(l) = Held(l) \ {c}
  BY <1>0, <1>1, <1>2 DEF Held, Normal
<1>10. Good(k)
  BY <1>0, <1>2, <1>7, <1>8, <1>9 DEF Good, Placed
<1>11. \A d \in Calls : d # c /\ l.at[d] # "queued" => k.at[d] = l.at[d]
  BY <1>1, <1>2
<1> QED  BY <1>3, <1>10, <1>11, PumpDoes

\* A call made leaves the lanes well formed, and moving if they were; no other call
\* moves but out of the queue.
LEMMA MadeDoes ==
  ASSUME NEW l, NEW c \in Calls, NEW met, Apart(l, c)
  PROVE  /\ Good(Made(l, c, met)) /\ (Moves(l) => Moves(Made(l, c, met)))
         /\ \A d \in Calls : d # c /\ l.at[d] # "queued" => Made(l, c, met).at[d] = l.at[d]
<1>1. CASE c \in Normal
  BY <1>1, MadeNormal
<1>2. CASE c \in Background /\ Same(l, c, met) # {}
  BY <1>2, MadeJoins
<1>3. CASE c \in Background /\ Same(l, c, met) = {}
  BY <1>3, MadeQueues
<1> QED  BY <1>1, <1>2, <1>3 DEF Normal

\* The last interactive answer leaves the lane moving, and the others don't stop it.
LEMMA ReleaseDoes ==
  ASSUME NEW l, NEW c \in Calls, Good(l), c \notin Normal => Moves(l)
  PROVE  Good(Release(l, c)) /\ Moves(Release(l, c))
  BY PumpDoes DEF Release

-----------------------------------------------------------------------------
(* The answer. *)

\* An interactive call counts no longer once answered, a paced one never did.
LEMMA SettledDoes ==
  ASSUME NEW l, NEW c \in Calls, Good(l), l.at[c] = "out"
  PROVE  /\ Apart(Settled(l, c), c)
         /\ Settled(l, c) = [l EXCEPT !.pending = Settled(l, c).pending]
         /\ c \notin Normal => Settled(l, c) = l
<1>0. l \in LanesState
  BY DEF Good
<1>1. CASE c \in Normal
  <2>1. c \in Held(l)
    BY <1>1 DEF Held, Unanswered
  <2>2. Cardinality(Held(l) \ {c}) = l.pending - 1
    BY <2>1, HeldLess DEF Good
  <2> DEFINE k == [l EXCEPT !.pending = @ - 1]
  <2>3. /\ k \in LanesState /\ k.at = l.at /\ k.joined = l.joined /\ k.paced = l.paced
        /\ k.pending = l.pending - 1 /\ k.later = l.later
    BY <1>0 DEF LanesState
  <2>4. Settled(l, c) = k
    BY <1>1 DEF Settled
  <2>5. Held(k) = Held(l)
    BY <2>3, SameHeld
  <2>6. Placed(k)
    BY <2>3 DEF Good, Placed, Queued, Joined
  <2>7. k = [l EXCEPT !.pending = k.pending]
    BY <1>0 DEF LanesState
  <2> HIDE DEF k
  <2> QED  BY <1>1, <2>2, <2>3, <2>4, <2>5, <2>6, <2>7 DEF Apart
<1>2. CASE c \notin Normal
  <2>1. Settled(l, c) = l /\ c \notin Held(l)
    BY <1>2 DEF Settled, Held
  <2>2. Held(l) \ {c} = Held(l)
    BY <2>1
  <2>3. l = [l EXCEPT !.pending = l.pending]
    BY <1>0 DEF LanesState
  <2> QED  BY <2>1, <2>2, <2>3 DEF Good, Apart
<1> QED  BY <1>1, <1>2

\* Telling the callers takes the answered call and those who joined it away,
\* and nobody else.
LEMMA ToldDoes ==
  ASSUME NEW l, NEW c \in Calls, Apart(l, c)
  PROVE  /\ Good(Told(l, c)) /\ (Moves(l) => Moves(Told(l, c)))
<1>0. l \in LanesState /\ Placed(l) /\ l.pending = Cardinality(Held(l) \ {c})
      /\ l.at[c] \notin {"queued", "joined"}
  BY DEF Apart
<1>1. l.at \in [Calls -> Place] /\ l.joined \in [Calls -> SUBSET Background]
      /\ l.paced \in [1..Len(l.paced) -> Background]
  BY <1>0 DEF LanesState
<1> DEFINE now == [d \in Calls |-> IF d = c \/ d \in l.joined[c] THEN "done" ELSE l.at[d]]
           k == Told(l, c)
<1>2. now \in [Calls -> Place]
  BY <1>1 DEF Place
<1>3. /\ k \in LanesState /\ k.at = now /\ k.joined = [l.joined EXCEPT ![c] = {}]
      /\ k.paced = l.paced /\ k.pending = l.pending /\ k.busy = l.busy /\ k.later = l.later
  <2> HIDE DEF now
  <2>1. k = [l EXCEPT !.at = now, !.joined[c] = {}]
    BY DEF now, Told
  <2>2. [l.joined EXCEPT ![c] = {}] \in [Calls -> SUBSET Background]
    BY <1>1
  <2> HIDE DEF k
  <2> QED  BY <1>0, <1>2, <2>1, <2>2 DEF LanesState
<1> HIDE DEF k
<1>4. Queued(k)
  <2>1. ASSUME NEW i \in DOMAIN l.paced PROVE now[l.paced[i]] = "queued"
    <3>1. l.at[l.paced[i]] = "queued" /\ l.paced[i] \in Calls
      BY <1>0, <1>1, <2>1, LanesAssumption DEF Placed, Queued
    <3>2. l.paced[i] \notin l.joined[c]
      BY <1>0, <3>1 DEF Placed, Joined
    <3> QED  BY <1>0, <3>1, <3>2
  <2>2. \A d \in Calls : now[d] = "queued" => l.at[d] = "queued"
    OBVIOUS
  <2> HIDE DEF now
  <2> QED  BY <1>0, <1>3, <2>1, <2>2 DEF Placed, Queued
<1>5. Joined(k)
  <2>1. ASSUME NEW q \in Calls, NEW d \in k.joined[q]
        PROVE  k.at[d] = "joined" /\ \A r \in Calls : d \in k.joined[r] => r = q
    <3>1. q # c /\ d \in l.joined[q] /\ d \in Calls
      BY <1>1, <1>3, <2>1, LanesAssumption
    <3>2. l.at[d] = "joined" /\ \A r \in Calls : d \in l.joined[r] => r = q
      BY <1>0, <3>1 DEF Placed, Joined
    <3> QED  BY <1>0, <1>1, <1>3, <3>1, <3>2
  <2>2. ASSUME NEW d \in Calls, k.at[d] = "joined" PROVE \E q \in Calls : d \in k.joined[q]
    <3>1. l.at[d] = "joined" /\ d \notin l.joined[c]
      BY <1>3, <2>2
    <3>2. PICK q \in Calls : d \in l.joined[q]
      BY <1>0, <3>1 DEF Placed, Joined
    <3> QED  BY <1>1, <1>3, <3>1, <3>2
  <2>3. ASSUME NEW q \in Calls, k.joined[q] # {}
        PROVE  q \in Background /\ k.at[q] \notin {"new", "joined", "done"}
    <3>1. q # c /\ l.joined[q] # {}
      BY <1>1, <1>3, <2>3
    <3>2. q \in Background /\ l.at[q] \notin {"new", "joined", "done"}
      BY <1>0, <3>1 DEF Placed, Joined
    <3>3. q \notin l.joined[c]
      BY <1>0, <3>2 DEF Placed, Joined
    <3> QED  BY <1>3, <3>1, <3>2, <3>3
  <2> QED  BY <2>1, <2>2, <2>3 DEF Joined
<1>6. Held(k) = Held(l) \ {c}
  BY <1>1, <1>3 DEF Held, Normal, Unanswered
<1> QED  BY <1>0, <1>3, <1>4, <1>5, <1>6 DEF k, Good, Placed, Moves

\* A page heard: the listing and the first of the others with it are on their way to the
\* next one, and in no place; the rest are with that one, or done.
LEMMA HeardDoes ==
  ASSUME NEW l, NEW c \in Listing, Apart(l, c), l.at[c] = "out",
         NEW lead \in IF Others(l, c) = {} THEN {c} ELSE Others(l, c)
  PROVE  /\ Apart(Heard(l, c, lead), c) /\ (Moves(l) => Moves(Heard(l, c, lead)))
         /\ lead # c => lead \in Background /\ Heard(l, c, lead).at[lead] = "between"
<1> DEFINE k == Heard(l, c, lead)
           a == [d \in Calls |-> IF d \in l.joined[c] \ Listing THEN "done"
                                ELSE IF d = lead /\ d # c THEN "between" ELSE l.at[d]]
           j == [l.joined EXCEPT ![c] = {}, ![lead] = Others(l, c) \ {lead}]
           n == l.later \union {c} \union Others(l, c)
<1>0. l \in LanesState /\ Queued(l) /\ Joined(l) /\ l.pending = Cardinality(Held(l) \ {c})
      /\ c \in Calls
  BY LanesAssumption DEF Apart, Placed
<1>1. l.at \in [Calls -> Place] /\ l.joined \in [Calls -> SUBSET Background]
      /\ l.paced \in [1..Len(l.paced) -> Background] /\ l.later \in SUBSET Listing
  BY <1>0 DEF LanesState
<1>2. Others(l, c) \subseteq l.joined[c] /\ Others(l, c) \subseteq Listing
      /\ l.joined[c] \subseteq Background /\ Background \subseteq Calls
  BY <1>0, <1>1, LanesAssumption DEF Others
<1>3. c \notin l.joined[c] /\ (lead = c <=> Others(l, c) = {}) /\ lead \in Calls
      /\ (lead # c => lead \in l.joined[c] /\ lead \in Listing)
  BY <1>0, <1>2 DEF Joined
<1>4. a \in [Calls -> Place] /\ j \in [Calls -> SUBSET Background] /\ n \in SUBSET Listing
  <2>1. a \in [Calls -> Place]
    BY <1>1 DEF Place
  <2>2. j \in [Calls -> SUBSET Background]
    BY <1>1, <1>2
  <2>3. n \in SUBSET Listing
    BY <1>1, <1>2
  <2> QED  BY <2>1, <2>2, <2>3
<1>5. k = [l EXCEPT !.at = a, !.joined = j, !.later = n]
  BY <1>0 DEF Heard, LanesState
<1> HIDE DEF k, a, j, n
<1>6. /\ k \in LanesState /\ k.at = a /\ k.joined = j /\ k.later = n
      /\ k.paced = l.paced /\ k.pending = l.pending /\ k.busy = l.busy
  BY <1>0, <1>4, <1>5 DEF LanesState
<1>7. /\ \A d \in Calls : k.at[d] = IF d \in l.joined[c] \ Listing THEN "done"
                                ELSE IF d = lead /\ d # c THEN "between" ELSE l.at[d]
      /\ \A r \in Calls : k.joined[r] = IF r = lead THEN Others(l, c) \ {lead}
                                      ELSE IF r = c THEN {} ELSE l.joined[r]
  BY <1>0, <1>1, <1>3, <1>6 DEF a, j
<1>8. \A d \in l.joined[c] : d \in Calls /\ l.at[d] = "joined" /\ l.joined[d] = {}
        /\ \A r \in Calls : d \in l.joined[r] => r = c
  BY <1>0, <1>2 DEF Joined
<1>9. \A d \in Calls : l.at[d] # "joined" => k.at[d] = l.at[d]
  BY <1>3, <1>7, <1>8
<1>10. Queued(k)
  <2>1. \A i \in DOMAIN l.paced : k.at[l.paced[i]] = "queued"
    BY <1>0, <1>1, <1>2, <1>9 DEF Queued
  <2>2. \A d \in Calls : k.at[d] = "queued" => l.at[d] = "queued"
    BY <1>7
  <2>3. l.later \subseteq k.later
    BY <1>6 DEF n
  <2> QED  BY <1>0, <1>6, <2>1, <2>2, <2>3 DEF Queued
<1>11. Joined(k)
  <2>1. ASSUME NEW q \in Calls, NEW d \in k.joined[q]
        PROVE  k.at[d] = "joined" /\ \A r \in Calls : d \in k.joined[r] => r = q
    <3>1. CASE q = lead
      <4>1. d \in l.joined[c] /\ d \in Listing /\ d # lead /\ lead # c
        BY <1>2, <1>3, <1>7, <2>1, <3>1
      <4>2. k.at[d] = "joined"
        BY <1>7, <1>8, <4>1
      <4>3. \A r \in Calls : d \in k.joined[r] => r = q
        BY <1>7, <1>8, <3>1, <4>1
      <4> QED  BY <4>2, <4>3
    <3>2. CASE q # lead
      <4>1. q # c /\ d \in l.joined[q] /\ d \notin l.joined[c] /\ d \in Calls
        BY <1>0, <1>1, <1>2, <1>7, <1>8, <2>1, <3>2
      <4>2. l.at[d] = "joined" /\ \A r \in Calls : d \in l.joined[r] => r = q
        BY <1>0, <4>1 DEF Joined
      <4>3. k.at[d] = "joined"
        BY <1>3, <1>7, <4>1, <4>2
      <4>4. \A r \in Calls : d \in k.joined[r] => r = q
        BY <1>2, <1>7, <4>1, <4>2
      <4> QED  BY <4>3, <4>4
    <3> QED  BY <3>1, <3>2
  <2>2. ASSUME NEW d \in Calls, k.at[d] = "joined" PROVE \E q \in Calls : d \in k.joined[q]
    <3>1. l.at[d] = "joined" /\ d \notin l.joined[c] \ Listing /\ (d = lead => d = c)
      BY <1>7, <2>2
    <3>2. PICK q \in Calls : d \in l.joined[q]
      BY <1>0, <3>1 DEF Joined
    <3>3. CASE q = c
      <4>1. d \in Others(l, c) /\ d # lead
        BY <1>3, <3>1, <3>2, <3>3 DEF Others
      <4> QED  BY <1>3, <1>7, <4>1
    <3>4. CASE q # c
      <4>1. q # lead
        BY <1>3, <1>8, <3>2, <3>4
      <4> QED  BY <1>7, <3>2, <3>4, <4>1
    <3> QED  BY <3>3, <3>4
  <2>3. ASSUME NEW q \in Calls, k.joined[q] # {}
        PROVE  q \in Background /\ k.at[q] \notin {"new", "joined", "done"}
    <3>1. CASE q = lead
      <4>1. lead # c /\ lead \in l.joined[c] /\ lead \in Listing
        BY <1>3, <1>7, <2>3, <3>1
      <4> QED  BY <1>2, <1>7, <3>1, <4>1
    <3>2. CASE q # lead
      <4>1. l.joined[q] # {}
        BY <1>7, <2>3, <3>2
      <4> QED  BY <1>0, <1>9, <4>1 DEF Joined
    <3> QED  BY <3>1, <3>2
  <2> QED  BY <2>1, <2>2, <2>3 DEF Joined
<1>12. Held(k) = Held(l)
  <2>1. \A d \in Normal : d \in Calls /\ d \notin l.joined[c]
    BY <1>2 DEF Normal
  <2> QED  BY <1>3, <1>7, <2>1 DEF Held
<1>13. k.at[c] = l.at[c] /\ (lead # c => lead \in Background /\ k.at[lead] = "between")
  BY <1>0, <1>2, <1>3, <1>7
<1> QED  BY <1>0, <1>6, <1>10, <1>11, <1>12, <1>13 DEF k, Apart, Placed, Moves

-----------------------------------------------------------------------------
(* The steps. *)

IInv == Good(Lanes) /\ Moves(Lanes)

\* What a handler made of the lanes is what they are next.
LEMMA BecomeDoes ==
  ASSUME NEW STATE l, Good(l), Moves(l), Become(l) PROVE IInv'
<1>1. l \in LanesState
  BY DEF Good
<1>2. Lanes' = l
  BY <1>1 DEF Lanes, Become, LanesState
<1> QED  BY <1>2 DEF IInv

\* Another place out of the lanes' sight.
LEMMA PlaceDoes ==
  ASSUME IInv, NEW c \in Calls, NEW p \in Unanswered, at[c] \in Unanswered,
         at' = [at EXCEPT ![c] = p],
         UNCHANGED <<paced, joined, pacedBusy, normalPending, later>>
  PROVE  IInv'
<1>1. Lanes \in LanesState /\ Placed(Lanes)
  BY DEF IInv, Good
<1>2. at \in [Calls -> Place] /\ joined \in [Calls -> SUBSET Background]
      /\ paced \in [1..Len(paced) -> Background] /\ paced \in Seq(Background)
  BY <1>1 DEF Lanes, LanesState
<1>3. Lanes' \in LanesState
  BY <1>1, <1>2 DEF Lanes, LanesState, Place
<1>4. Held(Lanes)' = Held(Lanes)
  BY <1>2 DEF Held, Lanes, Normal
<1>6. Lanes.at = at /\ Lanes.joined = joined /\ Lanes.paced = paced /\ Lanes.later = later
      /\ Lanes'.at = at' /\ Lanes'.joined = joined /\ Lanes'.paced = paced /\ Lanes'.later = later
  BY DEF Lanes
<1>7. \A d \in Calls : \/ at'[d] = at[d]
                       \/ at[d] \in Unanswered /\ at'[d] \in Unanswered
  BY <1>2
<1>8. Queued(Lanes)'
  <2>1. \A i \in DOMAIN paced : paced[i] \in Calls
    BY <1>2, LanesAssumption
  <2> QED  BY <1>1, <1>6, <1>7, <2>1 DEF Placed, Queued, Unanswered
<1>9. Joined(Lanes)'
  <2>1. \A q \in Calls : \A d \in joined[q] : d \in Calls
    BY <1>2, LanesAssumption
  <2> QED  BY <1>1, <1>6, <1>7, <2>1 DEF Placed, Joined, Unanswered
<1>5. Placed(Lanes)'
  BY <1>8, <1>9 DEF Placed
<1> QED  BY <1>3, <1>4, <1>5 DEF IInv, Good, Moves, Lanes

\* Every step keeps the count, the places and the lane moving.
LEMMA IInvStep == IInv /\ [Next]_vars => IInv'
<1> SUFFICES ASSUME IInv, [Next]_vars PROVE IInv'
  OBVIOUS
<1>0. Good(Lanes) /\ Moves(Lanes) /\ Lanes \in LanesState /\ Lanes.at = at
      /\ Lanes.pending = normalPending
  BY DEF IInv, Good, Lanes
<1>1. ASSUME NEW c \in Calls, Call(c) \/ NextPage(c) PROVE IInv'
  <2>1. at[c] \in {"new", "between"} /\ Become(Made(Lanes, c, {}))
    BY <1>1 DEF Call, NextPage
  <2>2. Held(Lanes) \ {c} = Held(Lanes)
    BY <1>0, <2>1 DEF Held, Unanswered
  <2>3. Apart(Lanes, c)
    BY <1>0, <2>1, <2>2 DEF Good, Apart
  <2> QED  BY <1>0, <2>1, <2>3, MadeDoes, BecomeDoes
<1>2. ASSUME NEW c \in Calls, RateLimited(c) PROVE IInv'
  BY <1>2, PlaceDoes DEF RateLimited, Unanswered
<1>3. ASSUME NEW c \in Calls, NEW retries, Flaky(c, retries) PROVE IInv'
  BY <1>3, PlaceDoes DEF Flaky, Unanswered
<1>4. ASSUME NEW c \in Calls, Final(c) PROVE IInv'
  <2> DEFINE told == Told(Settled(Lanes, c), c)
  <2>1. Lanes.at[c] = "out"
    BY <1>0, <1>4 DEF Final
  <2>2. Apart(Settled(Lanes, c), c) /\ (c \notin Normal => Moves(Settled(Lanes, c)))
    BY <1>0, <2>1, SettledDoes
  <2>3. Good(told) /\ (c \notin Normal => Moves(told))
    BY <2>2, ToldDoes
  <2>4. \/ Become(Release(told, c))
        \/ \E d \in Calls : told.at[d] = "new" /\ Become(Release(Made(told, d, {}), c))
    BY <1>4 DEF Final
  <2> HIDE DEF told
  <2>5. CASE Become(Release(told, c))
    BY <2>3, <2>5, ReleaseDoes, BecomeDoes
  <2>6. ASSUME NEW d \in Calls, told.at[d] = "new", Become(Release(Made(told, d, {}), c))
        PROVE  IInv'
    <3>1. Held(told) \ {d} = Held(told)
      BY <2>6 DEF Held, Unanswered
    <3>2. Apart(told, d)
      BY <2>3, <2>6, <3>1 DEF Good, Apart
    <3>3. Good(Made(told, d, {})) /\ (c \notin Normal => Moves(Made(told, d, {})))
      BY <2>3, <3>2, MadeDoes
    <3>4. Good(Release(Made(told, d, {}), c)) /\ Moves(Release(Made(told, d, {}), c))
      BY <3>3, ReleaseDoes
    <3> QED  BY <2>6, <3>4, BecomeDoes
  <2> QED  BY <2>4, <2>5, <2>6
<1>5. ASSUME NEW c \in Calls, Page(c) PROVE IInv'
  <2> DEFINE s == Settled(Lanes, c)
             l(lead) == Heard(s, c, lead)
             next(met, lead) == IF c \in Normal /\ LetsIn(l(lead))
                                THEN [l(lead) EXCEPT !.at[c] = "between"]
                                ELSE Made(l(lead), c, met)
  <2>1. PICK met \in SUBSET later,
             lead \in IF Others(Lanes, c) = {} THEN {c} ELSE Others(Lanes, c) :
          Become(Release(IF lead = c THEN next(met, lead)
                         ELSE Made(next(met, lead), lead, met \union {c}), c))
    BY <1>5 DEF Page
  <2>2. Lanes.at[c] = "out" /\ c \in Listing
    BY <1>0, <1>5 DEF Page
  <2>3. Apart(s, c) /\ (c \notin Normal => Moves(s)) /\ s.at[c] = "out" /\ Others(s, c) = Others(Lanes, c)
    <3>1. Apart(s, c) /\ (c \notin Normal => s = Lanes) /\ s = [Lanes EXCEPT !.pending = s.pending]
      BY <1>0, <2>2, SettledDoes
    <3> HIDE DEF s
    <3>2. s.at = Lanes.at /\ s.joined = Lanes.joined
      BY <1>0, <3>1 DEF LanesState
    <3> QED  BY <1>0, <2>2, <3>1, <3>2 DEF Others
  <2> HIDE DEF s
  <2>4. Apart(l(lead), c) /\ (c \notin Normal => Moves(l(lead)))
        /\ (lead # c => lead \in Background /\ l(lead).at[lead] = "between")
    BY <2>1, <2>2, <2>3, HeardDoes
  <2> DEFINE h == l(lead)
             b == [h EXCEPT !.at[c] = "between"]
             n == next(met, lead)
  <2>5. n = IF c \in Normal /\ LetsIn(h) THEN b ELSE Made(h, c, met)
    OBVIOUS
  <2>6. Apart(h, c) /\ (c \notin Normal => Moves(h))
        /\ (lead # c => lead \in Background /\ h.at[lead] = "between") /\ lead \in Calls
    <3>1. lead # c => lead \in Background
      BY <2>4
    <3> QED  BY <2>4, <3>1, LanesAssumption
  <2>u. Become(Release(IF lead = c THEN n ELSE Made(n, lead, met \union {c}), c))
    BY <2>1
  <2> HIDE DEF n, l, next, h
  <2>7. Good(Made(h, c, met)) /\ (c \notin Normal => Moves(Made(h, c, met)))
        /\ (lead # c => Made(h, c, met).at[lead] = "between")
    BY <2>6, MadeDoes
  <2>8. Good(b) /\ (lead # c => b.at[lead] = "between")
    <3>1. h.at \in [Calls -> Place] /\ h.joined \in [Calls -> SUBSET Background]
          /\ h.paced \in [1..Len(h.paced) -> Background] /\ h \in LanesState
      BY <2>6 DEF Apart, LanesState
    <3>2. /\ b \in LanesState /\ b.at = [h.at EXCEPT ![c] = "between"] /\ b.joined = h.joined
          /\ b.paced = h.paced /\ b.pending = h.pending /\ b.later = h.later
      BY <3>1 DEF LanesState, Place
    <3> HIDE DEF b
    <3>3. Held(b) = Held(h) \ {c}
      BY <3>1, <3>2 DEF Held, Normal, Unanswered
    <3>4. \A d \in Calls : b.at[d] = IF d = c THEN "between" ELSE h.at[d]
      BY <3>1, <3>2
    <3>5. Queued(b)
      <4>1. \A i \in DOMAIN h.paced : h.paced[i] \in Calls
        BY <3>1, LanesAssumption
      <4> QED  BY <2>6, <3>2, <3>4, <4>1 DEF Apart, Placed, Queued
    <3>6. Joined(b)
      <4>1. \A q \in Calls : \A d \in h.joined[q] : d \in Calls
        BY <3>1, LanesAssumption
      <4> QED  BY <2>6, <3>2, <3>4, <4>1 DEF Apart, Placed, Joined
    <3> QED  BY <2>6, <3>2, <3>3, <3>4, <3>5, <3>6 DEF Apart, Good, Placed
  <2> HIDE DEF b
  <2>9. Good(n) /\ (c \notin Normal => Moves(n)) /\ (lead # c => n.at[lead] = "between")
    BY <2>5, <2>7, <2>8
  <2>10. lead # c => Apart(n, lead)
    <3> SUFFICES ASSUME lead # c PROVE Apart(n, lead)
      OBVIOUS
    <3>1. Held(n) \ {lead} = Held(n)
      BY <2>6, <2>9 DEF Held, Normal
    <3> QED  BY <2>9, <3>1 DEF Good, Apart
  <2> DEFINE last == IF lead = c THEN n ELSE Made(n, lead, met \union {c})
  <2>11. Good(last) /\ (c \notin Normal => Moves(last))
    BY <2>6, <2>9, <2>10, MadeDoes
  <2>12. Become(Release(last, c))
    BY <2>u
  <2> HIDE DEF last
  <2>13. Good(Release(last, c)) /\ Moves(Release(last, c))
    BY <2>11, ReleaseDoes
  <2> QED  BY <2>12, <2>13, BecomeDoes
<1>6. ASSUME NEW c \in Calls, Reissue(c) PROVE IInv'
  <2>1. at[c] = "waiting" /\ Method[c] \notin cooling /\ Become(Issue(Lanes, c))
    BY <1>6 DEF Reissue
  <2>2. at' = [at EXCEPT ![c] = "out"]
        /\ UNCHANGED <<paced, joined, pacedBusy, normalPending, later>>
    BY <1>0, <2>1 DEF Become, Issue, Lanes, LanesState
  <2> QED  BY <2>1, <2>2, PlaceDoes DEF Unanswered
<1>7. ASSUME PacedGapOver PROVE IInv'
  <2> DEFINE k == [Lanes EXCEPT !.busy = FALSE]
  <2>1. /\ k \in LanesState /\ k.at = at /\ k.joined = joined /\ k.paced = paced
        /\ k.pending = normalPending /\ k.later = later
    BY <1>0 DEF Lanes, LanesState
  <2>2. Become(Pump(k))
    BY <1>7 DEF PacedGapOver
  <2> HIDE DEF k
  <2>3. Held(k) = Held(Lanes)
    BY <1>0, <2>1, SameHeld
  <2>4. Good(k)
    BY <1>0, <2>1, <2>3 DEF Good, Placed, Queued, Joined, Lanes
  <2> QED  BY <2>2, <2>4, PumpDoes, BecomeDoes
<1>8. ASSUME UNCHANGED lanes PROVE IInv'
  BY <1>8 DEF IInv, Good, Placed, Held, Moves, Lanes, lanes, LanesState
<1> QED
  BY <1>1, <1>2, <1>3, <1>4, <1>5, <1>6, <1>7, <1>8 DEF Next, Answer, CoolOver, vars, lanes

\* Places, counts and the lane, for any number of calls.
THEOREM Invariant == Spec => []IInv
<1>1. Init => IInv
  <2> SUFFICES ASSUME Init PROVE IInv
    OBVIOUS
  <2>a. at \in [Calls -> Place]
    BY DEF Init, Place
  <2>b. joined \in [Calls -> SUBSET Background]
    BY DEF Init
  <2>c. paced \in Seq(Background)
    BY EmptySeq, Zenon DEF Init
  <2>d. pacedBusy \in BOOLEAN /\ later \in SUBSET Listing
    BY Zenon DEF Init
  <2>e. normalPending \in Int
    BY DEF Init
  <2>1. Lanes \in LanesState
    BY <2>a, <2>b, <2>c, <2>d, <2>e, Zenon DEF Lanes, LanesState
  <2>3. /\ Lanes.paced = <<>> /\ Lanes.pending = 0
        /\ \A c \in Calls : Lanes.at[c] = "new" /\ Lanes.joined[c] = {}
    BY DEF Init, Lanes
  <2>2. Held(Lanes) = {}
    BY <2>3 DEF Held, Normal, Unanswered
  <2> QED  BY <2>1, <2>2, <2>3, FS_EmptySet DEF IInv, Good, Placed, Queued, Joined, Moves, IsInjective
<1> QED  BY <1>1, IInvStep, PTL DEF Spec

\* normalPending counts the interactive calls unanswered, and the paced lane
\* waits for such a call or for the gap, whatever the calls and the answers.
THEOREM LaneMovesHolds == Spec => []LaneMoves
<1>1. IInv => LaneMoves
  BY DEF IInv, Good, Moves, Held, Lanes, LaneMoves
<1> QED  BY <1>1, Invariant, PTL

\* Every variable keeps its type, and a call waits in the queue once.
THEOREM TypeCorrect == Spec => []TypeOK
<1> DEFINE Rest == /\ attempt \in [Calls -> 0..TransientRetries + TransportRetries]
                   /\ cooling \subseteq Methods /\ limited \in 0..MaxLimited
<1>1. Init => Rest
  BY LanesAssumption DEF Init
<1>2. Rest /\ [Next]_vars => Rest'
  <2> SUFFICES ASSUME Rest, [Next]_vars PROVE Rest'
    OBVIOUS
  <2>1. ASSUME NEW c \in Calls, RateLimited(c) PROVE Rest'
    BY <2>1, LanesAssumption DEF RateLimited, Methods
  <2>2. ASSUME NEW c \in Calls, NEW retries \in {TransientRetries, TransportRetries},
               Flaky(c, retries)
        PROVE  Rest'
    BY <2>2, LanesAssumption DEF Flaky
  <2>3. ASSUME NEW c \in Calls, Final(c) \/ Page(c) PROVE Rest'
    BY <2>3, LanesAssumption DEF Final, Page
  <2>4. ASSUME NEW m \in Methods, CoolOver(m) PROVE Rest'
    BY <2>4 DEF CoolOver
  <2>5. ASSUME UNCHANGED <<attempt, cooling, limited>> PROVE Rest'
    BY <2>5
  <2> QED
    BY <2>1, <2>2, <2>3, <2>4, <2>5 DEF Next, Answer, Call, NextPage, Reissue, PacedGapOver, vars
<1>3. IInv /\ Rest => TypeOK
  <2> SUFFICES ASSUME IInv, Rest PROVE TypeOK
    OBVIOUS
  <2>1. normalPending \in Nat
    BY HeldFinite DEF IInv, Good, Lanes
  <2> QED  BY <2>1 DEF IInv, Good, Placed, Queued, Lanes, LanesState, Place, TypeOK
<1> QED  BY <1>1, <1>2, <1>3, Invariant, PTL DEF Spec

\* Nobody who waits is lost: a queued call is in the queue, and a call that joined
\* another is with exactly one, itself on its way to an answer.
NobodyLost ==
  \A c \in Calls :
    /\ at[c] = "queued" => c \in ToSet(paced)
    /\ at[c] = "joined" =>
         \E q \in Calls : /\ at[q] \in {"queued", "between"} \union Unanswered
                          /\ \A r \in Calls : c \in joined[r] <=> r = q

\* ... through every chain of joins, pages, holds and retries: the half of
\* EveryCallerHears that needs no fairness.
THEOREM NobodyLostHolds == Spec => []NobodyLost
<1>1. IInv => NobodyLost
  <2> SUFFICES ASSUME IInv, NEW c \in Calls
               PROVE  /\ at[c] = "queued" => c \in ToSet(paced)
                      /\ at[c] = "joined" =>
                           \E q \in Calls : /\ at[q] \in {"queued", "between"} \union Unanswered
                                            /\ \A r \in Calls : c \in joined[r] <=> r = q
    BY DEF NobodyLost
  <2>1. /\ Queued(Lanes) /\ Joined(Lanes) /\ Lanes.at = at /\ Lanes.joined = joined
        /\ Lanes.paced = paced /\ at \in [Calls -> Place]
    BY DEF IInv, Good, Placed, Lanes, LanesState
  <2>2. at[c] = "queued" => c \in ToSet(paced)
    BY <2>1 DEF Queued, ToSet
  <2>3. ASSUME at[c] = "joined"
        PROVE  \E q \in Calls : /\ at[q] \in {"queued", "between"} \union Unanswered
                                /\ \A r \in Calls : c \in joined[r] <=> r = q
    <3>1. PICK q \in Calls : c \in joined[q]
      BY <2>1, <2>3 DEF Joined
    <3>2. \A r \in Calls : c \in joined[r] <=> r = q
      BY <2>1, <3>1 DEF Joined
    <3>3. at[q] \in {"queued", "between"} \union Unanswered
      BY <2>1, <3>1 DEF Joined, Place
    <3> QED  BY <3>2, <3>3
  <2> QED  BY <2>2, <2>3
<1> QED  BY <1>1, Invariant, PTL

\* One request answers all its callers: no two equal calls wait in the queue (the pages
\* of a listing but its first differ by their cursor).
OneRequestEach ==
  \A i, j \in DOMAIN paced :
    Key[paced[i]] = Key[paced[j]] /\ {paced[i], paced[j]} \intersect later = {} => i = j

\* pacedByKey never needs to hold two calls of a key (its emplace would drop one).
THEOREM OneRequestEachHolds == Spec => []OneRequestEach
<1>1. IInv => OneRequestEach
  BY DEF IInv, Good, Placed, Queued, Lanes, OneRequestEach
<1> QED  BY <1>1, Invariant, PTL
=============================================================================
