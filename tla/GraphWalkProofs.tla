--------------------------- MODULE GraphWalkProofs ---------------------------
(***************************************************************************)
(* What is around a memory, and around the hits of a search.               *)
(*                                                                         *)
(* The walk finds what is in reach, at its distance, for any graph, depth, *)
(* relation and limit.  The list of hits and neighbours keeps its limit    *)
(* and shows the best, for any hits, graph, limit, slots and filters       *)
(* (SearchExpand).                                                         *)
(***************************************************************************)
EXTENDS GraphWalk, SearchExpand, FiniteSetTheorems, FunctionTheorems, SequenceTheorems,
        WellFoundedInduction, TLAPS

-----------------------------------------------------------------------------
(* Numbers.                                                                *)

LEMMA Least ==
  ASSUME NEW S \in SUBSET Nat, S # {}
  PROVE  \E x \in S : \A y \in S : x <= y
<1> DEFINE Less == {ss \in Nat \X Nat : ss[1] < ss[2]}
<1>1. IsWellFoundedOn(Less, Nat)
  BY NatLessThanWellFounded, Zenon DEF OpToRel
<1>2. PICK x \in S : \A y \in S : ~(<<y, x>> \in Less)
  <2> HIDE DEF Less
  <2> QED BY <1>1, WFMin
<1>3. ASSUME NEW y \in S
      PROVE  x <= y
  <2>1. <<y, x>> \notin Less
    BY <1>2
  <2>2. ~(y < x)
    BY <2>1
  <2> QED BY <2>2
<1> QED BY <1>3

\* A set of numbers that has 0, and n + 1 when it has n, has them all.
LEMMA Induction ==
  ASSUME NEW G, 0 \in G, \A n \in Nat : n \in G => n + 1 \in G
  PROVE  Nat \subseteq G
<1> DEFINE Bad == Nat \ G
<1> SUFFICES ASSUME Bad # {} PROVE FALSE
  OBVIOUS
<1>1. PICK x \in Bad : \A y \in Bad : x <= y
  BY Least
<1>2. x # 0 /\ x - 1 \in Nat
  BY <1>1
<1>3. x - 1 \in G
  BY <1>1, <1>2
<1>4. x - 1 + 1 \in G
  BY <1>2, <1>3
<1> QED BY <1>1, <1>2, <1>4

-----------------------------------------------------------------------------
(* Distances.                                                              *)

Wider(B) == B \cup UNION {Beside(a) : a \in B}

\* The recursion of WithinHops, unfolded for one distance.
LEMMA BallTo ==
  ASSUME NEW d \in Nat
  PROVE  \E ball : /\ ball[0] = {start}
                   /\ \A n \in 1..d : ball[n] = Wider(ball[n-1])
                   /\ WithinHops(d) = ball[d]
<1> DEFINE At(f, n) == IF n = 0 THEN {start} ELSE Wider(f[n-1])
           Ball(f, m) == f = [n \in 0..m |-> At(f, n)]
           G == {m \in Nat : \E f : Ball(f, m)}
<1>1. 0 \in G
  <2> DEFINE f == [n \in 0..0 |-> {start}]
  <2>1. \A n \in 0..0 : n = 0
    OBVIOUS
  <2>2. Ball(f, 0)
    BY <2>1
  <2> QED BY <2>2
<1>2. ASSUME NEW m \in Nat, m \in G
      PROVE  m + 1 \in G
  <2>1. PICK f : Ball(f, m)
    BY <1>2
  <2> DEFINE g == [n \in 0..(m+1) |-> IF n = m + 1 THEN Wider(f[m]) ELSE f[n]]
  <2>2. ASSUME NEW n \in 0..(m+1)
        PROVE  g[n] = At(g, n)
    <3>1. CASE n = m + 1
      <4>1. n - 1 = m /\ n # 0 /\ m \in 0..(m+1) /\ m # m + 1
        BY <3>1
      <4>2. g[n - 1] = f[m]
        BY <4>1
      <4> QED BY <3>1, <4>1, <4>2
    <3>2. CASE n # m + 1 /\ n # 0
      <4>1. n \in 0..m /\ n - 1 \in 0..(m+1) /\ n - 1 # m + 1
        BY <3>2
      <4>2. f[n] = Wider(f[n-1])
        BY <2>1, <3>2, <4>1
      <4> QED BY <3>2, <4>1, <4>2
    <3>3. CASE n = 0
      <4>1. n \in 0..m /\ n # m + 1
        BY <3>3
      <4>2. f[n] = {start}
        BY <2>1, <3>3, <4>1
      <4> QED BY <3>3, <4>1, <4>2
    <3> QED BY <3>1, <3>2, <3>3
  <2>3. g = [n \in 0..(m+1) |-> g[n]]
    OBVIOUS
  <2> HIDE DEF g, At
  <2>4. Ball(g, m + 1)
    BY <2>2, <2>3
  <2> QED BY <2>4
<1>3. d \in G
  <2> HIDE DEF G
  <2> QED BY <1>1, <1>2, Induction
<1> DEFINE ball == CHOOSE f : Ball(f, d)
<1>4. Ball(ball, d)
  <2>1. \E f : Ball(f, d)
    BY <1>3
  <2> HIDE DEF Ball
  <2> QED BY <2>1
<1>5. WithinHops(d) = ball[d]
  BY DEF WithinHops, Wider
<1> HIDE DEF ball
<1>6. \A n \in 0..d : ball[n] = At(ball, n)
  BY <1>4
<1>7. ball[0] = {start} /\ \A n \in 1..d : ball[n] = Wider(ball[n-1])
  BY <1>6
<1> QED BY <1>5, <1>7

\* Two unfoldings agree as far as both go.
LEMMA Balls ==
  /\ WithinHops(0) = {start}
  /\ \A d \in Nat : WithinHops(d + 1) = Wider(WithinHops(d))
<1>1. WithinHops(0) = {start}
  BY BallTo
<1>2. ASSUME NEW d \in Nat
      PROVE  WithinHops(d + 1) = Wider(WithinHops(d))
  <2>1. PICK f : /\ f[0] = {start} /\ \A n \in 1..d : f[n] = Wider(f[n-1])
                 /\ WithinHops(d) = f[d]
    BY BallTo
  <2>2. PICK g : /\ g[0] = {start} /\ \A n \in 1..(d+1) : g[n] = Wider(g[n-1])
                 /\ WithinHops(d + 1) = g[d + 1]
    <3>1. d + 1 \in Nat
      OBVIOUS
    <3> QED BY <3>1, BallTo
  <2> DEFINE G == {n \in Nat : n <= d => f[n] = g[n]}
  <2>3. 0 \in G
    BY <2>1, <2>2
  <2>4. ASSUME NEW n \in Nat, n \in G
        PROVE  n + 1 \in G
    <3> SUFFICES ASSUME n + 1 <= d PROVE f[n+1] = g[n+1]
      OBVIOUS
    <3>1. n + 1 \in 1..d /\ n + 1 \in 1..(d+1) /\ n + 1 - 1 = n /\ n <= d
      OBVIOUS
    <3>2. f[n+1] = Wider(f[n])
      BY <2>1, <3>1
    <3>3. g[n+1] = Wider(g[n])
      BY <2>2, <3>1
    <3> QED BY <2>4, <3>1, <3>2, <3>3
  <2>5. d \in G
    <3> HIDE DEF G
    <3> QED BY <2>3, <2>4, Induction
  <2>6. g[d+1] = Wider(g[d])
    <3>1. d + 1 \in 1..(d+1) /\ d + 1 - 1 = d
      OBVIOUS
    <3> QED BY <2>2, <3>1
  <2> QED BY <2>1, <2>2, <2>5, <2>6
<1> QED BY <1>1, <1>2

LEMMA Nested ==
  ASSUME NEW d \in Nat, NEW e \in Nat, d <= e
  PROVE  WithinHops(d) \subseteq WithinHops(e)
<1> DEFINE G == {n \in Nat : WithinHops(d) \subseteq WithinHops(d + n)}
<1>1. 0 \in G
  <2>1. d + 0 = d
    OBVIOUS
  <2> QED BY <2>1
<1>2. ASSUME NEW n \in Nat, n \in G
      PROVE  n + 1 \in G
  <2>1. d + n \in Nat /\ d + (n + 1) = d + n + 1
    OBVIOUS
  <2>2. WithinHops(d + n) \subseteq WithinHops(d + n + 1)
    BY <2>1, Balls DEF Wider
  <2> QED BY <1>2, <2>1, <2>2
<1>3. e - d \in G
  <2> HIDE DEF G
  <2>1. e - d \in Nat
    OBVIOUS
  <2> QED BY <1>1, <1>2, <2>1, Induction
<1>4. d + (e - d) = e
  OBVIOUS
<1> QED BY <1>3, <1>4

\* The arguments of a call stay, and so do the distances.
LEMMA Keeps ==
  ASSUME UNCHANGED args
  PROVE  /\ \A d : WithinHops(d)' = WithinHops(d)
         /\ \A a : Beside(a)' = Beside(a)
<1>1. adj' = adj /\ start' = start /\ rel' = rel
  BY DEF args
<1>2. \A a : Beside(a)' = Beside(a)
  BY <1>1 DEF Beside
<1>3. \A d : WithinHops(d)' = WithinHops(d)
  BY <1>1 DEF WithinHops, Beside
<1> QED BY <1>2, <1>3

-----------------------------------------------------------------------------
(* The inductive invariant.                                                *)

Item == [id : Node, hop : Nat]
Result == [id : Node, hop : Nat, via : Node, rel : Rel]

TypeOK ==
  /\ adj \in [Node -> Seq(LinkTo)] /\ start \in Node /\ rel \in Rel \cup {AnyRel}
  /\ depth \in Nat \ {0}
  /\ hits \in Seq(Result) /\ Len(hits) <= MaxResults
  /\ queue \in Seq(Item) /\ cur \in Item /\ links \in Seq(LinkTo)
  /\ truncated \in BOOLEAN /\ done \in BOOLEAN

\* The start and what was found.
Known == {start} \cup Found

AtDistance(n, d) == n \in WithinHops(d) /\ (d # 0 => n \notin WithinHops(d - 1))

\* What is left of a list may lead to these.
Ahead == {links[k].other : k \in {k \in DOMAIN links : rel \in {AnyRel, links[k].rel}}}

Queued == {queue[k].id : k \in DOMAIN queue}

\* Each result is right, and no memory is one twice.
HitsOK ==
  /\ \A k \in DOMAIN hits :
       LET h == hits[k]
       IN /\ h.hop \in 1..depth /\ h.hop <= cur.hop + 1
          /\ AtDistance(h.id, h.hop) /\ h.via \in WithinHops(h.hop - 1)
          /\ rel \in {AnyRel, h.rel}
          /\ \E m \in DOMAIN adj[h.via] : adj[h.via][m] = [other |-> h.id, rel |-> h.rel]
  /\ \A j, k \in DOMAIN hits : hits[j].id = hits[k].id => j = k

\* The queue is in order of distance, and spans two of them at most.
QueueOK ==
  /\ \A k \in DOMAIN queue :
       /\ queue[k].hop \in cur.hop..(cur.hop + 1) /\ queue[k].hop <= depth
       /\ AtDistance(queue[k].id, queue[k].hop)
  /\ \A j, k \in DOMAIN queue : j < k => queue[j].hop <= queue[k].hop

\* All memories as near as the one being expanded are known.
CurOK ==
  /\ AtDistance(cur.id, cur.hop) /\ cur.hop <= depth
  /\ WithinHops(cur.hop) \subseteq Known
  /\ links # <<>> => cur.hop < depth
  /\ \A k \in DOMAIN links :
       \E m \in DOMAIN adj[cur.id] : adj[cur.id][m] = links[k]

\* A known memory that may be expanded waits for it, or its neighbours are
\* known, but for those that the list at hand leads to.
Expanded ==
  \A n \in Known \cap WithinHops(depth - 1) :
    n \in Queued \/ Beside(n) \subseteq Known \cup (IF n = cur.id THEN Ahead ELSE {})

\* A walk that is over has nothing left to do, or no place for what it met.
EndOK ==
  /\ ~done => visited = Known
  /\ truncated => done
  /\ done /\ ~truncated => queue = <<>> /\ links = <<>>
  /\ truncated => /\ Len(hits) = MaxResults /\ cur.hop < depth
                  /\ \E n \in WithinHops(cur.hop + 1) : n \notin Known

Inv == TypeOK /\ HitsOK /\ QueueOK /\ CurOK /\ Expanded /\ EndOK

LEMMA TailIs ==
  ASSUME NEW S, NEW s \in Seq(S), s # <<>>
  PROVE  /\ 1 \in DOMAIN s /\ Head(s) = s[1] /\ Head(s) \in S
         /\ Tail(s) \in Seq(S) /\ Len(Tail(s)) = Len(s) - 1
         /\ \A k \in DOMAIN Tail(s) : k + 1 \in DOMAIN s /\ Tail(s)[k] = s[k+1]
         /\ \A k \in DOMAIN s : k = 1 \/ (k - 1 \in DOMAIN Tail(s) /\ Tail(s)[k-1] = s[k])
<1>1. Len(s) \in Nat \ {0} /\ DOMAIN s = 1..Len(s)
  OBVIOUS
<1>2. Tail(s) \in Seq(S) /\ Len(Tail(s)) = Len(s) - 1
  OBVIOUS
<1>3. Head(s) = s[1] /\ s[1] \in S
  BY <1>1
<1>4. DOMAIN Tail(s) = 1..(Len(s) - 1) /\ \A k \in 1..(Len(s) - 1) : Tail(s)[k] = s[k+1]
  BY <1>1, <1>2
<1>5. ASSUME NEW k \in DOMAIN s, k # 1
      PROVE  k - 1 \in DOMAIN Tail(s) /\ Tail(s)[k-1] = s[k]
  <2>1. k - 1 \in 1..(Len(s) - 1) /\ k - 1 + 1 = k
    BY <1>1, <1>5
  <2> QED BY <1>4, <2>1
<1> QED BY <1>1, <1>2, <1>3, <1>4, <1>5

LEMMA InSeq ==
  ASSUME NEW S, NEW s \in Seq(S), NEW k \in DOMAIN s
  PROVE  s[k] \in S /\ k \in Nat /\ 1 <= k /\ k <= Len(s)
  OBVIOUS

LEMMA AppendIs ==
  ASSUME NEW S, NEW s \in Seq(S), NEW e \in S
  PROVE  /\ Append(s, e) \in Seq(S) /\ Len(Append(s, e)) = Len(s) + 1
         /\ DOMAIN Append(s, e) = 1..(Len(s) + 1)
         /\ \A k \in DOMAIN s : k \in DOMAIN Append(s, e) /\ k <= Len(s) /\ Append(s, e)[k] = s[k]
         /\ Append(s, e)[Len(s) + 1] = e
         /\ \A k \in DOMAIN Append(s, e) : k \in DOMAIN s \/ k = Len(s) + 1
  OBVIOUS

\* What Beside leads to are memories, and what it adds is one hop further.
LEMMA BesideIs ==
  ASSUME TypeOK, NEW a \in Node
  PROVE  /\ Beside(a) \subseteq Node
         /\ \A d \in Nat : a \in WithinHops(d) => Beside(a) \subseteq WithinHops(d + 1)
<1>1. adj[a] \in Seq(LinkTo)
  BY DEF TypeOK
<1>2. Beside(a) \subseteq Node
  <2>1. \A k \in DOMAIN adj[a] : adj[a][k] \in LinkTo
    BY <1>1, InSeq
  <2> QED BY <2>1 DEF Beside, LinkTo
<1>3. ASSUME NEW d \in Nat, a \in WithinHops(d)
      PROVE  Beside(a) \subseteq WithinHops(d + 1)
  BY <1>3, Balls DEF Wider
<1> QED BY <1>2, <1>3

LEMMA InitInv == Init => Inv
<1> SUFFICES ASSUME Init PROVE Inv
  OBVIOUS
<1> USE WalkAssumption DEF Init
<1>1. depth \in Nat \ {0}
  BY DEF Clamp
<1>2. adj \in [Node -> Seq(LinkTo)]
  OBVIOUS
<1>3. queue \in Seq(Item) /\ Len(queue) = 1 /\ DOMAIN queue = {1}
      /\ queue[1] = [id |-> start, hop |-> 0] /\ cur \in Item
  BY DEF Item
<1>4. /\ hits \in Seq(Result) /\ Len(hits) = 0 /\ DOMAIN hits = {}
      /\ links \in Seq(LinkTo) /\ DOMAIN links = {}
  OBVIOUS
<1>5. TypeOK
  <2>1. Len(hits) <= MaxResults
    BY <1>4
  <2> QED BY <1>1, <1>2, <1>3, <1>4, <2>1 DEF TypeOK
<1>6. Known = {start} /\ Queued = {start}
  BY <1>3, <1>4 DEF Known, Found, Queued
<1>7. AtDistance(start, 0)
  BY Balls DEF AtDistance
<1>8. HitsOK
  BY <1>4 DEF HitsOK
<1>9. QueueOK
  BY <1>1, <1>3, <1>7 DEF QueueOK
<1>10. CurOK
  BY <1>1, <1>4, <1>6, <1>7, Balls DEF CurOK
<1>11. Expanded
  BY <1>6 DEF Expanded
<1>12. EndOK
  BY <1>6 DEF EndOK
<1> QED BY <1>5, <1>8, <1>9, <1>10, <1>11, <1>12 DEF Inv

\* Before the walk goes on to the next distance, all that is within this one has
\* been expanded.
LEMMA NextLevel ==
  ASSUME Inv, ~done, links = <<>>, queue # <<>>, queue[1].hop = cur.hop + 1
  PROVE  WithinHops(cur.hop + 1) \subseteq Known
<1> DEFINE p == cur.hop
<1>1. p \in Nat /\ 1 \in DOMAIN queue /\ p + 1 <= depth /\ depth \in Nat
  BY TailIs DEF Inv, TypeOK, QueueOK, Item
<1>2. ASSUME NEW n \in WithinHops(p)
      PROVE  Beside(n) \subseteq Known
  <2>1. n \in Known
    BY DEF Inv, CurOK
  <2>2. n \in WithinHops(depth - 1)
    <3>1. depth - 1 \in Nat /\ p <= depth - 1
      BY <1>1
    <3> QED BY <1>1, <1>2, <3>1, Nested
  <2>3. n \notin Queued
    <3> SUFFICES ASSUME NEW k \in DOMAIN queue, queue[k].id = n PROVE FALSE
      BY DEF Queued
    <3>1. queue[k].hop \in Nat /\ queue[k].hop >= p + 1
      <4>1. k \in Nat /\ 1 <= k /\ queue[1].hop \in Nat /\ queue[k].hop \in Nat
        <5>1. queue \in Seq(Item)
          BY DEF Inv, TypeOK
        <5>2. queue[1] \in Item /\ queue[k] \in Item /\ k \in Nat /\ 1 <= k
          BY <1>1, <5>1, InSeq
        <5> QED BY <5>2 DEF Item
      <4>2. k = 1 \/ queue[1].hop <= queue[k].hop
        BY <1>1, <4>1 DEF Inv, QueueOK
      <4> QED BY <1>1, <4>1, <4>2
    <3>2. n \notin WithinHops(queue[k].hop - 1)
      BY <1>1, <3>1 DEF Inv, QueueOK, AtDistance
    <3>3. queue[k].hop - 1 \in Nat /\ p <= queue[k].hop - 1
      BY <1>1, <3>1
    <3> QED BY <1>1, <1>2, <3>2, <3>3, Nested
  <2>4. Ahead = {}
    BY DEF Ahead
  <2> QED BY <2>1, <2>2, <2>3, <2>4 DEF Inv, Expanded
<1>3. WithinHops(p) \subseteq Known
  BY DEF Inv, CurOK
<1>4. WithinHops(p + 1) = Wider(WithinHops(p))
  BY <1>1, Balls
<1> HIDE DEF p
<1>5. WithinHops(p + 1) \subseteq Known
  BY <1>2, <1>3, <1>4 DEF Wider
<1> QED BY <1>5 DEF p

LEMMA PopStep == Inv /\ Pop => Inv'
<1> SUFFICES ASSUME Inv, Pop PROVE Inv'
  OBVIOUS
<1>1. TypeOK /\ HitsOK /\ QueueOK /\ CurOK /\ Expanded /\ EndOK
  BY DEF Inv
<1>2. /\ ~done /\ links = <<>> /\ queue # <<>>
      /\ cur' = queue[1] /\ queue' = Tail(queue)
      /\ links' = IF cur'.hop < depth THEN adj[cur'.id] ELSE <<>>
      /\ UNCHANGED <<args, hits, visited, truncated, done>>
  BY <1>1, TailIs DEF Pop, After, Within, TypeOK
<1>3. adj' = adj /\ start' = start /\ rel' = rel /\ depth' = depth
  BY <1>2 DEF args
<1>4. /\ 1 \in DOMAIN queue /\ queue[1] \in Item
      /\ Tail(queue) \in Seq(Item) /\ Len(Tail(queue)) = Len(queue) - 1
      /\ \A k \in DOMAIN queue' : k + 1 \in DOMAIN queue /\ queue'[k] = queue[k+1] /\ k \in Nat \ {0}
      /\ \A k \in DOMAIN queue : k = 1 \/ (k - 1 \in DOMAIN queue' /\ queue'[k-1] = queue[k])
  BY <1>1, <1>2, TailIs DEF TypeOK
<1>5. cur' \in Item /\ cur'.hop \in cur.hop..(cur.hop + 1) /\ cur'.hop <= depth
      /\ AtDistance(cur'.id, cur'.hop) /\ cur.hop \in Nat /\ depth \in Nat \ {0}
  BY <1>1, <1>2, <1>4 DEF QueueOK, TypeOK, Item
<1>6. /\ \A d : WithinHops(d)' = WithinHops(d)
      /\ \A a : Beside(a)' = Beside(a)
      /\ \A n, d : AtDistance(n, d)' <=> AtDistance(n, d)
  BY <1>2, Keeps DEF AtDistance
<1>7. Known' = Known
  BY <1>2, <1>3 DEF Known, Found
<1>8. TypeOK'
  BY <1>1, <1>2, <1>3, <1>4, <1>5 DEF TypeOK, Item
<1>9. HitsOK'
  <2>1. ASSUME NEW k \in DOMAIN hits
        PROVE  hits[k].hop <= cur'.hop + 1
    <3>1. hits[k].hop \in 1..depth /\ hits[k].hop <= cur.hop + 1
      BY <1>1 DEF HitsOK
    <3> QED BY <1>5, <3>1
  <2> QED BY <1>1, <1>2, <1>3, <1>6, <2>1 DEF HitsOK
<1>10. QueueOK'
  <2>1. ASSUME NEW k \in DOMAIN queue'
        PROVE  /\ queue'[k].hop \in cur'.hop..(cur'.hop + 1) /\ queue'[k].hop <= depth
               /\ AtDistance(queue'[k].id, queue'[k].hop)
    <3>1. k + 1 \in DOMAIN queue /\ 1 < k + 1 /\ queue'[k] = queue[k+1]
      BY <1>4
    <3>2. /\ queue[k+1].hop \in cur.hop..(cur.hop + 1) /\ queue[k+1].hop <= depth
          /\ AtDistance(queue[k+1].id, queue[k+1].hop) /\ queue[1].hop <= queue[k+1].hop
      BY <1>1, <1>4, <3>1 DEF QueueOK
    <3> QED BY <1>2, <1>5, <3>1, <3>2
  <2>2. ASSUME NEW j \in DOMAIN queue', NEW k \in DOMAIN queue', j < k
        PROVE  queue'[j].hop <= queue'[k].hop
    <3>1. j + 1 \in DOMAIN queue /\ k + 1 \in DOMAIN queue /\ j + 1 < k + 1
      BY <1>4, <2>2
    <3> QED BY <1>1, <1>4, <3>1 DEF QueueOK
  <2> QED BY <1>3, <1>6, <2>1, <2>2 DEF QueueOK
<1>11. WithinHops(cur'.hop) \subseteq Known
  <2>1. CASE cur'.hop = cur.hop
    BY <1>1, <2>1 DEF CurOK
  <2>2. CASE cur'.hop = cur.hop + 1
    BY <1>2, <2>2, NextLevel
  <2> QED BY <1>5, <2>1, <2>2
<1>12. CurOK'
  <2>1. links' # <<>> => cur'.hop < depth
    BY <1>2
  <2>2. \A k \in DOMAIN links' : \E m \in DOMAIN adj[cur'.id] : adj[cur'.id][m] = links'[k]
    BY <1>2
  <2> QED BY <1>3, <1>5, <1>6, <1>7, <1>11, <2>1, <2>2 DEF CurOK
<1>13. ASSUME NEW n \in Known, n \in WithinHops(depth - 1), n \notin Queued'
       PROVE  Beside(n) \subseteq Known \cup (IF n = cur'.id THEN Ahead' ELSE {})
  <2>1. CASE n = cur'.id
    <3>1. cur'.hop < depth
      <4> SUFFICES ASSUME cur'.hop = depth PROVE FALSE
        BY <1>5
      <4>1. n \notin WithinHops(depth - 1)
        BY <1>5, <2>1 DEF AtDistance
      <4> QED BY <1>13, <4>1
    <3>2. links' = adj[n]
      BY <1>2, <2>1, <3>1
    <3>3. Beside(n) \subseteq Ahead'
      BY <1>3, <3>2 DEF Beside, Ahead
    <3> QED BY <2>1, <3>3
  <2>2. CASE n # cur'.id
    <3>1. n \notin Queued
      <4> SUFFICES ASSUME NEW k \in DOMAIN queue, queue[k].id = n PROVE FALSE
        BY DEF Queued
      <4>1. k # 1
        BY <1>2, <2>2
      <4>2. k - 1 \in DOMAIN queue' /\ queue'[k-1].id = n
        BY <1>4, <4>1
      <4> QED BY <1>13, <4>2 DEF Queued
    <3>2. Ahead = {}
      BY <1>2 DEF Ahead
    <3>3. Beside(n) \subseteq Known
      BY <1>1, <1>13, <3>1, <3>2 DEF Expanded
    <3> QED BY <3>3
  <2> QED BY <2>1, <2>2
<1>14. Expanded'
  BY <1>3, <1>6, <1>7, <1>13 DEF Expanded
<1>15. EndOK'
  BY <1>1, <1>2, <1>7 DEF EndOK
<1> QED BY <1>8, <1>9, <1>10, <1>12, <1>14, <1>15 DEF Inv

LEMMA SkipStep == Inv /\ Skip => Inv'
<1> SUFFICES ASSUME Inv, Skip PROVE Inv'
  OBVIOUS
<1>1. TypeOK /\ HitsOK /\ QueueOK /\ CurOK /\ Expanded /\ EndOK
  BY DEF Inv
<1>2. /\ ~done /\ links # <<>> /\ ~Wanted(Head(links)) /\ links' = Tail(links)
      /\ UNCHANGED <<args, hits, visited, queue, cur, truncated, done>>
  BY DEF Skip
<1>3. adj' = adj /\ start' = start /\ rel' = rel /\ depth' = depth
  BY <1>2 DEF args
<1>4. /\ 1 \in DOMAIN links /\ Head(links) = links[1] /\ links' \in Seq(LinkTo)
      /\ \A k \in DOMAIN links' : k + 1 \in DOMAIN links /\ links'[k] = links[k+1]
      /\ \A k \in DOMAIN links : k = 1 \/ (k - 1 \in DOMAIN links' /\ links'[k-1] = links[k])
  BY <1>1, <1>2, TailIs DEF TypeOK
<1>5. /\ \A d : WithinHops(d)' = WithinHops(d)
      /\ \A a : Beside(a)' = Beside(a)
      /\ \A n, d : AtDistance(n, d)' <=> AtDistance(n, d)
  BY <1>2, Keeps DEF AtDistance
<1>6. Known' = Known /\ Queued' = Queued
  BY <1>2, <1>3 DEF Known, Found, Queued
<1>7. Ahead \subseteq Known \cup Ahead'
  <2> SUFFICES ASSUME NEW k \in DOMAIN links, rel \in {AnyRel, links[k].rel}
               PROVE  links[k].other \in Known \cup Ahead'
    BY DEF Ahead
  <2>1. CASE k = 1
    <3>1. links[k].other \in visited
      BY <1>2, <1>4, <2>1 DEF Wanted
    <3> QED BY <1>1, <1>2, <3>1 DEF EndOK
  <2>2. CASE k # 1
    <3>1. k - 1 \in DOMAIN links' /\ links'[k-1] = links[k]
      BY <1>4, <2>2
    <3> QED BY <1>3, <3>1 DEF Ahead
  <2> QED BY <2>1, <2>2
<1>8. TypeOK'
  BY <1>1, <1>2, <1>3, <1>4 DEF TypeOK
<1>9. HitsOK'
  BY <1>1, <1>2, <1>3, <1>5 DEF HitsOK
<1>10. QueueOK'
  BY <1>1, <1>2, <1>3, <1>5 DEF QueueOK
<1>11. CurOK'
  BY <1>1, <1>2, <1>3, <1>4, <1>5, <1>6 DEF CurOK
<1>12. Expanded'
  <2> SUFFICES ASSUME NEW n \in Known, n \in WithinHops(depth - 1), n \notin Queued
               PROVE  Beside(n) \subseteq Known \cup (IF n = cur.id THEN Ahead' ELSE {})
    BY <1>2, <1>3, <1>5, <1>6 DEF Expanded
  <2>1. Beside(n) \subseteq Known \cup (IF n = cur.id THEN Ahead ELSE {})
    BY <1>1 DEF Expanded
  <2> QED BY <1>7, <2>1
<1>13. EndOK'
  BY <1>1, <1>2, <1>6 DEF EndOK
<1> QED BY <1>8, <1>9, <1>10, <1>11, <1>12, <1>13 DEF Inv

\* A link that is wanted leads one hop further than the memory it is listed for.
LEMMA WantedIsNext ==
  ASSUME Inv, ~done, links # <<>>, Wanted(Head(links))
  PROVE  /\ Head(links) = links[1] /\ 1 \in DOMAIN links /\ links[1] \in LinkTo
         /\ links[1].other \notin Known /\ rel \in {AnyRel, links[1].rel}
         /\ cur.hop \in Nat /\ cur.hop < depth
         /\ AtDistance(links[1].other, cur.hop + 1)
         /\ \E m \in DOMAIN adj[cur.id] : adj[cur.id][m] = links[1]
<1>1. TypeOK /\ CurOK /\ EndOK
  BY DEF Inv
<1>2. Head(links) = links[1] /\ 1 \in DOMAIN links /\ links[1] \in LinkTo
  BY <1>1, TailIs DEF TypeOK
<1>3. links[1].other \notin Known /\ rel \in {AnyRel, links[1].rel}
  BY <1>1, <1>2 DEF Wanted, EndOK
<1>4. cur.hop \in Nat /\ cur.id \in Node /\ cur.hop < depth /\ cur.id \in WithinHops(cur.hop)
      /\ WithinHops(cur.hop) \subseteq Known
  BY <1>1 DEF TypeOK, Item, CurOK, AtDistance
<1>5. PICK m \in DOMAIN adj[cur.id] : adj[cur.id][m] = links[1]
  BY <1>1, <1>2 DEF CurOK
<1>6. links[1].other \in Beside(cur.id)
  BY <1>3, <1>5 DEF Beside
<1>7. links[1].other \in WithinHops(cur.hop + 1)
  BY <1>1, <1>4, <1>6, BesideIs
<1>8. links[1].other \notin WithinHops(cur.hop + 1 - 1)
  <2>1. cur.hop + 1 - 1 = cur.hop
    BY <1>4
  <2> QED BY <1>3, <1>4, <2>1
<1>9. AtDistance(links[1].other, cur.hop + 1)
  BY <1>4, <1>7, <1>8 DEF AtDistance
<1> QED BY <1>2, <1>3, <1>4, <1>5, <1>9

LEMMA CutStep == Inv /\ Cut => Inv'
<1> SUFFICES ASSUME Inv, Cut PROVE Inv'
  OBVIOUS
<1>1. TypeOK /\ HitsOK /\ QueueOK /\ CurOK /\ Expanded /\ EndOK
  BY DEF Inv
<1>2. /\ ~done /\ links # <<>> /\ Wanted(Head(links)) /\ Len(hits) = MaxResults
      /\ truncated' = TRUE /\ done' = TRUE
      /\ UNCHANGED <<args, hits, queue, cur, links>>
  BY DEF Cut, Full
<1>3. adj' = adj /\ start' = start /\ rel' = rel /\ depth' = depth
  BY <1>2 DEF args
<1>4. /\ \A d : WithinHops(d)' = WithinHops(d)
      /\ \A a : Beside(a)' = Beside(a)
      /\ \A n, d : AtDistance(n, d)' <=> AtDistance(n, d)
  BY <1>2, Keeps DEF AtDistance
<1>5. Known' = Known /\ Queued' = Queued /\ Ahead' = Ahead
  BY <1>2, <1>3 DEF Known, Found, Queued, Ahead
<1>6. TypeOK'
  BY <1>1, <1>2, <1>3 DEF TypeOK
<1>7. HitsOK'
  BY <1>1, <1>2, <1>3, <1>4 DEF HitsOK
<1>8. QueueOK'
  BY <1>1, <1>2, <1>3, <1>4 DEF QueueOK
<1>9. CurOK'
  BY <1>1, <1>2, <1>3, <1>4, <1>5 DEF CurOK
<1>10. Expanded'
  BY <1>1, <1>2, <1>3, <1>4, <1>5 DEF Expanded
<1>11. EndOK'
  <2>1. /\ links[1].other \in WithinHops(cur.hop + 1) /\ links[1].other \notin Known
        /\ cur.hop < depth
    BY <1>2, WantedIsNext DEF AtDistance
  <2> QED BY <1>2, <1>3, <1>4, <1>5, <2>1 DEF EndOK
<1> QED BY <1>6, <1>7, <1>8, <1>9, <1>10, <1>11 DEF Inv

LEMMA FinishStep == Inv /\ Finish => Inv'
<1> SUFFICES ASSUME Inv, Finish PROVE Inv'
  OBVIOUS
<1>1. TypeOK /\ HitsOK /\ QueueOK /\ CurOK /\ Expanded /\ EndOK
  BY DEF Inv
<1>2. /\ ~done /\ links = <<>> /\ queue = <<>> /\ done' = TRUE
      /\ UNCHANGED <<args, hits, visited, queue, cur, links, truncated>>
  BY DEF Finish
<1>3. adj' = adj /\ start' = start /\ rel' = rel /\ depth' = depth
  BY <1>2 DEF args
<1>4. /\ \A d : WithinHops(d)' = WithinHops(d)
      /\ \A a : Beside(a)' = Beside(a)
      /\ \A n, d : AtDistance(n, d)' <=> AtDistance(n, d)
  BY <1>2, Keeps DEF AtDistance
<1>5. Known' = Known /\ Queued' = Queued /\ Ahead' = Ahead
  BY <1>2, <1>3 DEF Known, Found, Queued, Ahead
<1>6. TypeOK'
  BY <1>1, <1>2, <1>3 DEF TypeOK
<1>7. HitsOK'
  BY <1>1, <1>2, <1>3, <1>4 DEF HitsOK
<1>8. QueueOK'
  BY <1>1, <1>2, <1>3, <1>4 DEF QueueOK
<1>9. CurOK'
  BY <1>1, <1>2, <1>3, <1>4, <1>5 DEF CurOK
<1>10. Expanded'
  BY <1>1, <1>2, <1>3, <1>4, <1>5 DEF Expanded
<1>11. EndOK'
  BY <1>1, <1>2 DEF EndOK
<1> QED BY <1>6, <1>7, <1>8, <1>9, <1>10, <1>11 DEF Inv

LEMMA HitStep == Inv /\ Hit => Inv'
<1> SUFFICES ASSUME Inv, Hit PROVE Inv'
  OBVIOUS
<1> DEFINE n == links[1].other
           h == [id |-> n, hop |-> cur.hop + 1, via |-> cur.id, rel |-> links[1].rel]
           q == [id |-> n, hop |-> cur.hop + 1]
<1>1. TypeOK /\ HitsOK /\ QueueOK /\ CurOK /\ Expanded /\ EndOK
  BY DEF Inv
<1>2. /\ ~done /\ links # <<>> /\ Wanted(Head(links)) /\ Len(hits) # MaxResults
      /\ Head(links) = links[1] /\ links' = Tail(links)
      /\ visited' = visited \cup {n} /\ hits' = Append(hits, h) /\ queue' = Append(queue, q)
      /\ UNCHANGED <<args, cur, truncated, done>>
  BY WantedIsNext DEF Hit, Full
<1>3. adj' = adj /\ start' = start /\ rel' = rel /\ depth' = depth
  BY <1>2 DEF args
<1>4. /\ links' \in Seq(LinkTo)
      /\ \A k \in DOMAIN links' : k + 1 \in DOMAIN links /\ links'[k] = links[k+1]
      /\ \A k \in DOMAIN links : k = 1 \/ (k - 1 \in DOMAIN links' /\ links'[k-1] = links[k])
  BY <1>1, <1>2, TailIs DEF TypeOK
<1>5. /\ \A d : WithinHops(d)' = WithinHops(d)
      /\ \A a : Beside(a)' = Beside(a)
      /\ \A i, d : AtDistance(i, d)' <=> AtDistance(i, d)
  BY <1>2, Keeps DEF AtDistance
<1>6. /\ n \in Node /\ n \notin Known /\ links[1].rel \in Rel /\ rel \in {AnyRel, links[1].rel}
      /\ cur.hop \in Nat /\ cur.id \in Node /\ cur.hop < depth /\ depth \in Nat
      /\ AtDistance(n, cur.hop + 1)
      /\ \E m \in DOMAIN adj[cur.id] : adj[cur.id][m] = links[1]
  BY <1>1, <1>2, WantedIsNext DEF LinkTo, TypeOK, Item
<1>7. /\ hits' \in Seq(Result) /\ Len(hits') = Len(hits) + 1
      /\ \A k \in DOMAIN hits : k \in DOMAIN hits' /\ hits'[k] = hits[k]
      /\ Len(hits) + 1 \in DOMAIN hits' /\ hits'[Len(hits) + 1] = h
      /\ \A k \in DOMAIN hits' : k \in DOMAIN hits \/ k = Len(hits) + 1
  <2>1. h \in Result /\ hits \in Seq(Result)
    BY <1>1, <1>6 DEF Result, TypeOK
  <2>2. Len(hits) + 1 \in 1..(Len(hits) + 1)
    BY <2>1
  <2> HIDE DEF h
  <2> QED BY <1>2, <2>1, <2>2, AppendIs
<1>8. /\ queue' \in Seq(Item)
      /\ \A k \in DOMAIN queue : k \in DOMAIN queue' /\ k <= Len(queue) /\ queue'[k] = queue[k]
      /\ Len(queue) + 1 \in DOMAIN queue' /\ queue'[Len(queue) + 1] = q
      /\ \A k \in DOMAIN queue' : k \in DOMAIN queue \/ k = Len(queue) + 1
  <2>1. q \in Item /\ queue \in Seq(Item)
    BY <1>1, <1>6 DEF Item, TypeOK
  <2>2. Len(queue) + 1 \in 1..(Len(queue) + 1)
    BY <2>1
  <2> HIDE DEF q
  <2> QED BY <1>2, <2>1, <2>2, AppendIs
<1>9. h.id = n /\ h.hop = cur.hop + 1 /\ h.via = cur.id /\ h.rel = links[1].rel
      /\ q.id = n /\ q.hop = cur.hop + 1
  OBVIOUS
<1> HIDE DEF h, q
<1>10. Known' = Known \cup {n} /\ Queued' = Queued \cup {n}
  <2>1. Found' = Found \cup {n}
    BY <1>7, <1>9 DEF Found
  <2>2. Queued' = Queued \cup {n}
    BY <1>8, <1>9 DEF Queued
  <2> QED BY <1>3, <2>1, <2>2 DEF Known
<1>11. Ahead \subseteq Known' \cup Ahead'
  <2> SUFFICES ASSUME NEW k \in DOMAIN links, rel \in {AnyRel, links[k].rel}
               PROVE  links[k].other \in Known' \cup Ahead'
    BY DEF Ahead
  <2>1. CASE k = 1
    BY <1>10, <2>1
  <2>2. CASE k # 1
    <3>1. k - 1 \in DOMAIN links' /\ links'[k-1] = links[k]
      BY <1>4, <2>2
    <3> QED BY <1>3, <3>1 DEF Ahead
  <2> QED BY <2>1, <2>2
<1>12. TypeOK'
  <2>1. Len(hits) + 1 <= MaxResults /\ Len(hits) \in Nat
    BY <1>1, <1>2, WalkAssumption DEF TypeOK
  <2>2. Len(hits') <= MaxResults
    BY <1>7, <2>1
  <2> QED BY <1>1, <1>2, <1>3, <1>4, <1>7, <1>8, <2>2 DEF TypeOK
<1>13. HitsOK'
  <2>1. ASSUME NEW k \in DOMAIN hits'
        PROVE  /\ hits'[k].hop \in 1..depth /\ hits'[k].hop <= cur.hop + 1
               /\ AtDistance(hits'[k].id, hits'[k].hop)
               /\ hits'[k].via \in WithinHops(hits'[k].hop - 1)
               /\ rel \in {AnyRel, hits'[k].rel}
               /\ \E m \in DOMAIN adj[hits'[k].via] :
                    adj[hits'[k].via][m] = [other |-> hits'[k].id, rel |-> hits'[k].rel]
    <3>1. CASE k \in DOMAIN hits
      <4>1. hits'[k] = hits[k]
        BY <1>7, <3>1
      <4>2. /\ hits[k].hop \in 1..depth /\ hits[k].hop <= cur.hop + 1
            /\ AtDistance(hits[k].id, hits[k].hop) /\ hits[k].via \in WithinHops(hits[k].hop - 1)
            /\ rel \in {AnyRel, hits[k].rel}
            /\ \E m \in DOMAIN adj[hits[k].via] :
                 adj[hits[k].via][m] = [other |-> hits[k].id, rel |-> hits[k].rel]
        BY <1>1, <3>1 DEF HitsOK
      <4> QED BY <4>1, <4>2
    <3>2. CASE k = Len(hits) + 1
      <4>1. cur.hop + 1 \in 1..depth /\ cur.hop + 1 - 1 = cur.hop /\ cur.hop + 1 <= cur.hop + 1
        BY <1>6
      <4>2. cur.id \in WithinHops(cur.hop)
        BY <1>1 DEF CurOK, AtDistance
      <4>3. links[1] = [other |-> n, rel |-> links[1].rel]
        BY <1>1, <1>2, WantedIsNext DEF LinkTo
      <4>4. hits'[k] = h
        BY <1>7, <3>2
      <4> QED BY <1>6, <1>9, <4>1, <4>2, <4>3, <4>4
    <3> QED BY <1>7, <3>1, <3>2
  <2>2. ASSUME NEW j \in DOMAIN hits', NEW k \in DOMAIN hits', hits'[j].id = hits'[k].id
        PROVE  j = k
    <3>1. \A i \in DOMAIN hits : hits'[i].id # n /\ hits'[i].id = hits[i].id
      BY <1>6, <1>7 DEF Known, Found
    <3>2. hits'[Len(hits) + 1].id = n
      BY <1>7, <1>9
    <3>3. j \in DOMAIN hits \/ j = Len(hits) + 1
      BY <1>7
    <3>4. k \in DOMAIN hits \/ k = Len(hits) + 1
      BY <1>7
    <3>5. CASE j \in DOMAIN hits /\ k \in DOMAIN hits
      <4>1. hits[j].id = hits[k].id
        BY <2>2, <3>1, <3>5
      <4> QED BY <1>1, <3>5, <4>1 DEF HitsOK
    <3> HIDE DEF n
    <3> QED BY <2>2, <3>1, <3>2, <3>3, <3>4, <3>5
  <2> QED BY <1>2, <1>3, <1>5, <2>1, <2>2 DEF HitsOK
<1>14. QueueOK'
  <2>1. ASSUME NEW k \in DOMAIN queue'
        PROVE  /\ queue'[k].hop \in cur.hop..(cur.hop + 1) /\ queue'[k].hop <= depth
               /\ AtDistance(queue'[k].id, queue'[k].hop)
    <3>1. CASE k \in DOMAIN queue
      BY <1>1, <1>8, <3>1 DEF QueueOK
    <3>2. CASE k = Len(queue) + 1
      <4>1. cur.hop + 1 \in cur.hop..(cur.hop + 1) /\ cur.hop + 1 <= depth
        BY <1>6
      <4>2. queue'[k] = q
        BY <1>8, <3>2
      <4> QED BY <1>6, <1>9, <4>1, <4>2
    <3> QED BY <1>8, <3>1, <3>2
  <2>2. ASSUME NEW j \in DOMAIN queue', NEW k \in DOMAIN queue', j < k
        PROVE  queue'[j].hop <= queue'[k].hop
    <3>1. /\ Len(queue) \in Nat /\ j \in Nat /\ k \in Nat
          /\ \A i \in DOMAIN queue : i \in Nat /\ i <= Len(queue)
      BY <1>1, <1>8, InSeq DEF TypeOK
    <3>2. CASE k \in DOMAIN queue
      <4>1. j \in DOMAIN queue
        BY <1>8, <2>2, <3>1, <3>2
      <4>2. queue[j].hop <= queue[k].hop
        BY <1>1, <2>2, <3>2, <4>1 DEF QueueOK
      <4> QED BY <1>8, <3>2, <4>1, <4>2
    <3>3. CASE k = Len(queue) + 1
      <4>1. queue'[k].hop = cur.hop + 1
        BY <1>8, <1>9, <3>3
      <4>2. queue'[j].hop \in cur.hop..(cur.hop + 1)
        BY <2>1
      <4> QED BY <1>6, <4>1, <4>2
    <3> QED BY <1>8, <3>2, <3>3
  <2> QED BY <1>2, <1>3, <1>5, <2>1, <2>2 DEF QueueOK
<1>15. CurOK'
  BY <1>1, <1>2, <1>3, <1>4, <1>5, <1>6, <1>10 DEF CurOK
<1>16. Expanded'
  <2> SUFFICES ASSUME NEW i \in Known \cup {n}, i \in WithinHops(depth - 1), i \notin Queued'
               PROVE  Beside(i) \subseteq Known' \cup (IF i = cur.id THEN Ahead' ELSE {})
    BY <1>2, <1>3, <1>5, <1>10 DEF Expanded
  <2>1. i \in Known /\ i \notin Queued
    BY <1>10
  <2>2. Beside(i) \subseteq Known \cup (IF i = cur.id THEN Ahead ELSE {})
    BY <1>1, <2>1 DEF Expanded
  <2> QED BY <1>10, <1>11, <2>2
<1>17. EndOK'
  BY <1>1, <1>2, <1>10 DEF EndOK
<1> QED BY <1>12, <1>13, <1>14, <1>15, <1>16, <1>17 DEF Inv

LEMMA NextInv == Inv /\ [Next]_vars => Inv'
<1> SUFFICES ASSUME Inv, [Next]_vars PROVE Inv'
  OBVIOUS
<1>1. CASE UNCHANGED vars
  <2>1. UNCHANGED <<args, hits, visited, queue, cur, links, truncated, done>>
        /\ adj' = adj /\ start' = start /\ rel' = rel /\ depth' = depth
    BY <1>1 DEF vars, args
  <2>2. /\ \A d : WithinHops(d)' = WithinHops(d)
        /\ \A a : Beside(a)' = Beside(a)
        /\ \A n, d : AtDistance(n, d)' <=> AtDistance(n, d)
    BY <2>1, Keeps DEF AtDistance
  <2>3. Known' = Known /\ Queued' = Queued /\ Ahead' = Ahead
    BY <2>1 DEF Known, Found, Queued, Ahead
  <2>4. TypeOK' /\ HitsOK' /\ QueueOK'
    BY <2>1, <2>2 DEF Inv, TypeOK, HitsOK, QueueOK
  <2>5. CurOK' /\ Expanded' /\ EndOK'
    BY <2>1, <2>2, <2>3 DEF Inv, CurOK, Expanded, EndOK
  <2> QED BY <2>4, <2>5 DEF Inv
<1>2. CASE Next
  BY <1>2, PopStep, SkipStep, HitStep, CutStep, FinishStep DEF Next
<1> QED BY <1>1, <1>2

LEMMA Invariance == Spec => []Inv
  BY InitInv, NextInv, PTL DEF Spec

-----------------------------------------------------------------------------
(* What a walk has found.                                                  *)

\* As many memories as results.
LEMMA FoundSize ==
  ASSUME Inv
  PROVE  /\ IsFiniteSet(Found) /\ Cardinality(Found) = Len(hits)
         /\ start \notin Found /\ Found \subseteq Node
<1>1. hits \in Seq(Result) /\ Len(hits) \in Nat /\ DOMAIN hits = 1..Len(hits)
  BY DEF Inv, TypeOK
<1> DEFINE f == [k \in 1..Len(hits) |-> hits[k].id]
<1>2. f \in Bijection(1..Len(hits), Found)
  <2>1. f \in [1..Len(hits) -> Found]
    BY <1>1 DEF Found
  <2>2. \A j, k \in 1..Len(hits) : f[j] = f[k] => j = k
    BY <1>1 DEF Inv, HitsOK
  <2>3. \A n \in Found : \E k \in 1..Len(hits) : f[k] = n
    BY <1>1 DEF Found
  <2> HIDE DEF f
  <2> QED BY <2>1, <2>2, <2>3 DEF Bijection, Injection, Surjection, IsInjective
<1>3. IsFiniteSet(1..Len(hits)) /\ Cardinality(1..Len(hits)) = Len(hits)
  BY <1>1, FS_Interval
<1>4. IsFiniteSet(Found) /\ Cardinality(Found) = Len(hits)
  <2>1. ExistsBijection(1..Len(hits), Found)
    BY <1>2 DEF ExistsBijection
  <2> QED BY <1>3, <2>1, FS_Bijection
<1>5. ASSUME NEW k \in DOMAIN hits
      PROVE  hits[k].id # start /\ hits[k].id \in Node
  <2>1. hits[k].hop \in 1..depth /\ AtDistance(hits[k].id, hits[k].hop)
    BY DEF Inv, HitsOK
  <2>2. hits[k].hop # 0 /\ hits[k].hop - 1 \in Nat /\ 0 <= hits[k].hop - 1
    BY <2>1
  <2>3. hits[k].id \notin WithinHops(hits[k].hop - 1)
    BY <2>1, <2>2 DEF AtDistance
  <2>4. start \in WithinHops(hits[k].hop - 1)
    BY <2>2, Balls, Nested
  <2>5. hits[k] \in Result
    BY <1>1, InSeq
  <2> QED BY <2>3, <2>4, <2>5 DEF Result
<1> QED BY <1>4, <1>5 DEF Found

\* Every result is at its true distance, reached by a link of the relation asked
\* for from a memory one hop nearer, and no memory is one twice (Graph::related).
THEOREM AlwaysDistance == Spec => []HopIsDistance
<1>1. ASSUME Inv
      PROVE  HopIsDistance
  <2>1. ASSUME NEW k \in DOMAIN hits
        PROVE  /\ hits[k].id \in WithinHops(hits[k].hop) \ WithinHops(hits[k].hop - 1)
               /\ hits[k].via \in WithinHops(hits[k].hop - 1)
               /\ rel \in {AnyRel, hits[k].rel}
               /\ \E m \in DOMAIN adj[hits[k].via] :
                    adj[hits[k].via][m] = [other |-> hits[k].id, rel |-> hits[k].rel]
    <3>1. hits[k].hop \in 1..depth /\ AtDistance(hits[k].id, hits[k].hop)
      BY <1>1 DEF Inv, HitsOK
    <3>2. hits[k].hop # 0
      BY <3>1
    <3> QED BY <1>1, <3>1, <3>2 DEF Inv, HitsOK, AtDistance
  <2> QED BY <1>1, <2>1, FoundSize DEF HopIsDistance
<1> QED BY <1>1, Invariance, PTL

\* What a walk that was not cut knows is all that is in reach.
LEMMA Complete ==
  ASSUME Inv, done, ~truncated
  PROVE  WithinHops(depth) = Known
<1>1. TypeOK /\ HitsOK /\ Expanded /\ EndOK
  BY DEF Inv
<1>2. depth \in Nat \ {0} /\ depth - 1 \in Nat
  BY <1>1 DEF TypeOK
<1>3. Queued = {} /\ Ahead = {}
  BY <1>1 DEF EndOK, Queued, Ahead
<1> DEFINE G == {d \in Nat : d <= depth => WithinHops(d) \subseteq Known}
<1>4. 0 \in G
  BY Balls DEF Known
<1>5. ASSUME NEW d \in Nat, d \in G
      PROVE  d + 1 \in G
  <2> SUFFICES ASSUME d + 1 <= depth PROVE WithinHops(d + 1) \subseteq Known
    OBVIOUS
  <2>1. WithinHops(d) \subseteq Known /\ d <= depth - 1
    BY <1>2, <1>5
  <2>2. WithinHops(d) \subseteq WithinHops(depth - 1)
    BY <1>2, <2>1, Nested
  <2>3. \A n \in WithinHops(d) : Beside(n) \subseteq Known
    BY <1>1, <1>3, <2>1, <2>2 DEF Expanded
  <2> QED BY <2>1, <2>3, Balls DEF Wider
<1>6. depth \in G
  <2> HIDE DEF G
  <2> QED BY <1>2, <1>4, <1>5, Induction
<1>7. Known \subseteq WithinHops(depth)
  <2>1. start \in WithinHops(depth)
    BY <1>2, Balls, Nested
  <2>2. ASSUME NEW k \in DOMAIN hits
        PROVE  hits[k].id \in WithinHops(depth)
    <3>1. hits[k].hop \in 1..depth /\ hits[k].id \in WithinHops(hits[k].hop)
      BY <1>1 DEF HitsOK, AtDistance
    <3>2. hits[k].hop \in Nat /\ hits[k].hop <= depth
      BY <1>2, <3>1
    <3> QED BY <1>2, <3>1, <3>2, Nested
  <2> QED BY <2>1, <2>2 DEF Known, Found
<1> QED BY <1>2, <1>6, <1>7

\* Memories in reach are memories.
LEMMA InReach ==
  ASSUME TypeOK, NEW e \in Nat
  PROVE  WithinHops(e) \subseteq Node
<1> DEFINE G == {d \in Nat : WithinHops(d) \subseteq Node}
<1>1. 0 \in G
  BY Balls DEF TypeOK
<1>2. ASSUME NEW d \in Nat, d \in G
      PROVE  d + 1 \in G
  BY <1>2, Balls, BesideIs DEF Wider
<1> HIDE DEF G
<1>3. e \in G
  BY <1>1, <1>2, Induction
<1> QED BY <1>3 DEF G

\* A walk reports all that is in reach, or says that it was cut; and then it has
\* as many results as it may, none of them further away than what it left out
\* (Graph::related, MAX_RESULTS).
THEOREM AlwaysCompleteOrCut == Spec => []CompleteOrCut
<1> DEFINE all == WithinHops(depth) \ {start}
<1>1. ASSUME Inv, done
      PROVE  /\ truncated <=> Cardinality(all) > MaxResults
             /\ ~truncated => Found = all
             /\ truncated =>
                  /\ Len(hits) = MaxResults
                  /\ \A n \in all \ Found : \A k \in DOMAIN hits :
                       n \notin WithinHops(hits[k].hop - 1)
  <2>1. TypeOK /\ HitsOK /\ CurOK /\ EndOK
    BY <1>1 DEF Inv
  <2>2. depth \in Nat /\ cur.hop \in Nat /\ Len(hits) \in Nat /\ Len(hits) <= MaxResults
    BY <2>1 DEF TypeOK, Item
  <2>3. IsFiniteSet(all) /\ Cardinality(all) \in Nat
    <3>1. all \subseteq Node
      BY <2>1, <2>2, InReach
    <3> HIDE DEF all
    <3> QED BY <3>1, WalkAssumption, FS_Subset, FS_CardinalityType
  <2>4. CASE ~truncated
    <3>1. Found = all
      BY <1>1, <2>4, Complete, FoundSize DEF Known
    <3>2. Cardinality(all) = Len(hits)
      BY <1>1, <3>1, FoundSize
    <3> HIDE DEF all
    <3> QED BY <2>2, <2>3, <2>4, <3>1, <3>2, WalkAssumption
  <2>5. CASE truncated
    <3>1. Len(hits) = MaxResults /\ cur.hop < depth
      BY <2>1, <2>5 DEF EndOK
    <3>2. PICK n \in WithinHops(cur.hop + 1) : n \notin Known
      BY <2>1, <2>5 DEF EndOK
    <3>3. ASSUME NEW k \in DOMAIN hits
          PROVE  WithinHops(hits[k].hop - 1) \subseteq Known
      <4>1. hits[k].hop \in 1..depth /\ hits[k].hop <= cur.hop + 1
        BY <2>1 DEF HitsOK
      <4>2. hits[k].hop - 1 \in Nat /\ hits[k].hop - 1 <= cur.hop
        BY <2>2, <4>1
      <4>3. WithinHops(hits[k].hop - 1) \subseteq WithinHops(cur.hop)
        BY <2>2, <4>2, Nested
      <4> QED BY <2>1, <4>3 DEF CurOK
    <3>4. Found \subseteq all
      <4> SUFFICES ASSUME NEW k \in DOMAIN hits PROVE hits[k].id \in WithinHops(depth)
        BY <1>1, FoundSize DEF Found
      <4>1. hits[k].hop \in 1..depth /\ hits[k].id \in WithinHops(hits[k].hop)
        BY <2>1 DEF HitsOK, AtDistance
      <4>2. hits[k].hop \in Nat /\ hits[k].hop <= depth
        BY <2>2, <4>1
      <4> QED BY <2>2, <4>1, <4>2, Nested
    <3>5. n \in all \ Found
      <4>1. WithinHops(cur.hop + 1) \subseteq WithinHops(depth)
        BY <2>2, <3>1, Nested
      <4> QED BY <3>2, <4>1 DEF Known
    <3>6. Cardinality(all) > MaxResults
      <4>1. Cardinality(Found) = Len(hits)
        BY <1>1, FoundSize
      <4> HIDE DEF all
      <4>2. Cardinality(Found) <= Cardinality(all) /\ Cardinality(Found) # Cardinality(all)
        BY <2>3, <3>4, <3>5, FS_Subset
      <4> QED BY <2>2, <2>3, <3>1, <4>1, <4>2
    <3>7. \A i \in all \ Found : i \notin Known
      BY DEF Known
    <3> QED BY <2>5, <3>1, <3>3, <3>6, <3>7
  <2> QED BY <2>4, <2>5
<1>2. Inv => CompleteOrCut
  BY <1>1 DEF CompleteOrCut
<1> QED BY <1>2, Invariance, PTL

-----------------------------------------------------------------------------
(* Neighbours of hits.                                                     *)

\* The arguments of the call and the hits, ranked.
ArgsOK ==
  /\ limit \in Nat \ {0} /\ slots \in Nat /\ allowed \subseteq Memory
  /\ linked \in [Memory -> SUBSET Memory]
  /\ \E n \in 1..limit : ranked \in [1..n -> [id : Memory, score : Score]]
  /\ \A j, k \in DOMAIN ranked : j < k => ranked[j].id # ranked[k].id

\* The memories linked to one of the first n hits, and not hits themselves.
Reached(n) == {i \in Memory : ~IsHit(i) /\ \E k \in 1..n : i \in linked[ranked[k].id]}

\* What has been found of a memory is a way to it, and the best so far.
WayOK(i, b, n) ==
  /\ b.score \in Nat
  /\ \E k \in 1..n :
       i \in linked[ranked[k].id] /\ b.score = ranked[k].score /\ b.via = ranked[k].id
  /\ \A k \in 1..n : i \in linked[ranked[k].id] => ranked[k].score <= b.score

BestOK ==
  /\ at \in 0..Len(ranked)
  /\ DOMAIN best = Reached(at)
  /\ \A i \in DOMAIN best : WayOK(i, best[i], at)

Passed == {e \in Candidates : e.id \in allowed}

\* The first few of S in order.
IsTop(s, S) ==
  /\ s \in Seq(S) /\ Len(s) <= limit
  /\ \A j, k \in 1..Len(s) : j < k => Before(s[j], s[k])
  /\ \A e \in S : \/ \E k \in 1..Len(s) : s[k] = e
                  \/ Len(s) = limit /\ \A k \in 1..Len(s) : Before(s[k], e)

ExtraOK == pc \in {"merge", "done"} => at = Len(ranked) /\ IsTop(extra, Passed)

\* The list returned, when the neighbours could be read and when not.
ResultOK ==
  /\ pc = "done" =>
       result = [k \in 1..(Kept + Take) |-> IF k <= Kept THEN ranked[k] ELSE extra[k - Kept]]
  /\ pc = "failed" => result = ranked

ExpandInv == ArgsOK /\ BestOK /\ ExtraOK /\ ResultOK

-----------------------------------------------------------------------------
(* Sorting.                                                                *)

\* A set of candidates with different ids, sorted.
LEMMA SortedIs ==
  ASSUME NEW S, IsFiniteSet(S),
         \A e \in S : e.score \in Nat /\ e.id \in Nat,
         \A e, f \in S : e.id = f.id => e = f
  PROVE  /\ Cardinality(S) \in Nat
         /\ Sorted(S) \in Seq(S) /\ Len(Sorted(S)) = Cardinality(S)
         /\ \A e \in S : \E k \in 1..Cardinality(S) : Sorted(S)[k] = e
         /\ \A j, k \in 1..Cardinality(S) : j < k => Before(Sorted(S)[j], Sorted(S)[k])
<1> DEFINE n == Cardinality(S)
           Less(e) == {f \in S : Before(f, e)}
           r == [e \in S |-> Cardinality(Less(e))]
<1>1. /\ \A e \in S : ~Before(e, e)
      /\ \A e, f, g \in S : Before(e, f) /\ Before(f, g) => Before(e, g)
      /\ \A e, f \in S : e # f => Before(e, f) \/ Before(f, e)
  BY DEF Before
<1>2. n \in Nat
  BY FS_CardinalityType
<1>3. ASSUME NEW e \in S
      PROVE  IsFiniteSet(Less(e)) /\ Cardinality(Less(e)) \in 0..(n - 1)
  <2>1. Less(e) \in SUBSET S /\ Less(e) # S
    BY <1>1
  <2>2. IsFiniteSet(Less(e)) /\ Cardinality(Less(e)) <= n /\ Cardinality(Less(e)) # n
    <3> HIDE DEF Less
    <3> QED BY <2>1, FS_Subset
  <2>3. Cardinality(Less(e)) \in Nat
    BY <2>2, FS_CardinalityType
  <2> QED BY <1>2, <2>2, <2>3
<1>4. /\ r \in [S -> 0..(n - 1)]
      /\ \A e \in S : r[e] = Cardinality(Less(e)) /\ r[e] \in Int
  <2>1. \A e \in S : Cardinality(Less(e)) \in 0..(n - 1)
    BY <1>3
  <2> HIDE DEF Less
  <2>2. r \in [S -> 0..(n - 1)] /\ \A e \in S : r[e] = Cardinality(Less(e))
    BY <2>1
  <2>3. 0..(n - 1) \subseteq Int
    BY <1>2
  <2> QED BY <2>1, <2>2, <2>3
<1>5. ASSUME NEW e \in S, NEW f \in S, Before(e, f)
      PROVE  r[e] < r[f]
  <2>1. Less(e) \in SUBSET Less(f) /\ e \in Less(f) /\ e \notin Less(e)
    BY <1>1, <1>5
  <2>2. IsFiniteSet(Less(f))
    BY <1>3
  <2>3. Cardinality(Less(e)) <= Cardinality(Less(f)) /\ Cardinality(Less(e)) # Cardinality(Less(f))
    <3> HIDE DEF Less
    <3> QED BY <2>1, <2>2, FS_Subset
  <2> HIDE DEF Less, r
  <2> QED BY <1>4, <2>3
<1>6. /\ DOMAIN Sorted(S) = 1..n /\ Sorted(S) = [k \in 1..n |-> Sorted(S)[k]]
      /\ \A k \in 1..n : Sorted(S)[k] = CHOOSE e \in S : Cardinality(Less(e)) = k - 1
  <2> DEFINE Nth(k) == CHOOSE e \in S : Cardinality(Less(e)) = k - 1
  <2> HIDE DEF n
  <2>1. Sorted(S) = [k \in 1..Cardinality(S) |-> Nth(k)]
    BY DEF Sorted
  <2> HIDE DEF Nth
  <2>2. Sorted(S) = [k \in 1..n |-> Nth(k)]
    BY <2>1 DEF n
  <2>3. /\ DOMAIN Sorted(S) = 1..n /\ Sorted(S) = [k \in 1..n |-> Sorted(S)[k]]
        /\ \A k \in 1..n : Sorted(S)[k] = Nth(k)
    BY <2>2
  <2> QED BY <2>3 DEF Nth
<1> HIDE DEF Less, r, n
<1>7. ASSUME NEW e \in S, NEW f \in S, r[e] = r[f]
      PROVE  e = f
  BY <1>1, <1>4, <1>5, <1>7
<1>8. \A k \in 1..n : \E e \in S : r[e] = k - 1
  <2>1. r \in Injection(S, 0..(n - 1))
    BY <1>4, <1>7, Fun_IsInj
  <2>2. IsFiniteSet(0..(n - 1)) /\ Cardinality(0..(n - 1)) = n
    BY <1>2, FS_Interval
  <2>3. r \in Surjection(S, 0..(n - 1))
    BY <2>1, <2>2, FS_Injection DEF n
  <2>4. \A t \in 0..(n - 1) : \E e \in S : r[e] = t
    BY <2>3 DEF Surjection
  <2>5. \A k \in 1..n : k - 1 \in 0..(n - 1)
    BY <1>2
  <2> QED BY <2>4, <2>5
<1>9. ASSUME NEW k \in 1..n
       PROVE  Sorted(S)[k] \in S /\ r[Sorted(S)[k]] = k - 1
  <2>1. \E e \in S : Cardinality(Less(e)) = k - 1
    BY <1>4, <1>8
  <2> QED BY <1>4, <1>6, <2>1
<1>10. Sorted(S) \in Seq(S) /\ Len(Sorted(S)) = n
  <2>1. Sorted(S) \in [1..n -> S]
    BY <1>6, <1>9
  <2> QED BY <1>2, <2>1
<1>11. ASSUME NEW e \in S
       PROVE  \E k \in 1..n : Sorted(S)[k] = e
  <2>1. r[e] \in 0..(n - 1) /\ r[e] + 1 \in 1..n /\ r[e] + 1 - 1 = r[e]
    BY <1>2, <1>4
  <2>2. Sorted(S)[r[e] + 1] = e
    BY <1>7, <1>9, <2>1
  <2> QED BY <2>1, <2>2
<1>12. ASSUME NEW j \in 1..n, NEW k \in 1..n, j < k
       PROVE  Before(Sorted(S)[j], Sorted(S)[k])
  <2>1. /\ Sorted(S)[j] \in S /\ r[Sorted(S)[j]] = j - 1
        /\ Sorted(S)[k] \in S /\ r[Sorted(S)[k]] = k - 1
    BY <1>9
  <2>2. j - 1 < k - 1 /\ ~(k - 1 < j - 1)
    BY <1>2, <1>12
  <2>3. Sorted(S)[j] # Sorted(S)[k]
    BY <2>1, <2>2
  <2> QED BY <1>1, <1>5, <2>1, <2>2, <2>3
<1> QED BY <1>2, <1>10, <1>11, <1>12 DEF n

\* What is left of a sorted list by the cut.
LEMMA FewIs ==
  ASSUME NEW S, IsFiniteSet(S), limit \in Nat,
         \A e \in S : e.score \in Nat /\ e.id \in Nat,
         \A e, f \in S : e.id = f.id => e = f
  PROVE  IsTop(FirstFew(Sorted(S)), S)
<1> DEFINE n == Cardinality(S)
           m == IF n < limit THEN n ELSE limit
           s == Sorted(S)
           t == FirstFew(s)
<1>1. /\ n \in Nat /\ s \in Seq(S) /\ Len(s) = n
      /\ \A e \in S : \E k \in 1..n : s[k] = e
      /\ \A j, k \in 1..n : j < k => Before(s[j], s[k])
  BY SortedIs
<1>2. m \in Nat /\ m <= n /\ m <= limit /\ t = SubSeq(s, 1, m)
  BY <1>1 DEF FirstFew
<1> HIDE DEF s, n, m
<1>3. \A i \in 1..m : s[i] \in S
  BY <1>1, <1>2, ElementOfSeq
<1>4. t \in Seq(S) /\ Len(t) = m /\ \A i \in 1..m : t[i] = s[i]
  BY <1>2, <1>3, SubSeqProperties
<1> HIDE DEF t
<1>5. ASSUME NEW e \in S
      PROVE  \/ \E k \in 1..m : t[k] = e
             \/ m = limit /\ \A k \in 1..m : Before(t[k], e)
  <2>1. PICK k \in 1..n : s[k] = e
    BY <1>1
  <2>2. CASE k <= m
    BY <1>1, <1>4, <2>1, <2>2
  <2>3. CASE ~(k <= m)
    <3>1. m = limit
      BY <1>1, <2>1, <2>3 DEF m
    <3>2. \A i \in 1..m : i \in 1..n /\ i < k
      BY <1>1, <1>2, <2>1, <2>3
    <3> QED BY <1>1, <1>4, <2>1, <3>1, <3>2
  <2> QED BY <2>2, <2>3
<1>6. \A j, k \in 1..m : j < k => Before(t[j], t[k])
  BY <1>1, <1>2, <1>4
<1> QED BY <1>2, <1>4, <1>5, <1>6 DEF IsTop, t, s

-----------------------------------------------------------------------------
(* The invariant.                                                          *)

LEMMA HitsAre ==
  ASSUME ArgsOK
  PROVE  /\ Len(ranked) \in 1..limit /\ DOMAIN ranked = 1..Len(ranked)
         /\ \A k \in 1..Len(ranked) : ranked[k] \in [id : Memory, score : Score]
         /\ \A k \in 1..Len(ranked) : ranked[k].id \in Memory /\ ranked[k].score \in Nat
         /\ \A j, k \in 1..Len(ranked) : ranked[j].id = ranked[k].id => j = k
<1>1. PICK n \in 1..limit : ranked \in [1..n -> [id : Memory, score : Score]]
  BY DEF ArgsOK
<1>2. limit \in Nat
  BY DEF ArgsOK
<1>3. n \in Nat /\ DOMAIN ranked = 1..n /\ Len(ranked) = n
  BY <1>1, <1>2
<1>4. \A k \in 1..n : ranked[k].id \in Memory /\ ranked[k].score \in Nat
  BY <1>1, ExpandAssumption
<1>5. \A j, k \in 1..n : ranked[j].id = ranked[k].id => j = k
  <2>1. \A j, k \in 1..n : j < k => ranked[j].id # ranked[k].id
    BY <1>3 DEF ArgsOK
  <2> QED BY <1>3, <2>1
<1> QED BY <1>1, <1>3, <1>4, <1>5

LEMMA ExpandInitOK ==
  ASSUME ExpandInit
  PROVE  ExpandInv
<1>1. /\ limit \in 1..50 /\ slots \in 0..50 /\ allowed \subseteq Memory
      /\ linked \in [Memory -> SUBSET Memory]
  BY ExpandAssumption DEF ExpandInit
<1>2. \E n \in 1..limit : ranked \in [1..n -> [id : Memory, score : Score]]
  BY DEF ExpandInit, Ranked
<1>3. \A j, k \in DOMAIN ranked : j < k => ranked[j].id # ranked[k].id
  BY DEF ExpandInit, Ranked
<1>4. ArgsOK
  BY <1>1, <1>2, <1>3 DEF ArgsOK
<1>5. BestOK
  <2>1. Len(ranked) \in Nat
    BY <1>4, HitsAre DEF ArgsOK
  <2>2. Reached(0) = {}
    BY DEF Reached
  <2> QED BY <2>1, <2>2 DEF ExpandInit, BestOK
<1> QED BY <1>4, <1>5 DEF ExpandInit, ExpandInv, ExtraOK, ResultOK

\* The hit looked at is a way to the memories linked to it, and the best one to
\* those it beats.
LEMMA ConsiderOK ==
  ASSUME ExpandInv, Consider
  PROVE  ExpandInv'
<1> DEFINE hit == ranked[at + 1]
           others == {i \in linked[hit.id] : ~IsHit(i)}
           New(i) == i \in others /\ Better(i, hit.score)
<1>1. /\ Len(ranked) \in 1..limit /\ DOMAIN ranked = 1..Len(ranked) /\ limit \in Nat
      /\ \A k \in 1..Len(ranked) : ranked[k].id \in Memory /\ ranked[k].score \in Nat
  BY HitsAre DEF ExpandInv, ArgsOK
<1>2. /\ at \in Nat /\ at + 1 \in 1..Len(ranked) /\ at' = at + 1
      /\ 1..(at + 1) = (1..at) \cup {at + 1}
  BY <1>1 DEF Consider, ExpandInv, BestOK
<1>3. /\ DOMAIN best' = DOMAIN best \cup others
      /\ \A i \in DOMAIN best' :
           best'[i] = IF New(i) THEN [score |-> hit.score, via |-> hit.id] ELSE best[i]
  BY DEF Consider
<1>4. UNCHANGED <<expandArgs, extra, result, pc>> /\ pc = "expand"
  BY DEF Consider
<1>5. linked[hit.id] \subseteq Memory
  BY <1>1, <1>2 DEF ExpandInv, ArgsOK
<1>6. DOMAIN best' = Reached(at + 1)
  <2>1. DOMAIN best = Reached(at)
    BY DEF ExpandInv, BestOK
  <2>2. others = {i \in Memory : ~IsHit(i) /\ i \in linked[hit.id]}
    BY <1>5
  <2>3. Reached(at + 1) = Reached(at) \cup {i \in Memory : ~IsHit(i) /\ i \in linked[hit.id]}
    BY <1>2 DEF Reached
  <2> QED BY <1>3, <2>1, <2>2, <2>3
<1>7. ASSUME NEW i \in DOMAIN best'
      PROVE  WayOK(i, best'[i], at + 1)
  <2>1. hit.score \in Nat
    BY <1>1, <1>2
  <2>2. i \in DOMAIN best => WayOK(i, best[i], at)
    BY DEF ExpandInv, BestOK
  <2>3. CASE New(i)
    <3>1. /\ best'[i].score = hit.score /\ best'[i].via = hit.id
          /\ i \in linked[hit.id] /\ ~IsHit(i)
      BY <1>3, <2>3
    <3>2. ASSUME NEW k \in 1..at, i \in linked[ranked[k].id]
          PROVE  ranked[k].score <= hit.score
      <4>1. ranked[k].score \in Nat
        BY <1>1, <1>2
      <4>2. i \in DOMAIN best
        BY <1>5, <3>1, <3>2 DEF ExpandInv, BestOK, Reached
      <4>3. ranked[k].score <= best[i].score /\ best[i].score \in Nat
        BY <2>2, <3>2, <4>2 DEF WayOK
      <4>4. best[i].score < hit.score
        BY <2>3, <4>2 DEF Better
      <4> QED BY <2>1, <4>1, <4>3, <4>4
    <3> QED BY <1>2, <2>1, <3>1, <3>2 DEF WayOK
  <2>4. CASE ~New(i)
    <3>1. best'[i] = best[i] /\ i \in DOMAIN best
      BY <1>3, <2>4 DEF Better
    <3>2. ~IsHit(i)
      BY <3>1 DEF ExpandInv, BestOK, Reached
    <3>3. i \in linked[hit.id] => hit.score <= best[i].score
      BY <2>1, <2>2, <2>4, <3>1, <3>2 DEF Better, WayOK
    <3> QED BY <1>2, <2>2, <3>1, <3>3 DEF WayOK
  <2> QED BY <2>3, <2>4
<1>8. ArgsOK'
  BY <1>4 DEF expandArgs, ExpandInv, ArgsOK
<1>9. BestOK'
  <2>1. at' \in 0..Len(ranked) /\ ranked' = ranked /\ linked' = linked
    BY <1>1, <1>2, <1>4 DEF expandArgs
  <2> HIDE DEF hit, others, New
  <2> QED BY <1>2, <1>6, <1>7, <2>1 DEF BestOK, WayOK, Reached, IsHit
<1> QED BY <1>4, <1>8, <1>9 DEF ExpandInv, ExtraOK, ResultOK

\* What has been found and is let through.
LEMMA WantedIs ==
  ASSUME ExpandInv
  PROVE  /\ IsFiniteSet(Passed)
         /\ \A e \in Passed :
              /\ e.id \in Nat /\ e.id \in DOMAIN best /\ e.id \in allowed
              /\ e.score \in Nat /\ e.score = best[e.id].score /\ e.via = best[e.id].via
         /\ \A e, f \in Passed : e.id = f.id => e = f
         /\ \A i \in DOMAIN best : i \in allowed => \E e \in Passed : e.id = i
<1>1. /\ DOMAIN best \subseteq Memory /\ Memory \subseteq Nat /\ IsFiniteSet(Memory)
      /\ \A i \in DOMAIN best : best[i].score \in Nat
  BY ExpandAssumption DEF ExpandInv, BestOK, Reached, WayOK
<1>2. IsFiniteSet(DOMAIN best)
  BY <1>1, FS_Subset
<1>3. IsFiniteSet(Candidates)
  <2> DEFINE f == [i \in DOMAIN best |->
                     [id |-> i, score |-> best[i].score, via |-> best[i].via]]
  <2>1. f \in [DOMAIN best -> Candidates] /\ \A e \in Candidates : \E i \in DOMAIN best : f[i] = e
    BY DEF Candidates
  <2> HIDE DEF f
  <2>2. f \in Surjection(DOMAIN best, Candidates)
    BY <2>1, Fun_IsSurj
  <2> QED BY <1>2, <2>2, FS_Surjection
<1>4. Passed \in SUBSET Candidates
  BY DEF Passed
<1>5. IsFiniteSet(Passed)
  BY <1>3, <1>4, FS_Subset
<1>6. \A e \in Passed : \E i \in DOMAIN best :
        /\ e = [id |-> i, score |-> best[i].score, via |-> best[i].via]
        /\ i \in allowed
  BY DEF Passed, Candidates
<1>7. ASSUME NEW i \in DOMAIN best, i \in allowed
      PROVE  \E e \in Passed : e.id = i
  <2> DEFINE e == [id |-> i, score |-> best[i].score, via |-> best[i].via]
  <2>1. e \in Candidates /\ e.id = i
    BY DEF Candidates
  <2> QED BY <1>7, <2>1 DEF Passed
<1>8. ASSUME NEW e \in Passed
      PROVE  /\ e.id \in DOMAIN best /\ e.id \in allowed
             /\ e = [id |-> e.id, score |-> best[e.id].score, via |-> best[e.id].via]
  <2>1. PICK i \in DOMAIN best :
          /\ e = [id |-> i, score |-> best[i].score, via |-> best[i].via]
          /\ i \in allowed
    BY <1>6
  <2>2. e.id = i
    BY <2>1
  <2> QED BY <2>1, <2>2
<1>9. \A e \in Passed : e.score = best[e.id].score /\ e.via = best[e.id].via
  BY <1>8
<1>10. \A e, f \in Passed : e.id = f.id => e = f
  BY <1>8
<1>11. \A e \in Passed : e.id \in Nat /\ e.score \in Nat
  BY <1>1, <1>8, <1>9
<1> QED BY <1>5, <1>7, <1>8, <1>9, <1>10, <1>11

LEMMA FilterOK ==
  ASSUME ExpandInv, Filter
  PROVE  ExpandInv'
<1>1. /\ UNCHANGED <<expandArgs, at, best, result>> /\ at = Len(ranked) /\ pc' = "merge"
      /\ extra' = FirstFew(Sorted(Passed))
  BY DEF Filter, Passed
<1>2. limit \in Nat
  BY DEF ExpandInv, ArgsOK
<1>3. IsTop(extra', Passed)
  <2>1. /\ IsFiniteSet(Passed)
        /\ \A e \in Passed : e.score \in Nat /\ e.id \in Nat
        /\ \A e, f \in Passed : e.id = f.id => e = f
    BY WantedIs
  <2> QED BY <1>1, <1>2, <2>1, FewIs
<1>4. ArgsOK' /\ BestOK'
  BY <1>1 DEF expandArgs, ExpandInv, ArgsOK, BestOK, WayOK, Reached, IsHit
<1>5. ExtraOK'
  BY <1>1, <1>3 DEF expandArgs, ExtraOK, IsTop, Passed, Candidates
<1> QED BY <1>1, <1>4, <1>5 DEF ExpandInv, ResultOK

LEMMA ExpandFailsOK ==
  ASSUME ExpandInv, ExpandFails
  PROVE  ExpandInv'
<1>1. UNCHANGED <<expandArgs, at, best, extra>> /\ pc' = "failed" /\ result' = ranked
  BY DEF ExpandFails
<1>2. ArgsOK' /\ BestOK'
  BY <1>1 DEF expandArgs, ExpandInv, ArgsOK, BestOK, WayOK, Reached, IsHit
<1> QED BY <1>1, <1>2 DEF expandArgs, ExpandInv, ExtraOK, ResultOK

LEMMA MergeOK ==
  ASSUME ExpandInv, Merge
  PROVE  ExpandInv'
<1>1. /\ UNCHANGED <<expandArgs, at, best, extra>> /\ pc = "merge" /\ pc' = "done"
      /\ result' = [k \in 1..(Kept + Take) |->
                      IF k <= Kept THEN ranked[k] ELSE extra[k - Kept]]
  BY DEF Merge
<1>2. ArgsOK' /\ BestOK'
  BY <1>1 DEF expandArgs, ExpandInv, ArgsOK, BestOK, WayOK, Reached, IsHit
<1>3. ExtraOK'
  <2>1. Passed' = Passed
    BY <1>1 DEF expandArgs, Passed, Candidates
  <2> QED BY <1>1, <2>1 DEF expandArgs, ExpandInv, ExtraOK, IsTop
<1>4. Kept' = Kept /\ Take' = Take /\ ranked' = ranked
  BY <1>1 DEF expandArgs, Kept, Take, Room
<1>5. ResultOK'
  BY <1>1, <1>4 DEF ResultOK
<1> QED BY <1>2, <1>3, <1>5 DEF ExpandInv

LEMMA ExpandNextOK ==
  ASSUME ExpandInv, [ExpandNext]_expandVars
  PROVE  ExpandInv'
<1>1. CASE UNCHANGED expandVars
  <2>1. UNCHANGED <<ranked, linked, limit, slots, allowed, at, best, extra, result, pc>>
    BY <1>1 DEF expandVars
  <2>2. ArgsOK' /\ BestOK'
    BY <2>1 DEF ExpandInv, ArgsOK, BestOK, WayOK, Reached, IsHit
  <2>3. ExtraOK'
    <3>1. Passed' = Passed
      BY <2>1 DEF Passed, Candidates
    <3> QED BY <2>1, <3>1 DEF ExpandInv, ExtraOK, IsTop
  <2>4. ResultOK'
    BY <2>1 DEF ExpandInv, ResultOK, Kept, Take, Room
  <2> QED BY <2>2, <2>3, <2>4 DEF ExpandInv
<1> QED BY <1>1, ConsiderOK, FilterOK, ExpandFailsOK, MergeOK DEF ExpandNext

-----------------------------------------------------------------------------
(* The list returned.                                                      *)

\* How many hits stay and how many neighbours come: no more than the limit
\* together; a hit gives way only to a neighbour in a full list, and a neighbour
\* is left out only of a full one, with every slot set aside taken.
LEMMA Places ==
  ASSUME ArgsOK, Len(extra) \in Nat, Len(extra) <= limit
  PROVE  /\ Take \in 0..Len(extra) /\ Kept \in 0..Len(ranked)
         /\ Kept + Take <= limit
         /\ \A k \in 1..Len(ranked) : k <= limit - slots => k <= Kept
         /\ Kept + Take < limit \/ Take = 0 => Kept = Len(ranked)
         /\ Take < Len(extra) \/ Len(extra) = limit =>
              /\ Kept + Take = limit
              /\ \A k \in 1..limit : k > limit - slots => k > Kept
<1>1. Len(ranked) \in Nat \ {0} /\ Len(ranked) <= limit /\ limit \in Nat /\ slots \in Nat
  BY HitsAre DEF ArgsOK
<1>2. Take \in 0..Len(extra) /\ Take <= Room
  BY <1>1 DEF Take, Room
<1>3. Kept = IF limit - Take < Len(ranked) THEN limit - Take ELSE Len(ranked)
  BY <1>1, <1>2 DEF Kept
<1>4. Room = IF slots > limit - Len(ranked) THEN slots ELSE limit - Len(ranked)
  BY <1>1 DEF Room
<1> HIDE DEF Take, Kept, Room
<1>5. Take \in Nat /\ Kept \in Nat /\ Kept <= Len(ranked)
  BY <1>1, <1>2, <1>3
<1>6. Take <= limit /\ Kept + Take <= limit
  BY <1>1, <1>2, <1>3, <1>5
<1>7. \A k \in 1..Len(ranked) : k <= limit - slots => k <= Kept
  BY <1>1, <1>2, <1>3, <1>4, <1>5
<1>8. Kept + Take < limit \/ Take = 0 => Kept = Len(ranked)
  BY <1>1, <1>3, <1>5, <1>6
<1>9. CASE Take = Len(extra)
  <2>1. Len(extra) = limit => Kept = 0 /\ Take = limit
    BY <1>1, <1>3, <1>9
  <2> QED BY <1>1, <1>2, <1>5, <1>6, <1>7, <1>8, <1>9, <2>1
<1>10. CASE Take < Len(extra)
  <2>1. Take = Room
    BY <1>10 DEF Take
  <2>2. slots <= Take /\ limit - Take <= Len(ranked)
    BY <1>1, <1>4, <1>5, <2>1
  <2>3. Kept = limit - Take
    BY <1>1, <1>3, <1>5, <2>2
  <2> QED BY <1>1, <1>2, <1>5, <1>6, <1>7, <1>8, <2>2, <2>3
<1> QED BY <1>2, <1>5, <1>9, <1>10

\* What is found of a neighbour is the best of the hits it is linked to, and how
\* it is reached from there.
LEMMA BestScore ==
  ASSUME ExpandInv, at = Len(ranked), NEW i \in DOMAIN best
  PROVE  /\ best[i].score \in Nat /\ best[i].score \in Scores(i)
         /\ \A t \in Scores(i) : t \in Nat /\ t <= best[i].score
         /\ i \in linked[best[i].via]
         /\ [id |-> best[i].via, score |-> best[i].score] \in {ranked[k] : k \in DOMAIN ranked}
<1>1. WayOK(i, best[i], Len(ranked))
  BY DEF ExpandInv, BestOK
<1>2. /\ DOMAIN ranked = 1..Len(ranked) /\ \A k \in 1..Len(ranked) : ranked[k].score \in Nat
      /\ \A k \in 1..Len(ranked) : ranked[k] \in [id : Memory, score : Score]
  BY HitsAre DEF ExpandInv, ArgsOK
<1>3. PICK k \in 1..Len(ranked) :
        i \in linked[ranked[k].id] /\ best[i].score = ranked[k].score /\ best[i].via = ranked[k].id
  BY <1>1 DEF WayOK
<1>4. ranked[k] = [id |-> best[i].via, score |-> best[i].score]
  BY <1>2, <1>3
<1> QED BY <1>1, <1>2, <1>3, <1>4 DEF WayOK, Scores

LEMMA PassedIs ==
  ASSUME ExpandInv, at = Len(ranked), NEW e \in Passed
  PROVE  /\ e.id \in Eligible /\ e.id \in linked[e.via]
         /\ [id |-> e.via, score |-> e.score] \in {ranked[k] : k \in DOMAIN ranked}
         /\ e.score \in Nat /\ e.score \in Scores(e.id)
         /\ \A t \in Scores(e.id) : t \in Nat /\ t <= e.score
<1>1. /\ e.id \in DOMAIN best /\ e.id \in allowed
      /\ e.score = best[e.id].score /\ e.via = best[e.id].via
  BY WantedIs
<1>2. ~IsHit(e.id)
  BY <1>1 DEF ExpandInv, BestOK, Reached
<1> QED BY <1>1, <1>2, BestScore DEF Eligible

\* The order of the list is that of the best hits.
LEMMA BeforeOutranks ==
  ASSUME ExpandInv, at = Len(ranked), NEW e \in Passed, NEW f \in Passed, Before(e, f)
  PROVE  Outranks(e.id, f.id)
<1> SUFFICES ASSUME NEW t \in Scores(f.id)
             PROVE  \E s \in Scores(e.id) : s > t \/ (s = t /\ e.id < f.id)
  BY DEF Outranks
<1>1. e.score \in Nat /\ e.score \in Scores(e.id)
  BY PassedIs
<1>2. f.score \in Nat /\ t \in Nat /\ t <= f.score
  BY PassedIs
<1>3. e.score > t \/ (e.score = t /\ e.id < f.id)
  BY <1>1, <1>2 DEF Before
<1> QED BY <1>1, <1>3

\* A memory that could be shown has been found.
LEMMA EligibleFound ==
  ASSUME ExpandInv, at = Len(ranked), NEW i \in Eligible
  PROVE  \E e \in Passed : e.id = i
<1>1. PICK k \in DOMAIN ranked : i \in linked[ranked[k].id]
  BY DEF Eligible, Scores
<1>2. DOMAIN ranked = 1..Len(ranked) /\ i \in Memory /\ i \in allowed /\ ~IsHit(i)
  BY HitsAre DEF ExpandInv, ArgsOK, Eligible
<1>3. i \in DOMAIN best
  BY <1>1, <1>2 DEF ExpandInv, BestOK, Reached
<1> QED BY <1>2, <1>3, WantedIs

\* The two parts of the list.
LEMMA MergedIs ==
  ASSUME ExpandInv, pc = "done"
  PROVE  /\ at = Len(ranked) /\ extra \in Seq(Passed) /\ Len(extra) \in Nat /\ Len(extra) <= limit
         /\ \A k \in 1..Len(extra) : extra[k] \in Passed
         /\ \A j, k \in 1..Len(extra) : j < k => Before(extra[j], extra[k])
         /\ \A e \in Passed : \/ \E k \in 1..Len(extra) : extra[k] = e
                              \/ Len(extra) = limit /\ \A k \in 1..Len(extra) : Before(extra[k], e)
         /\ Take \in 0..Len(extra) /\ Kept \in 0..Len(ranked)
         /\ DOMAIN result = 1..(Kept + Take) /\ Len(result) = Kept + Take
         /\ \A k \in 1..Kept : k \in 1..Len(ranked) /\ result[k] = ranked[k]
         /\ \A k \in (Kept + 1)..(Kept + Take) :
              k - Kept \in 1..Take /\ k - Kept \in 1..Len(extra) /\ result[k] = extra[k - Kept]
         /\ Neighbours = (Kept + 1)..(Kept + Take)
<1>1. /\ at = Len(ranked) /\ extra \in Seq(Passed) /\ Len(extra) <= limit
      /\ \A j, k \in 1..Len(extra) : j < k => Before(extra[j], extra[k])
      /\ \A e \in Passed : \/ \E k \in 1..Len(extra) : extra[k] = e
                           \/ Len(extra) = limit /\ \A k \in 1..Len(extra) : Before(extra[k], e)
  BY DEF ExpandInv, ExtraOK, IsTop
<1>2. Len(extra) \in Nat /\ \A k \in 1..Len(extra) : extra[k] \in Passed
  BY <1>1, LenProperties, ElementOfSeq
<1>3. /\ Len(ranked) \in Nat /\ DOMAIN ranked = 1..Len(ranked)
  BY HitsAre DEF ExpandInv, ArgsOK
<1>4. Take \in 0..Len(extra) /\ Kept \in 0..Len(ranked)
  BY <1>1, <1>2, Places DEF ExpandInv
<1>5. result = [k \in 1..(Kept + Take) |-> IF k <= Kept THEN ranked[k] ELSE extra[k - Kept]]
  BY DEF ExpandInv, ResultOK
<1> HIDE DEF Kept, Take
<1>6. Kept \in Nat /\ Take \in Nat /\ Kept + Take \in Nat
  BY <1>2, <1>3, <1>4
<1>7. DOMAIN result = 1..(Kept + Take) /\ Len(result) = Kept + Take
  BY <1>5, <1>6
<1>8. \A k \in 1..Kept : k \in 1..(Kept + Take) /\ k \in 1..Len(ranked) /\ result[k] = ranked[k]
  BY <1>3, <1>4, <1>5, <1>6
<1>9. \A k \in (Kept + 1)..(Kept + Take) :
        k - Kept \in 1..Take /\ k - Kept \in 1..Len(extra) /\ result[k] = extra[k - Kept]
  BY <1>2, <1>4, <1>5, <1>6
<1>10. Neighbours = (Kept + 1)..(Kept + Take)
  <2>1. \A k \in 1..Kept : IsHit(result[k].id)
    BY <1>3, <1>8 DEF IsHit
  <2>2. \A k \in (Kept + 1)..(Kept + Take) : ~IsHit(result[k].id)
    BY <1>1, <1>2, <1>9, PassedIs DEF Eligible
  <2>3. \A k : k \in 1..(Kept + Take) <=> k \in 1..Kept \/ k \in (Kept + 1)..(Kept + Take)
    BY <1>6
  <2> QED BY <1>7, <2>1, <2>2, <2>3 DEF Neighbours
<1> QED BY <1>1, <1>2, <1>4, <1>7, <1>8, <1>9, <1>10

LEMMA HitsFirst ==
  ASSUME ExpandInv
  PROVE  HitsThenNeighbours
<1>1. /\ Len(ranked) \in 1..limit /\ DOMAIN ranked = 1..Len(ranked) /\ limit \in Nat
      /\ \A j, k \in 1..Len(ranked) : ranked[j].id = ranked[k].id => j = k
  BY HitsAre DEF ExpandInv, ArgsOK
<1>2. CASE pc = "failed"
  <2>1. result = ranked
    BY <1>2 DEF ExpandInv, ResultOK
  <2>2. Neighbours = {} /\ (Len(ranked) + 1)..Len(ranked) = {}
    BY <1>1, <2>1 DEF Neighbours, IsHit
  <2>3. Len(ranked) \in 0..Len(result) /\ Len(result) <= limit
    BY <1>1, <2>1
  <2> QED BY <1>1, <2>1, <2>2, <2>3 DEF HitsThenNeighbours
<1>3. CASE pc = "done"
  <2> DEFINE n == Kept + Take
  <2>1. /\ at = Len(ranked) /\ Len(extra) \in Nat /\ Len(extra) <= limit
        /\ \A k \in 1..Len(extra) : extra[k] \in Passed
        /\ \A j, k \in 1..Len(extra) : j < k => Before(extra[j], extra[k])
        /\ Take \in 0..Len(extra) /\ Kept \in 0..Len(ranked)
        /\ DOMAIN result = 1..n /\ Len(result) = n
        /\ \A k \in 1..Kept : k \in 1..Len(ranked) /\ result[k] = ranked[k]
        /\ \A k \in (Kept + 1)..n : k - Kept \in 1..Len(extra) /\ result[k] = extra[k - Kept]
        /\ Neighbours = (Kept + 1)..n
    BY <1>3, MergedIs
  <2>2. n <= limit
    BY <2>1, Places DEF ExpandInv
  <2> HIDE DEF Kept, Take
  <2>3. Kept \in Nat /\ Take \in Nat /\ n \in Nat /\ Kept \in 0..n
    BY <1>1, <2>1
  <2> HIDE DEF n
  <2>4. ASSUME NEW j \in 1..Len(extra), NEW k \in 1..Len(extra), extra[j].id = extra[k].id
        PROVE  j = k
    <3>1. /\ extra[j] \in Passed /\ extra[k] \in Passed /\ extra[j] = extra[k]
          /\ extra[j].score \in Nat /\ extra[j].id \in Nat
      BY <2>1, <2>4, WantedIs
    <3>2. ~Before(extra[j], extra[k]) /\ ~Before(extra[k], extra[j])
      BY <3>1 DEF Before
    <3> QED BY <2>1, <3>2
  <2>5. ASSUME NEW j \in 1..n, NEW k \in 1..n, result[j].id = result[k].id
        PROVE  j = k
    <3>1. \A i \in 1..n : i \in 1..Kept \/ i \in (Kept + 1)..n
      BY <2>3
    <3>2. CASE j \in 1..Kept /\ k \in 1..Kept
      BY <1>1, <2>1, <2>5, <3>2
    <3>3. CASE j \in (Kept + 1)..n /\ k \in (Kept + 1)..n
      <4>1. j - Kept = k - Kept
        BY <2>1, <2>4, <2>5, <3>3
      <4> QED BY <2>3, <4>1
    <3>4. ASSUME NEW a \in 1..Kept, NEW b \in (Kept + 1)..n
          PROVE  result[a].id # result[b].id
      <4>1. IsHit(result[a].id)
        BY <1>1, <2>1 DEF IsHit
      <4>2. ~IsHit(result[b].id)
        BY <2>1 DEF Neighbours
      <4> QED BY <4>1, <4>2
    <3> QED BY <2>5, <3>1, <3>2, <3>3, <3>4
  <2> QED BY <2>1, <2>2, <2>3, <2>5 DEF HitsThenNeighbours
<1> QED BY <1>2, <1>3 DEF HitsThenNeighbours, Returned

LEMMA FewLost ==
  ASSUME ExpandInv
  PROVE  FewHitsLost
<1>1. /\ Len(ranked) \in Nat /\ DOMAIN ranked = 1..Len(ranked)
      /\ limit \in Nat /\ slots \in Nat
  BY HitsAre DEF ExpandInv, ArgsOK
<1>2. CASE pc = "failed"
  <2>1. result = ranked
    BY <1>2 DEF ExpandInv, ResultOK
  <2> QED BY <2>1 DEF FewHitsLost, Stands
<1>3. CASE pc = "done"
  <2>1. /\ Len(extra) \in Nat /\ Len(extra) <= limit
        /\ Take \in 0..Len(extra) /\ Kept \in 0..Len(ranked)
        /\ DOMAIN result = 1..(Kept + Take) /\ Len(result) = Kept + Take
        /\ \A k \in 1..Kept : result[k] = ranked[k]
        /\ Neighbours = (Kept + 1)..(Kept + Take)
    BY <1>3, MergedIs
  <2>2. /\ \A k \in 1..Len(ranked) : k <= limit - slots => k <= Kept
        /\ Kept + Take < limit \/ Take = 0 => Kept = Len(ranked)
    BY <2>1, Places DEF ExpandInv
  <2> HIDE DEF Kept, Take
  <2>3. Kept \in Nat /\ Take \in Nat
    BY <1>1, <2>1
  <2>4. Neighbours = {} => Take = 0
    <3>1. Take # 0 => Kept + 1 \in (Kept + 1)..(Kept + Take)
      BY <2>3
    <3> QED BY <2>1, <3>1
  <2>5. \A k \in 1..Kept : Stands(k)
    BY <2>1, <2>3 DEF Stands
  <2>6. ASSUME NEW k \in 1..Len(ranked),
               k <= limit - slots \/ Len(result) < limit \/ Neighbours = {}
        PROVE  k \in 1..Kept
    <3>1. Len(result) = Kept + Take
      BY <2>1
    <3>2. CASE k <= limit - slots
      <4>1. k <= Kept
        BY <2>2, <3>2
      <4> QED BY <1>1, <2>3, <4>1
    <3>3. CASE Len(result) < limit \/ Neighbours = {}
      BY <1>1, <2>2, <2>3, <2>4, <3>1, <3>3
    <3> QED BY <2>6, <3>2, <3>3
  <2> QED BY <1>1, <2>5, <2>6 DEF FewHitsLost
<1> QED BY <1>2, <1>3 DEF FewHitsLost, Returned

LEMMA BestShown ==
  ASSUME ExpandInv
  PROVE  BestNeighboursShown
<1> SUFFICES ASSUME pc = "done" PROVE BestNeighboursShown
  BY DEF BestNeighboursShown
<1> DEFINE n == Kept + Take
           Out == Eligible \ {result[k].id : k \in Neighbours}
<1>1. /\ at = Len(ranked) /\ Len(extra) \in Nat /\ Len(extra) <= limit
      /\ \A k \in 1..Len(extra) : extra[k] \in Passed
      /\ \A j, k \in 1..Len(extra) : j < k => Before(extra[j], extra[k])
      /\ \A e \in Passed : \/ \E k \in 1..Len(extra) : extra[k] = e
                           \/ Len(extra) = limit /\ \A k \in 1..Len(extra) : Before(extra[k], e)
      /\ Take \in 0..Len(extra) /\ Kept \in 0..Len(ranked)
      /\ DOMAIN result = 1..n /\ Len(result) = n
      /\ \A k \in (Kept + 1)..n :
           k - Kept \in 1..Take /\ k - Kept \in 1..Len(extra) /\ result[k] = extra[k - Kept]
      /\ Neighbours = (Kept + 1)..n
  BY MergedIs
<1>2. /\ Len(ranked) \in Nat /\ limit \in Nat /\ slots \in Nat
      /\ Take < Len(extra) \/ Len(extra) = limit =>
           n = limit /\ \A k \in 1..limit : k > limit - slots => k > Kept
  <2>1. ArgsOK
    BY DEF ExpandInv
  <2>2. Len(ranked) \in Nat /\ limit \in Nat /\ slots \in Nat
    BY <2>1, HitsAre DEF ArgsOK
  <2>3. /\ Len(extra) \in Nat /\ Len(extra) <= limit
    BY <1>1
  <2> QED BY <2>1, <2>2, <2>3, Places
<1> HIDE DEF Kept, Take
<1>3. Kept \in Nat /\ Take \in Nat /\ n \in Nat
  BY <1>1, <1>2
<1>4. ASSUME NEW k \in Neighbours
      PROVE  LET e == result[k]
             IN /\ e.id \in Eligible /\ e.id \in linked[e.via]
                /\ [id |-> e.via, score |-> e.score] \in {ranked[m] : m \in DOMAIN ranked}
                /\ \A t \in Scores(e.id) : e.score >= t
  <2>1. result[k] \in Passed
    BY <1>1
  <2>2. \A t \in Scores(result[k].id) : t \in Nat /\ t <= result[k].score /\ result[k].score \in Nat
    BY <1>1, <2>1, PassedIs
  <2>3. \A t \in Scores(result[k].id) : result[k].score >= t
    BY <2>2
  <2> QED BY <1>1, <2>1, <2>3, PassedIs
<1>5. ASSUME NEW j \in Neighbours, NEW k \in Neighbours, j < k
      PROVE  Outranks(result[j].id, result[k].id)
  <2>1. j - Kept < k - Kept
    BY <1>1, <1>3, <1>5
  <2>2. result[j] \in Passed /\ result[k] \in Passed /\ Before(result[j], result[k])
    BY <1>1, <2>1
  <2> QED BY <1>1, <2>2, BeforeOutranks
<1>6. ASSUME NEW i \in Out
      PROVE  /\ Take < Len(extra) \/ Len(extra) = limit
             /\ \A k \in Neighbours : Outranks(result[k].id, i)
  <2>1. PICK e \in Passed : e.id = i
    BY <1>1, EligibleFound
  <2>2. CASE \E m \in 1..Len(extra) : extra[m] = e
    <3>1. PICK m \in 1..Len(extra) : extra[m] = e
      BY <2>2
    <3>2. ~(m <= Take)
      <4>1. SUFFICES ASSUME m <= Take PROVE FALSE
        OBVIOUS
      <4>2. Kept + m \in (Kept + 1)..n /\ Kept + m - Kept = m
        BY <1>1, <1>3, <4>1
      <4>3. result[Kept + m].id = i /\ Kept + m \in Neighbours
        BY <1>1, <2>1, <3>1, <4>2
      <4> QED BY <4>3
    <3>3. ASSUME NEW k \in Neighbours
          PROVE  Outranks(result[k].id, i)
      <4>1. k - Kept < m
        BY <1>1, <1>3, <3>2
      <4>2. result[k] \in Passed /\ Before(result[k], e)
        BY <1>1, <3>1, <4>1
      <4> QED BY <1>1, <2>1, <4>2, BeforeOutranks
    <3>4. Take < Len(extra)
      BY <1>1, <1>3, <3>2
    <3> QED BY <3>3, <3>4
  <2>3. CASE Len(extra) = limit /\ \A k \in 1..Len(extra) : Before(extra[k], e)
    <3>1. ASSUME NEW k \in Neighbours
          PROVE  Outranks(result[k].id, i)
      <4>1. result[k] \in Passed /\ Before(result[k], e)
        BY <1>1, <2>3
      <4> QED BY <1>1, <2>1, <4>1, BeforeOutranks
    <3> QED BY <2>3, <3>1
  <2> QED BY <1>1, <2>2, <2>3
<1>7. Out # {} => Len(result) = limit /\ \A k \in DOMAIN result : k > limit - slots => k \in Neighbours
  <2> SUFFICES ASSUME Out # {}
               PROVE  Len(result) = limit /\ \A k \in DOMAIN result : k > limit - slots => k \in Neighbours
    OBVIOUS
  <2>1. n = limit /\ \A k \in 1..limit : k > limit - slots => k > Kept
    BY <1>2, <1>6
  <2> QED BY <1>1, <1>3, <2>1
<1> HIDE DEF Out
<1>8. \A i \in Out : \A k \in Neighbours : Outranks(result[k].id, i)
  BY <1>6
<1> QED BY <1>4, <1>5, <1>7, <1>8 DEF BestNeighboursShown, Out

-----------------------------------------------------------------------------

LEMMA ExpandAlways == ExpandSpec => []ExpandInv
<1>1. ExpandInit => ExpandInv
  BY ExpandInitOK
<1>2. ExpandInv /\ [ExpandNext]_expandVars => ExpandInv'
  BY ExpandNextOK
<1> QED BY <1>1, <1>2, PTL DEF ExpandSpec

\* "`expand` changes what is shown, never how much": the list keeps its limit,
\* shows nothing twice, and the direct hits come first, in their order.
THEOREM AlwaysHitsFirst == ExpandSpec => []HitsThenNeighbours
<1>1. ExpandInv => HitsThenNeighbours
  BY HitsFirst
<1> QED BY <1>1, ExpandAlways, PTL

\* A direct hit gives way only to a slot set aside for neighbours
\* (CTXDB_EXPAND_SLOTS) and only in a full list that shows one, whatever the search
\* and the expansion found; when the expansion fails all hits are shown.
THEOREM AlwaysFewHitsLost == ExpandSpec => []FewHitsLost
<1>1. ExpandInv => FewHitsLost
  BY FewLost
<1> QED BY <1>1, ExpandAlways, PTL

\* The neighbours in the list returned are the best of those that pass the filters
\* and stand in their order, each with the hit that gives it its score; one is left
\* out only of a full list whose slots set aside all hold neighbours.
THEOREM AlwaysBest == ExpandSpec => []BestNeighboursShown
<1>1. ExpandInv => BestNeighboursShown
  BY BestShown
<1> QED BY <1>1, ExpandAlways, PTL
=============================================================================
