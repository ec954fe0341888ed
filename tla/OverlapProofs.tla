---------------------------- MODULE OverlapProofs ----------------------------
(***************************************************************************)
(* The two reports, for any corpus, any distances and any order of the     *)
(* pairs and ids.                                                          *)
(***************************************************************************)
EXTENDS Overlap, FiniteSetTheorems, WellFoundedInduction, TLAPS

-----------------------------------------------------------------------------
(* Numbers.                                                                *)

LEMMA Least ==
  ASSUME NEW S \in SUBSET Nat, S # {}
  PROVE  \E x \in S : \A y \in S : x <= y
<1> DEFINE Less == {ss \in Nat \X Nat : ss[1] < ss[2]}
<1>1. IsWellFoundedOn(Less, Nat)
  BY NatLessThanWellFounded, Zenon DEF OpToRel
<1>2. PICK x \in S : \A y \in S : ~(<<y, x>> \in Less)
  <2> HIDE DEF Less
  <2> QED BY <1>1, WFMin
<1>3. ASSUME NEW y \in S
      PROVE  x <= y
  <2>1. <<y, x>> \notin Less
    BY <1>2
  <2>2. ~(y < x)
    BY <2>1
  <2> QED BY <2>2
<1> QED BY <1>3

\* A set of numbers that has 0, and n + 1 when it has n, has them all.
LEMMA Induction ==
  ASSUME NEW G, 0 \in G, \A n \in Nat : n \in G => n + 1 \in G
  PROVE  Nat \subseteq G
<1> DEFINE Bad == Nat \ G
<1> SUFFICES ASSUME Bad # {} PROVE FALSE
  OBVIOUS
<1>1. PICK x \in Bad : \A y \in Bad : x <= y
  BY Least
<1>2. x # 0 /\ x - 1 \in Nat
  BY <1>1
<1>3. x - 1 \in G
  BY <1>1, <1>2
<1>4. x - 1 + 1 \in G
  BY <1>2, <1>3
<1> QED BY <1>1, <1>2, <1>4

\* A finite set of integers has a minimum.
LEMMA MinIs ==
  ASSUME NEW S \in SUBSET Int, S # {}, IsFiniteSet(S)
  PROVE  Min(S) \in S /\ \A x \in S : Min(S) <= x
<1> DEFINE HasMin(T) == \E x \in T : \A y \in T : x <= y
           G == {n \in Nat : \A T \in SUBSET Int :
                   IsFiniteSet(T) /\ Cardinality(T) = n /\ T # {} => HasMin(T)}
<1>1. 0 \in G
  BY FS_EmptySet
<1>2. ASSUME NEW n \in Nat, n \in G
      PROVE  n + 1 \in G
  <2> SUFFICES ASSUME NEW T \in SUBSET Int, IsFiniteSet(T), Cardinality(T) = n + 1, T # {}
               PROVE  HasMin(T)
    OBVIOUS
  <2>1. PICK a \in T : TRUE
    OBVIOUS
  <2>2. IsFiniteSet(T \ {a}) /\ Cardinality(T \ {a}) = n
    <3>1. IsFiniteSet(T \ {a}) /\ Cardinality(T \ {a}) = Cardinality(T) - 1
      BY <2>1, FS_RemoveElement
    <3>2. Cardinality(T) - 1 = n
      OBVIOUS
    <3> QED BY <3>1, <3>2
  <2>3. CASE T \ {a} = {}
    BY <2>1, <2>3
  <2>4. CASE T \ {a} # {}
    <3>1. PICK x \in T \ {a} : \A y \in T \ {a} : x <= y
      BY <1>2, <2>2, <2>4
    <3>2. CASE x <= a
      BY <3>1, <3>2
    <3>3. CASE ~(x <= a)
      <4>1. \A y \in T : a <= y
        BY <2>1, <3>1, <3>3
      <4> QED BY <2>1, <4>1
    <3> QED BY <3>2, <3>3
  <2> QED BY <2>3, <2>4
<1> HIDE DEF G
<1>3. Cardinality(S) \in G
  BY <1>1, <1>2, Induction, FS_CardinalityType
<1>4. PICK x \in S : \A y \in S : x <= y
  BY <1>3 DEF G
<1>5. x \in S /\ \A y \in S : x <= y
  BY <1>4
<1>6. Min(S) \in S /\ \A y \in S : Min(S) <= y
  BY <1>5 DEF Min
<1> QED BY <1>6

\* What a function takes a finite set to is finite, and no larger.
LEMMA Image ==
  ASSUME NEW S, IsFiniteSet(S), NEW f, DOMAIN f = S
  PROVE  LET T == {f[x] : x \in S}
         IN IsFiniteSet(T) /\ Cardinality(T) <= Cardinality(S)
<1> DEFINE T == {f[x] : x \in S}
           h == [x \in S |-> f[x]]
<1>1. h \in Surjection(S, T)
  BY DEF Surjection
<1> HIDE DEF h, T
<1>2. IsFiniteSet(T) /\ Cardinality(T) <= Cardinality(S)
  BY <1>1, FS_Surjection
<1> QED BY <1>2 DEF T

-----------------------------------------------------------------------------
(* The components of a graph are its least closed sets.                    *)

Closed(S, B) == \A p \in S : p[1] \in B <=> p[2] \in B

Grown(S, B) ==
  B \cup {j \in Memory : \E k \in B : {<<j, k>>, <<k, j>>} \cap S # {}}

\* The recursion of Component, unfolded.
LEMMA Balls ==
  ASSUME NEW S, NEW i
  PROVE  \E ball : /\ ball[0] = {i}
                   /\ \A n \in 1..Cardinality(Memory) : ball[n] = Grown(S, ball[n-1])
                   /\ Component(S, i) = ball[Cardinality(Memory)]
<1> DEFINE N == Cardinality(Memory)
           At(f, n) == IF n = 0 THEN {i} ELSE Grown(S, f[n-1])
           Ball(f, m) == f = [n \in 0..m |-> At(f, n)]
           G == {m \in Nat : \E f : Ball(f, m)}
<1>1. N \in Nat
  BY OverlapAssumption, FS_CardinalityType
<1>2. 0 \in G
  <2> DEFINE f == [n \in 0..0 |-> {i}]
  <2>1. \A n \in 0..0 : n = 0
    OBVIOUS
  <2>2. Ball(f, 0)
    BY <2>1
  <2> QED BY <2>2
<1>3. ASSUME NEW m \in Nat, m \in G
      PROVE  m + 1 \in G
  <2>1. PICK f : Ball(f, m)
    BY <1>3
  <2> DEFINE g == [n \in 0..(m+1) |-> IF n = m + 1 THEN Grown(S, f[m]) ELSE f[n]]
  <2>2. ASSUME NEW n \in 0..(m+1)
        PROVE  g[n] = At(g, n)
    <3>1. CASE n = m + 1
      <4>1. n - 1 = m /\ n # 0 /\ m \in 0..(m+1) /\ m # m + 1
        BY <3>1
      <4>2. g[n - 1] = f[m]
        BY <4>1
      <4> QED BY <3>1, <4>1, <4>2
    <3>2. CASE n # m + 1 /\ n # 0
      <4>1. n \in 0..m /\ n - 1 \in 0..(m+1) /\ n - 1 # m + 1
        BY <3>2
      <4>2. f[n] = Grown(S, f[n-1])
        BY <2>1, <3>2, <4>1
      <4> QED BY <3>2, <4>1, <4>2
    <3>3. CASE n = 0
      <4>1. n \in 0..m /\ n # m + 1
        BY <3>3
      <4>2. f[n] = {i}
        BY <2>1, <3>3, <4>1
      <4> QED BY <3>3, <4>1, <4>2
    <3> QED BY <3>1, <3>2, <3>3
  <2>3. g = [n \in 0..(m+1) |-> g[n]]
    OBVIOUS
  <2> HIDE DEF g, At
  <2>4. Ball(g, m + 1)
    BY <2>2, <2>3
  <2> QED BY <2>4
<1>4. N \in G
  <2> HIDE DEF G
  <2> QED BY <1>1, <1>2, <1>3, Induction
<1> DEFINE ball == CHOOSE f : Ball(f, N)
<1>5. Ball(ball, N)
  <2>1. \E f : Ball(f, N)
    BY <1>4
  <2> HIDE DEF Ball
  <2> QED BY <2>1
<1>6. Component(S, i) = ball[N]
  BY DEF Component, Grown
<1> HIDE DEF ball
<1>7. \A n \in 0..N : ball[n] = At(ball, n)
  BY <1>5
<1>8. ball[0] = {i} /\ \A n \in 1..N : ball[n] = Grown(S, ball[n-1])
  BY <1>1, <1>7
<1> QED BY <1>6, <1>8

LEMMA ComponentIs ==
  ASSUME NEW S \in SUBSET Pair, NEW i \in Memory
  PROVE  LET C == Component(S, i)
         IN /\ i \in C /\ C \subseteq Memory /\ Closed(S, C)
            /\ \A B : i \in B /\ Closed(S, B) => C \subseteq B
<1> DEFINE N == Cardinality(Memory)
<1>1. N \in Nat /\ IsFiniteSet(Memory)
  BY OverlapAssumption, FS_CardinalityType
<1>2. PICK ball : /\ ball[0] = {i}
                  /\ \A n \in 1..N : ball[n] = Grown(S, ball[n-1])
                  /\ Component(S, i) = ball[N]
  BY Balls
<1> HIDE DEF N
<1>3. \A n \in Nat : n + 1 <= N => ball[n+1] = Grown(S, ball[n])
  <2> SUFFICES ASSUME NEW n \in Nat, n + 1 <= N PROVE ball[n+1] = Grown(S, ball[n])
    OBVIOUS
  <2>1. n + 1 \in 1..N /\ n + 1 - 1 = n
    BY <1>1
  <2> QED BY <1>2, <2>1
\* Each ball is larger than the one before, until one is closed.
<1> DEFINE Good(n) == /\ i \in ball[n] /\ ball[n] \subseteq Memory
                      /\ Cardinality(ball[n]) > n \/ Grown(S, ball[n]) = ball[n]
           G == {n \in Nat : n <= N => Good(n)}
<1>4. 0 \in G
  <2>1. Cardinality(ball[0]) = 1
    BY <1>2, FS_Singleton
  <2>2. Good(0)
    BY <1>2, <2>1
  <2> QED BY <2>2
<1>5. ASSUME NEW n \in Nat, n \in G
      PROVE  n + 1 \in G
  <2> SUFFICES ASSUME n + 1 <= N PROVE Good(n + 1)
    OBVIOUS
  <2>1. Good(n) /\ ball[n+1] = Grown(S, ball[n])
    BY <1>1, <1>3, <1>5
  <2>2. i \in ball[n+1] /\ ball[n+1] \subseteq Memory /\ ball[n] \subseteq ball[n+1]
    BY <2>1 DEF Grown
  <2>3. CASE Grown(S, ball[n]) = ball[n]
    BY <2>1, <2>2, <2>3
  <2>4. CASE Grown(S, ball[n]) # ball[n]
    <3>1. IsFiniteSet(ball[n+1]) /\ Cardinality(ball[n+1]) \in Nat
      BY <1>1, <2>2, FS_Subset, FS_CardinalityType
    <3>2. IsFiniteSet(ball[n]) /\ Cardinality(ball[n]) \in Nat
      BY <2>2, <3>1, FS_Subset, FS_CardinalityType
    <3>3. Cardinality(ball[n]) <= Cardinality(ball[n+1])
      BY <2>2, <3>1, FS_Subset
    <3>4. Cardinality(ball[n]) # Cardinality(ball[n+1])
      BY <2>1, <2>2, <2>4, <3>1, FS_Subset
    <3>5. Cardinality(ball[n]) > n
      BY <2>1, <2>4
    <3>6. Cardinality(ball[n+1]) > n + 1
      BY <3>1, <3>2, <3>3, <3>4, <3>5
    <3> QED BY <2>2, <3>6
  <2> QED BY <2>3, <2>4
<1>6. Good(N)
  <2> HIDE DEF Good
  <2>1. Nat \subseteq G
    <3> HIDE DEF G
    <3> QED BY <1>4, <1>5, Induction
  <2>2. N \in G /\ N <= N
    BY <1>1, <2>1
  <2> QED BY <2>2
<1>7. Grown(S, ball[N]) = ball[N]
  <2>1. Cardinality(ball[N]) <= N /\ Cardinality(ball[N]) \in Nat
    BY <1>1, <1>6, FS_Subset, FS_CardinalityType DEF N
  <2>2. ~(Cardinality(ball[N]) > N)
    BY <1>1, <2>1
  <2> QED BY <1>6, <2>2
<1>8. Closed(S, ball[N])
  <2> SUFFICES ASSUME NEW p \in S PROVE p[1] \in ball[N] <=> p[2] \in ball[N]
    BY DEF Closed
  <2>1. p = <<p[1], p[2]>> /\ p[1] \in Memory /\ p[2] \in Memory
    BY DEF Pair
  <2>2. ASSUME p[1] \in ball[N] PROVE p[2] \in ball[N]
    <3>1. p[2] \in Grown(S, ball[N])
      BY <2>1, <2>2 DEF Grown
    <3> QED BY <1>7, <3>1
  <2>3. ASSUME p[2] \in ball[N] PROVE p[1] \in ball[N]
    <3>1. p[1] \in Grown(S, ball[N])
      BY <2>1, <2>3 DEF Grown
    <3> QED BY <1>7, <3>1
  <2> QED BY <2>2, <2>3
<1>9. ASSUME NEW B, i \in B, Closed(S, B)
      PROVE  ball[N] \subseteq B
  <2> DEFINE H == {n \in Nat : n <= N => ball[n] \subseteq B}
  <2>1. 0 \in H
    BY <1>2, <1>9
  <2>2. ASSUME NEW n \in Nat, n \in H
        PROVE  n + 1 \in H
    <3> SUFFICES ASSUME n + 1 <= N PROVE ball[n+1] \subseteq B
      OBVIOUS
    <3>1. ball[n] \subseteq B /\ ball[n+1] = Grown(S, ball[n])
      BY <1>1, <1>3, <2>2
    <3>2. ASSUME NEW j \in Memory, NEW k \in ball[n], {<<j, k>>, <<k, j>>} \cap S # {}
          PROVE  j \in B
      <4>1. CASE <<j, k>> \in S
        BY <1>9, <3>1, <4>1 DEF Closed
      <4>2. CASE <<k, j>> \in S
        BY <1>9, <3>1, <4>2 DEF Closed
      <4> QED BY <3>2, <4>1, <4>2
    <3> QED BY <3>1, <3>2 DEF Grown
  <2> HIDE DEF H
  <2>3. Nat \subseteq H
    BY <2>1, <2>2, Induction
  <2>4. N \in H /\ N <= N
    BY <1>1, <2>3
  <2> QED BY <2>4 DEF H
<1> QED BY <1>2, <1>6, <1>8, <1>9 DEF N

-----------------------------------------------------------------------------
(* The invariant.                                                          *)

Ends(P) == UNION {{p[1], p[2]} : p \in P}
Finding == pc \in {"climb", "compress"}
Pairing == pc = "next" \/ (Finding /\ pair # NoPair)
Grouping == pc = "member" \/ (Finding /\ pair = NoPair)
Clustered == pc \in {"next", "climb", "compress", "member"}
Ids == DOMAIN parent

Shapes ==
  /\ dist \in [Pair -> Int] /\ summary \subseteq Memory /\ tight \in Int /\ wide \in Int
  /\ live \subseteq Memory /\ pairs \subseteq Pair /\ todo \subseteq pairs
  /\ pc \in {"pairs", "next", "climb", "compress", "member", "print", "graph", "near",
             "suggest", "done"}

\* rt gives each id the root that find comes to: roots are their own parents,
\* an id has the root of its parent, and ids with one root cannot be told apart
\* by a set that the pairs do not leave.
Rooted(D, par, S, rt) ==
  /\ par \in [D -> D] /\ rt \in [D -> D]
  /\ \A i \in D : rt[par[i]] = rt[i] /\ par[rt[i]] = rt[i] /\ (par[i] = i => rt[i] = i)
  /\ \A B : Closed(S, B) => \A i \in D : i \in B <=> rt[i] \in B

\* The pairs dealt with have one root each.
Joined(P, rt) == \A p \in P : rt[p[1]] = rt[p[2]]

\* A call of find is on its way from x to its root; root is that of the first
\* of the pair.
Climbing(rt) ==
  /\ {find.x, find.root, find.cur} \subseteq Ids
  /\ rt[find.root] = rt[find.x] /\ rt[find.cur] = rt[find.x]
  /\ pc = "compress" => find.root = rt[find.x]
  /\ pair # NoPair => /\ pair \in pairs \ todo
                      /\ find.x = IF root = 0 THEN pair[1] ELSE pair[2]
                      /\ root # 0 => root = rt[pair[1]]
  /\ pair = NoPair => find.x \notin member

\* Ids are grouped by root, those that have been looked at.
GroupedBy(P, rt) ==
  /\ DOMAIN group = {rt[i] : i \in P}
  /\ \A r \in DOMAIN group : group[r] = {i \in P : rt[i] = r}

Placed == (Ids \ member) \ (IF Finding THEN {find.x} ELSE {})

Framed ==
  /\ Ids = Ends(pairs \ todo) /\ DOMAIN find = {"x", "root", "cur"}
  /\ pc = "next" => pair = NoPair /\ root = 0
  /\ Pairing => group = [i \in {} |-> {}]
  /\ Grouping => todo = {} /\ pair = NoPair /\ root = 0 /\ member \subseteq Ids

Tree(rt) ==
  /\ Rooted(Ids, parent, pairs, rt)
  /\ Joined((pairs \ todo) \ {pair}, rt)
  /\ Finding => Climbing(rt)
  /\ Grouping => GroupedBy(Placed, rt)

Fresh ==
  pc = "pairs" => /\ pair = NoPair /\ parent = [i \in {} |-> 0] /\ find = NoFind /\ root = 0
                  /\ group = [i \in {} |-> {}] /\ pairs = {} /\ printed = {}

Clustering == Clustered => Framed /\ \E rt : Tree(rt)

Clusters ==
  pc = "print" => Groups = {Component(pairs, i) : i \in Ends(pairs)}

\* What is printed.
Rows ==
  /\ IsFiniteSet(printed)
  /\ \A c \in printed :
       /\ c.ids \ c.listed \subseteq Memory \ live
       /\ \E p \in pairs : {p[1], p[2]} \subseteq c.ids /\ dist[p] = c.closest
       /\ \A p \in pairs : {p[1], p[2]} \subseteq c.ids => dist[p] >= c.closest

\* What the two reports have read, as long as nobody hides a memory.
Reads ==
  /\ ~Waiting /\ pc # "done" => live = Memory
  /\ pc # "pairs" => pairs = {p \in Pair : dist[p] <= tight}
  /\ graph \subseteq linked
  /\ live = Memory /\ wide > MergeBand =>
       /\ pc = "suggest" => near = {p \in Pair : dist[p] <= wide}
       /\ pc = "done" =>
            suggested = {p \in Pair : /\ dist[p] <= wide /\ BeyondBand(p)
                                      /\ {p[1], p[2]} \cap summary = {} /\ p \notin graph}

Inv == Shapes /\ Fresh /\ Clustering /\ Clusters /\ Rows /\ Reads

\* A step of the clustering leaves the rest alone.
LEMMA ClusterStep ==
  ASSUME Inv, Clustered, Clustered', todo' \subseteq todo,
         UNCHANGED <<corpus, store, pairs, printed, edges>>, Framed', NEW rt, Tree(rt)'
  PROVE  Inv'
<1>1. UNCHANGED <<dist, summary, tight, wide, live, linked, graph, near, suggested>>
  BY DEF corpus, store, edges
<1>2. Shapes' /\ Fresh'
  BY <1>1 DEF Inv, Shapes, Clustered, Fresh
<1>3. Clusters' /\ Rows'
  BY <1>1 DEF Inv, Rows, Clusters, Clustered
<1>4. Reads'
  <2>1. pc # "done" /\ ~Waiting /\ pc # "pairs"
    BY DEF Clustered, Waiting
  <2>2. pc' # "done" /\ pc' # "suggest"
    BY DEF Clustered
  <2> QED BY <1>1, <2>1, <2>2 DEF Inv, Reads
<1>5. Clustering'
  BY DEF Clustering
<1> QED BY <1>2, <1>3, <1>4, <1>5 DEF Inv

LEMMA PairIs ==
  ASSUME NEW p \in Pair
  PROVE  /\ p = <<p[1], p[2]>> /\ p[1] \in Memory /\ p[2] \in Memory /\ p # NoPair
         /\ p[1] # 0 /\ p[2] # 0 /\ p[1] \in Nat /\ p[2] \in Nat
<1>1. p = <<p[1], p[2]>> /\ p[1] \in Memory /\ p[2] \in Memory
  BY DEF Pair
<1>2. p[1] \in Nat /\ p[2] \in Nat /\ p[1] # 0 /\ p[2] # 0
  BY <1>1, OverlapAssumption
<1> QED BY <1>1, <1>2 DEF NoPair

\* What is known in each step of the clustering.
LEMMA InClustering ==
  ASSUME Inv, Clustered
  PROVE  /\ Framed /\ \E rt : Tree(rt)
         /\ pairs \subseteq Pair /\ todo \subseteq pairs /\ NoPair \notin pairs
         /\ Ids \subseteq Memory /\ 0 \notin Ids /\ Ids \subseteq Nat
         /\ \A p \in pairs \ todo : p[1] \in Ids /\ p[2] \in Ids
<1>1. Framed /\ \E rt : Tree(rt)
  BY DEF Inv, Clustering
<1>2. pairs \subseteq Pair /\ todo \subseteq pairs
  BY DEF Inv, Shapes
<1>3. NoPair \notin pairs
  BY <1>2, PairIs
<1>4. Ids = Ends(pairs \ todo)
  BY <1>1 DEF Framed
<1>5. Ids \subseteq Memory
  BY <1>2, <1>4, PairIs DEF Ends
<1>6. \A p \in pairs \ todo : p[1] \in Ids /\ p[2] \in Ids
  BY <1>4 DEF Ends
<1> QED BY <1>1, <1>2, <1>3, <1>5, <1>6, OverlapAssumption

LEMMA TakePairStep ==
  ASSUME Inv, NEW p \in todo, TakePair(p)
  PROVE  Inv'
<1>1. /\ pc = "next" /\ pc' = "climb" /\ todo' = todo \ {p} /\ pair' = p
      /\ parent' = Entered(p) /\ find' = Calling(p[1])
      /\ UNCHANGED <<corpus, store, pairs, root, member, group, printed, edges>>
  BY DEF TakePair
<1>2. Clustered /\ Clustered'
  BY <1>1 DEF Clustered
<1>3. /\ p \in pairs /\ p \in Pair /\ NoPair \notin pairs /\ p # NoPair
      /\ \A q \in pairs \ todo : q[1] \in Ids /\ q[2] \in Ids
  BY <1>2, InClustering, PairIs
<1>4. Ids = Ends(pairs \ todo) /\ pair = NoPair /\ root = 0 /\ group = [i \in {} |-> {}]
  BY <1>1, <1>2, InClustering DEF Framed, Pairing
<1>5. PICK rt : Tree(rt)
  BY <1>2, InClustering
<1>6. Rooted(Ids, parent, pairs, rt) /\ Joined((pairs \ todo) \ {pair}, rt)
  BY <1>5 DEF Tree
<1> DEFINE D == Ids \cup {p[1], p[2]}
<1>7. PICK new : new = [i \in D |-> IF i \in Ids THEN rt[i] ELSE i]
  OBVIOUS
<1>8. /\ Ids' = D /\ \A i \in D : parent'[i] = IF i \in Ids THEN parent[i] ELSE i
      /\ parent' = [i \in D |-> parent'[i]]
  BY <1>1 DEF Entered, Ids
<1>9. /\ parent \in [Ids -> Ids] /\ rt \in [Ids -> Ids]
      /\ \A i \in Ids : rt[parent[i]] = rt[i] /\ parent[rt[i]] = rt[i]
                        /\ (parent[i] = i => rt[i] = i)
      /\ \A B : Closed(pairs, B) => \A i \in Ids : i \in B <=> rt[i] \in B
  BY <1>6 DEF Rooted
<1>10. Rooted(Ids, parent, pairs, new)'
  <2>1. parent' \in [D -> D] /\ new \in [D -> D]
    BY <1>7, <1>8, <1>9
  <2>2. ASSUME NEW i \in D
        PROVE  /\ new[parent'[i]] = new[i] /\ parent'[new[i]] = new[i]
               /\ parent'[i] = i => new[i] = i
    <3>1. CASE i \in Ids
      <4>1. rt[i] \in Ids /\ parent[i] \in Ids /\ parent'[i] = parent[i]
        BY <1>8, <1>9, <3>1
      <4>2. new[i] = rt[i] /\ new[parent[i]] = rt[parent[i]] /\ parent'[rt[i]] = parent[rt[i]]
        BY <1>7, <1>8, <3>1, <4>1
      <4> QED BY <1>9, <3>1, <4>1, <4>2
    <3>2. CASE i \notin Ids
      BY <1>7, <1>8, <3>2
    <3> QED BY <3>1, <3>2
  <2>3. ASSUME NEW B, Closed(pairs, B), NEW i \in D
        PROVE  i \in B <=> new[i] \in B
    BY <1>7, <1>9, <2>3
  <2>4. pairs' = pairs /\ Ids' = D
    BY <1>1, <1>8
  <2> HIDE DEF D
  <2> QED BY <2>1, <2>2, <2>3, <2>4 DEF Rooted
<1>11. Joined((pairs \ todo) \ {pair}, new)'
  <2>1. ((pairs \ todo) \ {pair})' = (pairs \ todo) \ {p}
    BY <1>1, <1>3
  <2>2. \A q \in pairs \ todo : q # pair /\ new[q[1]] = rt[q[1]] /\ new[q[2]] = rt[q[2]]
    BY <1>3, <1>4, <1>7
  <2>3. \A q \in pairs \ todo : rt[q[1]] = rt[q[2]]
    BY <1>6, <2>2 DEF Joined
  <2>4. \A q \in ((pairs \ todo) \ {pair})' : new[q[1]] = new[q[2]]
    BY <2>1, <2>2, <2>3
  <2> QED BY <2>4 DEF Joined
<1>12. Climbing(new)'
  <2>1. find' = [x |-> p[1], root |-> p[1], cur |-> p[1]]
    BY <1>1 DEF Calling
  <2>2. pair' \in (pairs \ todo)' /\ pair' # NoPair /\ root' = 0
    BY <1>1, <1>3, <1>4
  <2>3. {find'.x, find'.root, find'.cur} \subseteq Ids' /\ find'.x = pair'[1]
    BY <1>1, <1>8, <2>1
  <2>4. pc' # "compress"
    BY <1>1
  <2> HIDE DEF D
  <2> QED BY <2>1, <2>2, <2>3, <2>4 DEF Climbing
<1>13. Finding' /\ ~Grouping' /\ pc' # "next" /\ group' = [i \in {} |-> {}]
  BY <1>1, <1>3, <1>4 DEF Finding, Grouping
<1>14. Framed'
  <2>1. (pairs \ todo)' = (pairs \ todo) \cup {p}
    BY <1>1, <1>3
  <2>2. Ids' = Ends((pairs \ todo)')
    BY <1>4, <1>8, <2>1 DEF Ends
  <2>3. DOMAIN find' = {"x", "root", "cur"}
    BY <1>1 DEF Calling
  <2> QED BY <1>13, <2>2, <2>3 DEF Framed, Ends
<1>15. Tree(new)'
  BY <1>10, <1>11, <1>12, <1>13 DEF Tree
<1> QED BY <1>1, <1>2, <1>14, <1>15, ClusterStep

LEMMA ReadPairsStep ==
  ASSUME Inv, ReadPairs
  PROVE  Inv'
<1>1. /\ pc = "pairs" /\ pairs' = Within(tight) /\ todo' = pairs'
      /\ pc' = IF todo' = {} THEN "graph" ELSE "next"
      /\ UNCHANGED <<corpus, store, pair, parent, find, root, member, group, printed, edges>>
      /\ UNCHANGED <<dist, summary, tight, wide, live, linked, graph, near, suggested>>
  BY DEF ReadPairs, corpus, store, edges
<1>2. live = Memory
  BY <1>1 DEF Inv, Reads, Waiting
<1>3. pairs' = {p \in Pair : dist[p] <= tight}
  BY <1>1, <1>2, PairIs DEF Within
<1>4. Shapes'
  BY <1>1, <1>3 DEF Inv, Shapes
<1>5. Fresh' /\ Clusters'
  BY <1>1 DEF Fresh, Clusters
<1>6. Rows'
  <2>1. printed = {}
    BY <1>1 DEF Inv, Fresh
  <2> QED BY <1>1, <2>1, FS_EmptySet DEF Rows
<1>7. Reads'
  <2>1. pc' # "done" /\ pc' # "suggest" /\ live' = Memory
    BY <1>1, <1>2
  <2> QED BY <1>1, <1>2, <1>3, <2>1 DEF Inv, Reads
<1>8. Clustering'
  <2> SUFFICES ASSUME Clustered' PROVE Framed' /\ \E rt : Tree(rt)'
    BY DEF Clustering
  <2>1. /\ pc' = "next" /\ pair' = NoPair /\ root' = 0 /\ parent' = [i \in {} |-> 0]
        /\ find' = NoFind /\ group' = [i \in {} |-> {}]
    BY <1>1 DEF Inv, Fresh, Clustered
  <2>2. (pairs \ todo)' = {} /\ Ids' = {}
    BY <1>1, <2>1 DEF Ids
  <2>3. ~Finding' /\ ~Grouping'
    BY <2>1 DEF Finding, Grouping
  <2>4. Framed'
    BY <2>1, <2>2, <2>3 DEF Framed, Ends, NoFind
  <2>5. PICK rt : rt = [i \in {} |-> 0]
    OBVIOUS
  <2>6. Rooted(Ids, parent, pairs, rt)'
    BY <2>1, <2>2, <2>5 DEF Rooted
  <2>7. Joined((pairs \ todo) \ {pair}, rt)'
    BY <2>2 DEF Joined
  <2> QED BY <2>3, <2>4, <2>6, <2>7 DEF Tree
<1> QED BY <1>4, <1>5, <1>6, <1>7, <1>8 DEF Inv

\* What the tree of a state says, for the steps of find.
LEMMA InFind ==
  ASSUME NEW rt, Tree(rt), Finding
  PROVE  /\ parent \in [Ids -> Ids] /\ rt \in [Ids -> Ids]
         /\ \A i \in Ids : rt[parent[i]] = rt[i] /\ parent[rt[i]] = rt[i]
                           /\ (parent[i] = i => rt[i] = i)
         /\ Joined((pairs \ todo) \ {pair}, rt) /\ Climbing(rt)
         /\ Grouping => GroupedBy(Placed, rt)
BY DEF Tree, Rooted

LEMMA ClimbStep ==
  ASSUME Inv, Climb
  PROVE  Inv'
<1>1. /\ pc = "climb"
      /\ UNCHANGED <<corpus, store, pairs, todo, pair, parent, root, member, group, printed,
                     edges>>
      /\ \/ parent[find.root] = find.root /\ pc' = "compress" /\ find' = find
         \/ /\ parent[find.root] # find.root /\ pc' = pc
            /\ find' = [find EXCEPT !.root = parent[find.root]]
  BY DEF Climb
<1>2. Clustered /\ Clustered' /\ Finding /\ Finding'
  BY <1>1 DEF Clustered, Finding
<1>3. PICK rt : Tree(rt)
  BY <1>2, InClustering
<1>4. /\ parent \in [Ids -> Ids] /\ rt \in [Ids -> Ids] /\ Climbing(rt)
      /\ \A i \in Ids : rt[parent[i]] = rt[i] /\ (parent[i] = i => rt[i] = i)
      /\ Joined((pairs \ todo) \ {pair}, rt) /\ Rooted(Ids, parent, pairs, rt)
      /\ Grouping => GroupedBy(Placed, rt)
  BY <1>2, <1>3, InFind DEF Tree
<1>5. Framed /\ DOMAIN find = {"x", "root", "cur"}
  BY <1>2, InClustering DEF Framed
<1>6. /\ find'.x = find.x /\ find'.cur = find.cur /\ DOMAIN find' = {"x", "root", "cur"}
      /\ find'.root = find.root \/ find'.root = parent[find.root]
  BY <1>1, <1>5
<1>7. find.root \in Ids /\ rt[find.root] = rt[find.x] /\ pc # "compress"
  BY <1>1, <1>4 DEF Climbing
<1>8. /\ find'.root \in Ids /\ rt[find'.root] = rt[find.x]
      /\ pc' = "compress" => find'.root = rt[find.x]
  BY <1>1, <1>4, <1>6, <1>7
<1>9. Climbing(rt)'
  BY <1>1, <1>4, <1>6, <1>8 DEF Climbing, Ids
<1>10. Grouping' = Grouping /\ Ids' = Ids /\ Placed' = Placed
  BY <1>1, <1>2, <1>6 DEF Grouping, Finding, Ids, Placed
<1>11. Framed'
  BY <1>1, <1>2, <1>5, <1>6, <1>10 DEF Framed, Pairing, Grouping, Finding, Ends
<1>12. Tree(rt)'
  BY <1>1, <1>2, <1>4, <1>9, <1>10 DEF Tree, Rooted, Joined, GroupedBy
<1> QED BY <1>1, <1>2, <1>11, <1>12, ClusterStep

LEMMA CompressStep ==
  ASSUME Inv, Compress
  PROVE  Inv'
<1>1. /\ pc = "compress" /\ parent[find.cur] # find.root
      /\ parent' = [parent EXCEPT ![find.cur] = find.root]
      /\ find' = [find EXCEPT !.cur = parent[find.cur]]
      /\ UNCHANGED <<corpus, store, pc, pairs, todo, pair, root, member, group, printed, edges>>
  BY DEF Compress, Compressed
<1>2. Clustered /\ Clustered' /\ Finding /\ Finding'
  BY <1>1 DEF Clustered, Finding
<1>3. PICK rt : Tree(rt)
  BY <1>2, InClustering
<1>4. /\ parent \in [Ids -> Ids] /\ rt \in [Ids -> Ids] /\ Climbing(rt)
      /\ \A i \in Ids : rt[parent[i]] = rt[i] /\ parent[rt[i]] = rt[i]
                        /\ (parent[i] = i => rt[i] = i)
      /\ Joined((pairs \ todo) \ {pair}, rt) /\ Rooted(Ids, parent, pairs, rt)
      /\ Grouping => GroupedBy(Placed, rt)
  BY <1>2, <1>3, InFind DEF Tree
<1>5. Framed /\ DOMAIN find = {"x", "root", "cur"}
  BY <1>2, InClustering DEF Framed
<1>6. /\ find'.x = find.x /\ find'.root = find.root /\ find'.cur = parent[find.cur]
      /\ DOMAIN find' = {"x", "root", "cur"}
  BY <1>1, <1>5
<1>7. /\ find.cur \in Ids /\ find.root \in Ids /\ rt[find.cur] = rt[find.x]
      /\ find.root = rt[find.x]
  BY <1>1, <1>4 DEF Climbing
<1>8. Ids' = Ids /\ parent' \in [Ids -> Ids]
  BY <1>1, <1>4, <1>7 DEF Ids
<1>9. ASSUME NEW i \in Ids
      PROVE  rt[parent'[i]] = rt[i] /\ parent'[rt[i]] = rt[i] /\ (parent'[i] = i => rt[i] = i)
  <2>1. CASE i = find.cur
    <3>1. parent'[i] = find.root /\ rt[find.root] = find.root /\ rt[i] = find.root
      BY <1>1, <1>4, <1>7, <2>1
    <3>2. find.root # find.cur
      BY <1>1, <1>4, <1>7, <3>1
    <3>3. parent'[find.root] = find.root
      BY <1>1, <1>4, <1>7, <3>2
    <3> QED BY <3>1, <3>3
  <2>2. CASE i # find.cur
    <3>1. parent'[i] = parent[i] /\ rt[i] \in Ids
      BY <1>1, <1>4, <2>2
    <3>2. rt[i] # find.cur
      BY <1>1, <1>4, <1>7, <3>1
    <3>3. parent'[rt[i]] = rt[i]
      BY <1>1, <1>4, <3>1, <3>2
    <3> QED BY <1>4, <3>1, <3>3
  <2> QED BY <2>1, <2>2
<1>10. Rooted(Ids, parent, pairs, rt)'
  BY <1>1, <1>4, <1>8, <1>9 DEF Rooted
<1>11. Climbing(rt)'
  <2>1. find'.cur \in Ids /\ rt[find'.cur] = rt[find.x]
    BY <1>4, <1>6, <1>7
  <2> QED BY <1>1, <1>4, <1>6, <1>7, <1>8, <2>1 DEF Climbing
<1>12. Grouping' = Grouping /\ Placed' = Placed
  BY <1>1, <1>2, <1>6, <1>8 DEF Grouping, Finding, Placed
<1>13. Framed'
  BY <1>1, <1>2, <1>5, <1>6, <1>8, <1>12 DEF Framed, Pairing, Grouping, Finding, Ends
<1>14. Tree(rt)'
  BY <1>1, <1>2, <1>4, <1>8, <1>10, <1>11, <1>12 DEF Tree, Joined, GroupedBy
<1> QED BY <1>1, <1>2, <1>13, <1>14, ClusterStep

\* find returns the root of its argument.
LEMMA Found ==
  ASSUME Inv, Returns, NEW rt, Tree(rt)
  PROVE  /\ Clustered /\ Finding /\ Framed
         /\ find.x \in Ids /\ find.root \in Ids /\ find.root # 0 /\ find.root = rt[find.x]
         /\ pair # NoPair => /\ pair \in pairs \ todo /\ pair[1] \in Ids /\ pair[2] \in Ids
                             /\ find.x = IF root = 0 THEN pair[1] ELSE pair[2]
                             /\ root # 0 => root = rt[pair[1]]
         /\ pair = NoPair => find.x \notin member
<1>1. Clustered /\ Finding /\ pc = "compress"
  BY DEF Returns, Clustered, Finding
<1>2. Climbing(rt)
  BY <1>1 DEF Tree
<1>3. Framed /\ 0 \notin Ids /\ \A p \in pairs \ todo : p[1] \in Ids /\ p[2] \in Ids
  BY <1>1, InClustering
<1> QED BY <1>1, <1>2, <1>3 DEF Climbing

LEMMA FirstFoundStep ==
  ASSUME Inv, FirstFound
  PROVE  Inv'
<1>1. /\ Returns /\ pair # NoPair /\ root = 0 /\ root' = find.root /\ pc = "compress"
      /\ find' = Calling(pair[2]) /\ pc' = "climb"
      /\ UNCHANGED <<corpus, store, pairs, todo, pair, parent, member, group, printed, edges>>
  BY DEF FirstFound, Returns
<1>2. Clustered /\ Clustered' /\ Finding /\ Finding'
  BY <1>1 DEF Clustered, Finding
<1>3. PICK rt : Tree(rt)
  BY <1>2, InClustering
<1>4. /\ Framed /\ find.root # 0 /\ find.root = rt[pair[1]]
      /\ pair \in pairs \ todo /\ pair[2] \in Ids
  BY <1>1, <1>3, Found
<1>5. find' = [x |-> pair[2], root |-> pair[2], cur |-> pair[2]]
  BY <1>1 DEF Calling
<1>6. ~Grouping /\ ~Grouping' /\ Ids' = Ids
  BY <1>1 DEF Grouping, Ids
<1>7. Climbing(rt)'
  BY <1>1, <1>4, <1>5, <1>6 DEF Climbing
<1>8. Framed'
  BY <1>1, <1>2, <1>4, <1>5, <1>6 DEF Framed, Pairing, Finding, Ends
<1>9. Tree(rt)'
  BY <1>1, <1>3, <1>6, <1>7 DEF Tree, Rooted, Joined
<1> QED BY <1>1, <1>2, <1>8, <1>9, ClusterStep

LEMMA UniteStep ==
  ASSUME Inv, Unite
  PROVE  Inv'
<1>1. /\ Returns /\ pair # NoPair /\ root # 0 /\ pc = "compress"
      /\ parent' = IF root = find.root THEN parent ELSE United(root, find.root)
      /\ pair' = NoPair /\ find' = NoFind /\ root' = 0 /\ pc' = "next"
      /\ UNCHANGED <<corpus, store, pairs, todo, member, group, printed, edges>>
  BY DEF Unite, Returns
<1>2. Clustered /\ Clustered' /\ Finding /\ ~Finding' /\ ~Grouping'
  BY <1>1 DEF Clustered, Finding, Grouping
<1>3. PICK rt : Tree(rt)
  BY <1>2, InClustering
<1>4. /\ Framed /\ pair \in pairs \ todo /\ pair[1] \in Ids /\ pair[2] \in Ids
      /\ root = rt[pair[1]] /\ find.root = rt[pair[2]]
  BY <1>1, <1>3, Found
<1>5. /\ parent \in [Ids -> Ids] /\ rt \in [Ids -> Ids]
      /\ \A i \in Ids : rt[parent[i]] = rt[i] /\ parent[rt[i]] = rt[i]
                        /\ (parent[i] = i => rt[i] = i)
      /\ \A B : Closed(pairs, B) => \A i \in Ids : i \in B <=> rt[i] \in B
      /\ \A p \in (pairs \ todo) \ {pair} : rt[p[1]] = rt[p[2]]
  BY <1>3 DEF Tree, Rooted, Joined
<1>6. \A p \in pairs \ todo : p[1] \in Ids /\ p[2] \in Ids
  BY <1>2, InClustering
<1>7. /\ pairs \subseteq Pair /\ NoPair \notin pairs /\ ((pairs \ todo) \ {pair})' = pairs \ todo
  BY <1>1, <1>2, InClustering
<1>8. ASSUME Ids' = Ids
      PROVE  Framed'
  BY <1>1, <1>2, <1>4, <1>8 DEF Framed, Pairing, Ends, Finding, NoFind
<1>9. CASE root = find.root
  <2>1. parent' = parent /\ Ids' = Ids
    BY <1>1, <1>9 DEF Ids
  <2>2. Rooted(Ids, parent, pairs, rt)'
    BY <1>1, <1>5, <2>1 DEF Rooted
  <2>3. Joined((pairs \ todo) \ {pair}, rt)'
    BY <1>4, <1>5, <1>7, <1>9 DEF Joined
  <2>4. Tree(rt)'
    BY <1>2, <2>2, <2>3 DEF Tree
  <2> QED BY <1>1, <1>2, <1>8, <2>1, <2>4, ClusterStep
<1>10. CASE root # find.root
  <2>1. PICK low \in Ids, high \in Ids :
          /\ {low, high} = {root, find.root} /\ low # high
          /\ parent' = [parent EXCEPT ![high] = low]
    BY <1>1, <1>4, <1>5, <1>10 DEF United
  <2>2. Ids' = Ids /\ parent' \in [Ids -> Ids]
    BY <1>5, <2>1 DEF Ids
  <2>3. PICK new : new = [i \in Ids |-> IF rt[i] = high THEN low ELSE rt[i]]
    OBVIOUS
  <2>4. /\ new \in [Ids -> Ids] /\ rt[low] = low /\ rt[high] = high
        /\ parent[low] = low /\ parent[high] = high
    <3>1. \A i \in {root, find.root} : parent[i] = i
      BY <1>4, <1>5
    <3>2. parent[low] = low /\ parent[high] = high
      BY <2>1, <3>1
    <3> QED BY <1>5, <2>1, <2>3, <3>2
  <2>5. ASSUME NEW i \in Ids
        PROVE  /\ new[parent'[i]] = new[i] /\ parent'[new[i]] = new[i]
               /\ parent'[i] = i => new[i] = i
    <3>1. rt[i] \in Ids /\ parent[i] \in Ids /\ rt[parent[i]] = rt[i] /\ parent[rt[i]] = rt[i]
      BY <1>5
    <3>2. parent'[new[i]] = new[i]
      <4>1. CASE rt[i] = high
        BY <2>1, <2>3, <2>4, <4>1
      <4>2. CASE rt[i] # high
        BY <1>5, <2>1, <2>3, <3>1, <4>2
      <4> QED BY <4>1, <4>2
    <3>3. CASE i = high
      BY <1>5, <2>1, <2>3, <2>4, <3>2, <3>3
    <3>4. CASE i # high
      <4>1. parent'[i] = parent[i]
        BY <1>5, <2>1, <3>4
      <4>2. parent[i] = i => rt[i] = i
        BY <1>5
      <4> QED BY <2>3, <3>1, <3>2, <3>4, <4>1, <4>2
    <3> QED BY <3>3, <3>4
  <2>6. ASSUME NEW B, Closed(pairs, B), NEW i \in Ids
        PROVE  i \in B <=> new[i] \in B
    <3>1. pair[1] \in B <=> pair[2] \in B
      BY <1>4, <2>6 DEF Closed
    <3>2. root \in B <=> find.root \in B
      BY <1>4, <1>5, <2>6, <3>1
    <3>3. low \in B <=> high \in B
      BY <2>1, <3>2
    <3> QED BY <1>5, <2>3, <2>6, <3>3
  <2>7. Rooted(Ids, parent, pairs, new)'
    BY <1>1, <2>2, <2>4, <2>5, <2>6 DEF Rooted
  <2>8. Joined((pairs \ todo) \ {pair}, new)'
    <3>1. ASSUME NEW p \in pairs \ todo
          PROVE  new[p[1]] = new[p[2]]
      <4>1. p[1] \in Ids /\ p[2] \in Ids
        BY <1>6
      <4>2. CASE p = pair
        <5>1. {rt[p[1]], rt[p[2]]} = {low, high}
          BY <1>4, <2>1, <4>2
        <5> QED BY <2>1, <2>3, <4>1, <5>1
      <4>3. CASE p # pair
        BY <1>5, <2>3, <4>1, <4>3
      <4> QED BY <4>2, <4>3
    <3> QED BY <1>7, <3>1 DEF Joined
  <2>9. Tree(new)'
    BY <1>2, <2>7, <2>8 DEF Tree
  <2> QED BY <1>1, <1>2, <1>8, <2>2, <2>9, ClusterStep
<1> QED BY <1>9, <1>10

LEMMA PairsDoneStep ==
  ASSUME Inv, PairsDone
  PROVE  Inv'
<1>1. /\ pc = "next" /\ todo = {} /\ member' = Ids /\ pc' = "member"
      /\ UNCHANGED <<corpus, store, pairs, todo, pair, parent, find, root, group, printed, edges>>
  BY DEF PairsDone, Ids
<1>2. Clustered /\ Clustered' /\ ~Finding' /\ Pairing /\ ~Pairing' /\ Ids' = Ids
  BY <1>1 DEF Clustered, Finding, Pairing, Ids
<1>3. PICK rt : Tree(rt)
  BY <1>2, InClustering
<1>4. Framed /\ group = [i \in {} |-> {}]
  BY <1>2, InClustering DEF Framed
<1>5. Framed'
  BY <1>1, <1>2, <1>4 DEF Framed, Ends
<1>6. GroupedBy(Placed, rt)'
  <2>1. Placed' = {}
    BY <1>1, <1>2 DEF Placed
  <2>2. DOMAIN group' = {}
    BY <1>1, <1>4
  <2> QED BY <2>1, <2>2 DEF GroupedBy
<1>7. Tree(rt)'
  BY <1>1, <1>2, <1>3, <1>6 DEF Tree, Rooted, Joined
<1> QED BY <1>1, <1>2, <1>5, <1>7, ClusterStep

LEMMA TakeMemberStep ==
  ASSUME Inv, NEW i \in member, TakeMember(i)
  PROVE  Inv'
<1>1. /\ pc = "member" /\ member' = member \ {i} /\ find' = Calling(i) /\ pc' = "climb"
      /\ UNCHANGED <<corpus, store, pairs, todo, pair, parent, root, group, printed, edges>>
  BY DEF TakeMember
<1>2. Clustered /\ Clustered' /\ ~Finding /\ Finding' /\ Grouping /\ Ids' = Ids
  BY <1>1 DEF Clustered, Finding, Grouping, Ids
<1>3. PICK rt : Tree(rt)
  BY <1>2, InClustering
<1>4. /\ Framed /\ todo = {} /\ pair = NoPair /\ root = 0 /\ member \subseteq Ids
      /\ GroupedBy(Placed, rt)
  BY <1>2, <1>3, InClustering DEF Framed, Tree
<1>5. find' = [x |-> i, root |-> i, cur |-> i]
  BY <1>1 DEF Calling
<1>6. Grouping' /\ ~Pairing' /\ Placed' = Placed
  BY <1>1, <1>2, <1>4, <1>5 DEF Grouping, Pairing, Finding, Placed
<1>7. Climbing(rt)'
  BY <1>1, <1>2, <1>4, <1>5 DEF Climbing
<1>8. Framed'
  BY <1>1, <1>2, <1>4, <1>5, <1>6 DEF Framed, Ends
<1>9. GroupedBy(Placed, rt)'
  BY <1>1, <1>4, <1>6 DEF GroupedBy
<1>10. Tree(rt)'
  BY <1>1, <1>2, <1>3, <1>7, <1>9 DEF Tree, Rooted, Joined
<1> QED BY <1>1, <1>2, <1>8, <1>10, ClusterStep

LEMMA MemberFoundStep ==
  ASSUME Inv, MemberFound
  PROVE  Inv'
<1>1. /\ Returns /\ pair = NoPair /\ pc = "compress" /\ find' = NoFind /\ pc' = "member"
      /\ group' = [r \in DOMAIN group \cup {find.root} |->
                     (IF r \in DOMAIN group THEN group[r] ELSE {})
                       \cup (IF r = find.root THEN {find.x} ELSE {})]
      /\ UNCHANGED <<corpus, store, pairs, todo, pair, parent, root, member, printed, edges>>
  BY DEF MemberFound, Returns
<1>2. Clustered /\ Clustered' /\ Finding /\ ~Finding' /\ Grouping /\ Ids' = Ids
  BY <1>1 DEF Clustered, Finding, Grouping, Ids
<1>3. PICK rt : Tree(rt)
  BY <1>2, InClustering
<1>4. find.x \in Ids /\ find.x \notin member /\ find.root = rt[find.x]
  BY <1>1, <1>3, Found
<1>5. /\ Framed /\ todo = {} /\ root = 0 /\ member \subseteq Ids
      /\ GroupedBy(Placed, rt)
  BY <1>2, <1>3, InClustering DEF Framed, Tree
<1>6. Grouping' /\ ~Pairing' /\ Placed = (Ids \ member) \ {find.x} /\ Placed' = Ids \ member
  BY <1>1, <1>2 DEF Grouping, Pairing, Finding, Placed
<1>7. Placed' = Placed \cup {find.x} /\ find.x \notin Placed
  BY <1>4, <1>6
<1>8. GroupedBy(Placed, rt)'
  <2>1. DOMAIN group' = {rt[i] : i \in Placed'}
    <3>1. DOMAIN group' = DOMAIN group \cup {rt[find.x]}
      BY <1>1, <1>4
    <3> QED BY <1>5, <1>7, <3>1 DEF GroupedBy
  <2>2. ASSUME NEW r \in DOMAIN group'
        PROVE  group'[r] = {i \in Placed' : rt[i] = r}
    <3>1. (IF r \in DOMAIN group THEN group[r] ELSE {}) = {i \in Placed : rt[i] = r}
      BY <1>5 DEF GroupedBy
    <3>2. (IF r = find.root THEN {find.x} ELSE {}) = {i \in {find.x} : rt[i] = r}
      BY <1>4
    <3>3. group'[r] = (IF r \in DOMAIN group THEN group[r] ELSE {})
                        \cup (IF r = find.root THEN {find.x} ELSE {})
      BY <1>1
    <3> QED BY <1>7, <3>1, <3>2, <3>3
  <2> QED BY <2>1, <2>2 DEF GroupedBy
<1>9. Framed'
  BY <1>1, <1>2, <1>5, <1>6 DEF Framed, Ends, NoFind
<1>10. Tree(rt)'
  BY <1>1, <1>2, <1>3, <1>8 DEF Tree, Rooted, Joined, GroupedBy
<1> QED BY <1>1, <1>2, <1>9, <1>10, ClusterStep

-----------------------------------------------------------------------------
(* The clusters.                                                           *)

\* When every pair has one root, the ids of one root are a component.
LEMMA FibresAreComponents ==
  ASSUME NEW P \in SUBSET Pair, NEW par, NEW rt, Rooted(Ends(P), par, P, rt), Joined(P, rt),
         NEW i \in Ends(P)
  PROVE  {j \in Ends(P) : rt[j] = rt[i]} = Component(P, i)
<1> DEFINE F == {j \in Ends(P) : rt[j] = rt[i]}
<1>1. Ends(P) \subseteq Memory /\ \A p \in P : p[1] \in Ends(P) /\ p[2] \in Ends(P)
  BY PairIs DEF Ends
<1>2. PICK C : C = Component(P, i)
  OBVIOUS
<1>3. i \in C /\ Closed(P, C) /\ \A B : i \in B /\ Closed(P, B) => C \subseteq B
  BY <1>1, <1>2, ComponentIs
<1>4. Closed(P, F)
  BY <1>1 DEF Closed, Joined
<1>5. C \subseteq F
  <2> HIDE DEF F
  <2>1. i \in F
    BY DEF F
  <2> QED BY <1>3, <1>4, <2>1
<1>6. \A j \in Ends(P) : j \in C <=> rt[j] \in C
  BY <1>3 DEF Rooted
<1>7. F \subseteq C
  BY <1>3, <1>6
<1> QED BY <1>2, <1>5, <1>7

LEMMA GroupedStep ==
  ASSUME Inv, Grouped
  PROVE  Inv'
<1>1. /\ pc = "member" /\ member = {} /\ pc' = "print"
      /\ UNCHANGED <<corpus, store, unionFind, printed, edges>>
      /\ UNCHANGED <<dist, summary, tight, wide, live, linked, graph, near, suggested>>
      /\ UNCHANGED <<pairs, todo, pair, parent, find, root, member, group>>
  BY DEF Grouped, corpus, store, edges, unionFind
<1>2. Clustered /\ ~Clustered' /\ ~Finding /\ Grouping
  BY <1>1 DEF Clustered, Finding, Grouping
<1>3. PICK rt : Tree(rt)
  BY <1>2, InClustering
<1>4. /\ Ids = Ends(pairs) /\ pairs \subseteq Pair /\ Placed = Ids
      /\ Rooted(Ids, parent, pairs, rt) /\ Joined(pairs, rt) /\ GroupedBy(Ids, rt)
  <2>1. /\ Ids = Ends(pairs \ todo) /\ todo = {} /\ pairs \subseteq Pair /\ pair = NoPair
        /\ NoPair \notin pairs
    BY <1>2, InClustering DEF Framed
  <2>2. pairs \ todo = pairs /\ (pairs \ todo) \ {pair} = pairs /\ Placed = Ids
    BY <1>1, <1>2, <2>1 DEF Placed
  <2>3. /\ Rooted(Ids, parent, pairs, rt) /\ Joined((pairs \ todo) \ {pair}, rt)
        /\ GroupedBy(Placed, rt)
    BY <1>2, <1>3 DEF Tree
  <2> QED BY <2>1, <2>2, <2>3
<1>5. Groups = {Component(pairs, i) : i \in Ends(pairs)}
  <2>1. Groups = {group[r] : r \in {rt[i] : i \in Ids}}
    BY <1>4 DEF Groups, GroupedBy
  <2>2. \A i \in Ids : group[rt[i]] = {j \in Ids : rt[j] = rt[i]}
    BY <1>4 DEF GroupedBy
  <2>3. \A i \in Ids : {j \in Ids : rt[j] = rt[i]} = Component(pairs, i)
    BY <1>4, FibresAreComponents
  <2>4. \A i \in Ids : group[rt[i]] = Component(pairs, i)
    BY <2>2, <2>3
  <2>5. Groups = {group[rt[i]] : i \in Ids}
    BY <2>1
  <2> QED BY <1>4, <2>4, <2>5
<1>6. Groups' = Groups
  BY <1>1 DEF Groups
<1>7. Clusters'
  BY <1>1, <1>5, <1>6 DEF Clusters
<1>8. Shapes' /\ Fresh' /\ Clustering' /\ Rows'
  BY <1>1, <1>2 DEF Inv, Shapes, Fresh, Clustering, Rows
<1>9. Reads'
  BY <1>1 DEF Inv, Reads, Waiting
<1> QED BY <1>7, <1>8, <1>9 DEF Inv

\* A cluster printed is a component: it has a pair, and each pair with an end in
\* it lies in it.
LEMMA GroupIs ==
  ASSUME Inv, pc = "print", NEW g \in Groups
  PROVE  /\ g \subseteq Memory /\ g # {} /\ Closed(pairs, g)
         /\ \E p \in pairs : p[1] \in g
<1>1. Groups = {Component(pairs, i) : i \in Ends(pairs)} /\ pairs \subseteq Pair
  BY DEF Inv, Clusters, Shapes
<1>2. PICK i \in Ends(pairs) : g = Component(pairs, i)
  BY <1>1
<1>3. i \in Memory
  BY <1>1, PairIs DEF Ends
<1>4. i \in g /\ g \subseteq Memory /\ Closed(pairs, g)
  BY <1>1, <1>2, <1>3, ComponentIs
<1>5. PICK p \in pairs : i \in {p[1], p[2]}
  BY DEF Ends
<1>6. p[1] \in g
  BY <1>4, <1>5 DEF Closed
<1> QED BY <1>4, <1>6

\* There is a cluster left while fewer than Shown are printed.
LEMMA SomeUnprinted ==
  ASSUME Inv, pc = "print", Cardinality(printed) < Shown
  PROVE  Unprinted # {}
<1> SUFFICES ASSUME Unprinted = {} PROVE FALSE
  OBVIOUS
<1> DEFINE I == {c.ids : c \in printed}
<1>1. IsFiniteSet(printed)
  BY DEF Inv, Rows
<1>2. IsFiniteSet(I) /\ Cardinality(I) <= Cardinality(printed)
  <2> DEFINE f == [c \in printed |-> c.ids]
  <2>1. I = {f[c] : c \in printed} /\ DOMAIN f = printed
    OBVIOUS
  <2> HIDE DEF f, I
  <2> QED BY <1>1, <2>1, Image
<1>3. Groups \subseteq I
  BY DEF Unprinted
<1>4. IsFiniteSet(Groups) /\ Cardinality(Groups) <= Cardinality(I)
  BY <1>2, <1>3, FS_Subset
<1>5. Cardinality(printed) \in Nat /\ Cardinality(I) \in Nat /\ Cardinality(Groups) \in Nat
  BY <1>1, <1>2, <1>4, FS_CardinalityType
<1>6. Shown <= Cardinality(Groups)
  BY <1>5, OverlapAssumption DEF Shown
<1>7. Shown \in Nat
  BY <1>5, OverlapAssumption DEF Shown
<1> HIDE DEF I
<1> QED BY <1>2, <1>4, <1>5, <1>6, <1>7

\* The next cluster is one of those left.
LEMMA NextCluster ==
  ASSUME Inv, pc = "print", Unprinted # {}
  PROVE  \E g \in Unprinted : \A h \in Unprinted : Min(g) <= Min(h)
<1>1. ASSUME NEW g \in Unprinted
      PROVE  Min(g) \in Nat
  <2>1. g \subseteq Memory /\ g # {}
    BY GroupIs DEF Unprinted
  <2>2. IsFiniteSet(g)
    BY <2>1, OverlapAssumption, FS_Subset
  <2>3. g \subseteq Nat /\ g \subseteq Int
    BY <2>1, OverlapAssumption
  <2> QED BY <2>1, <2>2, <2>3, MinIs
<1> DEFINE M == {Min(g) : g \in Unprinted}
<1>2. M \subseteq Nat /\ M # {}
  BY <1>1
<1>3. PICK m \in M : \A n \in M : m <= n
  <2> HIDE DEF M
  <2> QED BY <1>2, Least
<1> QED BY <1>3

LEMMA ReportStep ==
  ASSUME Inv, Report
  PROVE  Inv'
<1> DEFINE g == CHOOSE g \in Unprinted : \A h \in Unprinted : Min(g) <= Min(h)
           c == [ids |-> g, listed |-> Briefs(g), closest |-> Min({dist[p] : p \in Inside(g)})]
<1>1. /\ pc = "print" /\ Cardinality(printed) < Shown /\ printed' = printed \cup {c}
      /\ UNCHANGED <<dist, summary, tight, wide, live, linked, graph, near, suggested, pc>>
      /\ UNCHANGED <<pairs, todo, pair, parent, find, root, member, group>>
  BY DEF Report, corpus, store, edges, unionFind
<1>2. g \in Unprinted
  BY <1>1, SomeUnprinted, NextCluster
<1>3. PICK G : G = g
  OBVIOUS
<1>4. /\ G \in Groups
      /\ printed' = printed \cup {[ids |-> G, listed |-> Briefs(G),
                                   closest |-> Min({dist[p] : p \in Inside(G)})]}
  BY <1>1, <1>2, <1>3 DEF Unprinted
<1> HIDE DEF g, c
<1>5. /\ G \subseteq Memory /\ Closed(pairs, G) /\ \E p \in pairs : p[1] \in G
      /\ pairs \subseteq Pair /\ dist \in [Pair -> Int]
  BY <1>1, <1>4, GroupIs DEF Inv, Shapes
<1> DEFINE D == {dist[p] : p \in Inside(G)}
<1>6. D \subseteq Int /\ D # {} /\ IsFiniteSet(D)
  <2>1. IsFiniteSet(Pair)
    <3>1. IsFiniteSet(Memory \X Memory)
      BY OverlapAssumption, FS_Product
    <3> QED BY <3>1, FS_Subset DEF Pair
  <2>2. IsFiniteSet(Inside(G)) /\ Inside(G) \subseteq Pair
    BY <1>5, <2>1, FS_Subset DEF Inside
  <2>3. IsFiniteSet(D)
    <3> DEFINE f == [p \in Inside(G) |-> dist[p]]
    <3>1. D = {f[p] : p \in Inside(G)} /\ DOMAIN f = Inside(G)
      OBVIOUS
    <3> HIDE DEF f, D
    <3> QED BY <2>2, <3>1, Image
  <2>4. Inside(G) # {}
    BY <1>5 DEF Inside
  <2> QED BY <1>5, <2>2, <2>3, <2>4
<1>7. PICK m : m = Min(D)
  OBVIOUS
<1>8. m \in D /\ \A x \in D : m <= x
  <2> HIDE DEF D
  <2> QED BY <1>6, <1>7, MinIs
<1>9. \A p \in pairs : p \in Inside(G) <=> {p[1], p[2]} \subseteq G
  BY <1>5 DEF Inside, Closed
<1>10. PICK row : row = [ids |-> G, listed |-> Briefs(G), closest |-> m]
  OBVIOUS
<1>11. printed' = printed \cup {row}
  BY <1>4, <1>7, <1>10
<1>12. row.ids = G /\ row.closest = m /\ row.ids \ row.listed \subseteq Memory \ live
  BY <1>5, <1>10 DEF Briefs
<1>13. /\ \E p \in pairs : {p[1], p[2]} \subseteq row.ids /\ dist[p] = row.closest
       /\ \A p \in pairs : {p[1], p[2]} \subseteq row.ids => dist[p] >= row.closest
  <2>1. PICK p \in Inside(G) : dist[p] = m
    BY <1>8
  <2>2. p \in pairs /\ {p[1], p[2]} \subseteq G
    BY <1>9, <2>1 DEF Inside
  <2>3. ASSUME NEW q \in pairs, {q[1], q[2]} \subseteq G
        PROVE  dist[q] >= m
    <3>1. dist[q] \in D /\ dist[q] \in Int
      BY <1>5, <1>9, <2>3
    <3>2. m \in Int /\ m <= dist[q]
      BY <1>6, <1>8, <3>1
    <3> QED BY <3>1, <3>2
  <2> QED BY <1>12, <2>1, <2>2, <2>3
<1>14. Rows'
  <2>1. IsFiniteSet(printed')
    BY <1>11, FS_AddElement DEF Inv, Rows
  <2> QED BY <1>1, <1>11, <1>12, <1>13, <2>1 DEF Inv, Rows
<1>15. Shapes' /\ Fresh' /\ Clustering'
  BY <1>1 DEF Inv, Shapes, Fresh, Clustering, Clustered
<1>16. Clusters'
  BY <1>1 DEF Inv, Clusters, Groups
<1>17. Reads'
  BY <1>1 DEF Inv, Reads, Waiting
<1> QED BY <1>14, <1>15, <1>16, <1>17 DEF Inv

-----------------------------------------------------------------------------
(* The other steps.                                                        *)

\* A step after the clusters are printed, or of another process, that leaves
\* them alone.
LEMMA OtherStep ==
  ASSUME Inv, ~Clustered, pc # "pairs", ~Clustered', pc' # "pairs",
         pc' = "print" => pc = "print", Shapes', Reads',
         live' \subseteq live, UNCHANGED <<corpus, unionFind, printed>>
  PROVE  Inv'
<1>1. UNCHANGED <<dist, summary, tight, wide, pairs, group>>
  BY DEF corpus, unionFind
<1>2. Fresh' /\ Clustering'
  BY DEF Fresh, Clustering
<1>3. Clusters'
  BY <1>1 DEF Inv, Clusters, Groups
<1>4. Rows'
  BY <1>1 DEF Inv, Rows
<1> QED BY <1>2, <1>3, <1>4 DEF Inv

LEMMA ReportedStep ==
  ASSUME Inv, Reported
  PROVE  Inv'
<1>1. /\ pc = "print" /\ pc' = "graph"
      /\ UNCHANGED <<dist, summary, tight, wide, live, linked, graph, near, suggested>>
      /\ UNCHANGED <<pairs, todo, corpus, unionFind, printed>>
  BY DEF Reported, corpus, store, edges, unionFind
<1>2. Shapes'
  BY <1>1 DEF Inv, Shapes
<1>3. Reads'
  BY <1>1 DEF Inv, Reads, Waiting
<1> QED BY <1>1, <1>2, <1>3, OtherStep DEF Clustered

LEMMA LoadGraphStep ==
  ASSUME Inv, LoadGraph
  PROVE  Inv'
<1>1. /\ pc = "graph" /\ graph' = linked /\ pc' = IF wide <= MergeBand THEN "done" ELSE "near"
      /\ UNCHANGED <<dist, summary, tight, wide, live, linked, near, suggested>>
      /\ UNCHANGED <<pairs, todo, corpus, unionFind, printed>>
  BY DEF LoadGraph, corpus, store, unionFind
<1>2. Shapes'
  BY <1>1 DEF Inv, Shapes
<1>3. wide > MergeBand => pc' = "near"
  BY <1>1, OverlapAssumption DEF Inv, Shapes
<1>4. Reads'
  BY <1>1, <1>3 DEF Inv, Reads, Waiting
<1> QED BY <1>1, <1>2, <1>4, OtherStep DEF Clustered

LEMMA ReadNearStep ==
  ASSUME Inv, ReadNear
  PROVE  Inv'
<1>1. /\ pc = "near" /\ near' = Within(wide) /\ pc' = "suggest"
      /\ UNCHANGED <<dist, summary, tight, wide, live, linked, graph, suggested>>
      /\ UNCHANGED <<pairs, todo, corpus, unionFind, printed>>
  BY DEF ReadNear, corpus, store, unionFind
<1>2. Shapes'
  BY <1>1 DEF Inv, Shapes
<1>3. live = Memory => near' = {p \in Pair : dist[p] <= wide}
  BY <1>1, PairIs DEF Within
<1>4. Reads'
  BY <1>1, <1>3 DEF Inv, Reads, Waiting
<1> QED BY <1>1, <1>2, <1>4, OtherStep DEF Clustered

LEMMA SuggestStep ==
  ASSUME Inv, Suggest
  PROVE  Inv'
<1>1. /\ pc = "suggest" /\ pc' = "done"
      /\ suggested' = {p \in near : /\ BeyondBand(p) /\ p \notin graph
                                    /\ {p[1], p[2]} \subseteq Briefs(Memory) \ summary}
      /\ UNCHANGED <<dist, summary, tight, wide, live, linked, graph, near>>
      /\ UNCHANGED <<pairs, todo, corpus, unionFind, printed>>
  BY DEF Suggest, corpus, store, unionFind
<1>2. Shapes'
  BY <1>1 DEF Inv, Shapes
<1>3. ASSUME live = Memory, wide > MergeBand
      PROVE  suggested' = {p \in Pair : /\ dist[p] <= wide /\ BeyondBand(p)
                                        /\ {p[1], p[2]} \cap summary = {} /\ p \notin graph}
  <2>1. near = {p \in Pair : dist[p] <= wide}
    BY <1>1, <1>3 DEF Inv, Reads
  <2>2. \A p \in Pair : {p[1], p[2]} \subseteq Briefs(Memory) \ summary
                        <=> {p[1], p[2]} \cap summary = {}
    BY <1>3, PairIs DEF Briefs
  <2> QED BY <1>1, <2>1, <2>2
<1>4. Reads'
  <2>1. \A p : BeyondBand(p)' <=> BeyondBand(p)
    BY <1>1 DEF BeyondBand
  <2> QED BY <1>1, <1>3, <2>1 DEF Inv, Reads, Waiting
<1> QED BY <1>1, <1>2, <1>4, OtherStep DEF Clustered

LEMMA HideStep ==
  ASSUME Inv, NEW i \in MayHide, Hide(i)
  PROVE  Inv'
<1>1. /\ Waiting /\ i \in live /\ live' = live \ {i}
      /\ UNCHANGED <<dist, summary, tight, wide, linked, graph, near, suggested, pc>>
      /\ UNCHANGED <<pairs, todo, corpus, unionFind, printed>>
  BY DEF Hide, corpus, edges, unionFind
<1>2. Shapes'
  BY <1>1 DEF Inv, Shapes
<1>3. live' # Memory /\ Waiting'
  BY <1>1 DEF Inv, Shapes, Waiting
<1>4. Reads'
  BY <1>1, <1>3 DEF Inv, Reads
<1> QED BY <1>1, <1>2, <1>4, OtherStep DEF Clustered, Waiting

LEMMA LinkStep ==
  ASSUME Inv, NEW p \in MayLink, Link(p)
  PROVE  Inv'
<1>1. /\ Waiting /\ linked' = linked \cup {p}
      /\ UNCHANGED <<dist, summary, tight, wide, live, graph, near, suggested, pc>>
      /\ UNCHANGED <<pairs, todo, corpus, unionFind, printed>>
  BY DEF Link, corpus, edges, unionFind
<1>2. Shapes'
  BY <1>1 DEF Inv, Shapes
<1>3. Reads'
  BY <1>1 DEF Inv, Reads, Waiting, BeyondBand
<1> QED BY <1>1, <1>2, <1>3, OtherStep DEF Clustered, Waiting

LEMMA InitInv == Init => Inv
<1> SUFFICES ASSUME Init PROVE Inv
  OBVIOUS
<1>1. PICK c \in Cutoffs : tight = c[1] /\ wide = c[2]
  BY DEF Init
<1>2. tight \in Int /\ wide \in Int
  BY <1>1, OverlapAssumption
<1>3. Shapes
  BY <1>2, OverlapAssumption DEF Init, Shapes
<1>4. Fresh /\ Clustering /\ Clusters
  BY DEF Init, Fresh, Clustering, Clustered, Clusters
<1>5. Rows
  BY FS_EmptySet DEF Init, Rows
<1>6. Reads
  BY DEF Init, Reads
<1> QED BY <1>3, <1>4, <1>5, <1>6 DEF Inv

LEMMA NextInv == Inv /\ [Next]_vars => Inv'
<1> SUFFICES ASSUME Inv, [Next]_vars PROVE Inv'
  OBVIOUS
<1>1. CASE ReadPairs
  BY <1>1, ReadPairsStep
<1>2. CASE \E p \in todo : TakePair(p)
  BY <1>2, TakePairStep
<1>3. CASE Climb
  BY <1>3, ClimbStep
<1>4. CASE Compress
  BY <1>4, CompressStep
<1>5. CASE FirstFound
  BY <1>5, FirstFoundStep
<1>6. CASE Unite
  BY <1>6, UniteStep
<1>7. CASE PairsDone
  BY <1>7, PairsDoneStep
<1>8. CASE \E i \in member : TakeMember(i)
  BY <1>8, TakeMemberStep
<1>9. CASE MemberFound
  BY <1>9, MemberFoundStep
<1>10. CASE Grouped
  BY <1>10, GroupedStep
<1>11. CASE Report
  BY <1>11, ReportStep
<1>12. CASE Reported
  BY <1>12, ReportedStep
<1>13. CASE LoadGraph
  BY <1>13, LoadGraphStep
<1>14. CASE ReadNear
  BY <1>14, ReadNearStep
<1>15. CASE Suggest
  BY <1>15, SuggestStep
<1>16. CASE \E i \in MayHide : Hide(i)
  BY <1>16, HideStep
<1>17. CASE \E p \in MayLink : Link(p)
  BY <1>17, LinkStep
<1>18. CASE UNCHANGED vars
  <2>1. Shapes' /\ Fresh' /\ Rows'
    BY <1>18 DEF vars, Inv, Shapes, Fresh, Rows
  <2>2. Clustering'
    <3> SUFFICES ASSUME Clustered PROVE Framed' /\ \E rt : Tree(rt)'
      BY <1>18 DEF Clustering, Clustered, vars
    <3>1. PICK rt : Tree(rt)
      BY InClustering
    <3>2. Framed'
      BY <1>18, InClustering DEF vars, Framed, Ids, Pairing, Grouping, Finding, Ends
    <3>3. /\ Finding' = Finding /\ Grouping' = Grouping /\ Placed' = Placed /\ Ids' = Ids
          /\ UNCHANGED <<parent, pairs, todo, pair, find, root, member, group, pc>>
      BY <1>18 DEF vars, Finding, Grouping, Placed, Ids
    <3>4. Tree(rt)'
      BY <3>1, <3>3 DEF Tree, Rooted, Joined, Climbing, GroupedBy
    <3> QED BY <3>2, <3>4
  <2>3. Clusters'
    BY <1>18 DEF vars, Inv, Clusters, Groups
  <2>4. Reads'
    BY <1>18 DEF vars, Inv, Reads, Waiting, BeyondBand
  <2> QED BY <2>1, <2>2, <2>3, <2>4 DEF Inv
<1> QED BY <1>1, <1>2, <1>3, <1>4, <1>5, <1>6, <1>7, <1>8, <1>9, <1>10, <1>11, <1>12, <1>13,
           <1>14, <1>15, <1>16, <1>17, <1>18 DEF Next, Step

LEMMA Invariance == Spec => []Inv
BY InitInv, NextInv, PTL DEF Spec

-----------------------------------------------------------------------------
(* The theorems.                                                           *)

\* Whatever the distances and whatever the order in which pairs and ids come,
\* the clusters printed are the components of the pairs read, each with the
\* distance of its closest pair (clusters, find, run).
THEOREM AlwaysComponents == Spec => []ClustersAreComponents
<1>1. Inv => ClustersAreComponents
  BY DEF Inv, Clusters, Rows, ClustersAreComponents, Ends
<1> QED BY <1>1, Invariance, PTL

\* A merge call names no memory that its cluster does not list, but one hidden
\* after the pairs were read (run).
THEOREM AlwaysListedOrHidden == Spec => []ListedOrHidden
<1>1. Inv => ListedOrHidden
  BY DEF Inv, Rows, ListedOrHidden
<1> QED BY <1>1, Invariance, PTL

\* The bands of the two reports meet and do not overlap, for all distances and
\* all values of --threshold for --edges (suggest).
THEOREM AlwaysOneReport == Spec => []EveryPairHasOneReport
<1>1. ASSUME Inv, pc = "done", tight = MergeBand, wide > MergeBand, live = Memory,
             NEW p \in Pair, dist[p] <= wide, {p[1], p[2]} \cap summary = {}
      PROVE  /\ p \in pairs \/ p \in suggested \/ p \in linked
             /\ p \in suggested => p \notin pairs \cup graph
  <2>1. /\ pairs = {q \in Pair : dist[q] <= MergeBand} /\ graph \subseteq linked
        /\ suggested = {q \in Pair : /\ dist[q] <= wide /\ BeyondBand(q)
                                     /\ {q[1], q[2]} \cap summary = {} /\ q \notin graph}
    BY <1>1 DEF Inv, Reads
  <2>2. dist[p] \in Int /\ MergeBand \in Int
    BY OverlapAssumption, <1>1 DEF Inv, Shapes
  <2>3. BeyondBand(p) <=> ~(dist[p] <= MergeBand)
    BY <2>2 DEF BeyondBand
  <2> QED BY <1>1, <2>1, <2>3
<1>2. Inv => EveryPairHasOneReport
  BY <1>1 DEF EveryPairHasOneReport
<1> QED BY <1>2, Invariance, PTL
=============================================================================
