------------------------- MODULE MemoryStoreProofs --------------------------
(***************************************************************************)
(* MemoryStore implements StorePromise, for any clients, namespaces,       *)
(* relation types, chain limit, and sets of ids and links a caller asks    *)
(* for.  The id of a memory serves as its age: the sequence only grows.    *)
(*                                                                         *)
(* The second part is about the graph that is read from these tables: what *)
(* resolving an id finds, and what a merge and a detach do to relations.   *)
(***************************************************************************)
EXTENDS MemoryGraph, FiniteSetTheorems, WellFoundedInduction, TLAPS

\* What Accepted lets through is stored as the promise wants it: two different
\* rows of the client, in order, one of them in the caller's project.
LEMMA KeyProper ==
  ASSUME NEW mem, DOMAIN mem \subseteq Id, NEW w \in Scope,
         NEW i, NEW j, NEW r \in Rel, Accepted(mem, w, i, j)
  PROVE  LET k == KeyFor(mem, w, i, r, j)
         IN /\ k \in [src : Id, rel : Rel, dst : Id]
            /\ NewEdge(w.client, k) \in Edge
            /\ Promise!Proper(mem, w, NewEdge(w.client, k))
<1> DEFINE s == ChainEnd(mem, w.client, i)
           d == ChainEnd(mem, w.client, j)
           k == KeyFor(mem, w, i, r, j)
<1>1. /\ s \in DOMAIN mem /\ mem[s].client = w.client
      /\ d \in DOMAIN mem /\ mem[d].client = w.client
      /\ s # d /\ (mem[s].ns = w.ns \/ mem[d].ns = w.ns)
  BY DEF Accepted, ResolvesLive, MayLink
<1>2. s \in Id /\ d \in Id
  BY <1>1
<1>3. k = StoredKey(s, r, d)
  BY DEF KeyFor
<1> HIDE DEF s, d, k
<1>4. \/ k = [src |-> s, rel |-> r, dst |-> d] /\ (r \in SymmetricRel => s < d)
      \/ k = [src |-> d, rel |-> r, dst |-> s] /\ (r \in SymmetricRel => d < s)
  BY <1>1, <1>2, <1>3 DEF StoredKey, Id
<1>5. k \in [src : Id, rel : Rel, dst : Id] /\ NewEdge(w.client, k) \in Edge
  BY <1>2, <1>4 DEF NewEdge, Edge, Scope
<1>6. Promise!Proper(mem, w, NewEdge(w.client, k))
  BY <1>1, <1>2, <1>4 DEF NewEdge, Promise!Proper, Promise!RowsOf, Promise!TouchesNs
<1> QED BY <1>5, <1>6 DEF k

\* Keys that are proper are inserted as the promise wants it.
LEMMA InsertProper ==
  ASSUME TypeOK, NEW mem, NEW w \in Scope, NEW K, IsFiniteSet(K),
         \A k \in K : /\ k \in [src : Id, rel : Rel, dst : Id]
                      /\ NewEdge(w.client, k) \in Edge
                      /\ Promise!Proper(mem, w, NewEdge(w.client, k)),
         InsertEdges(w, K)
  PROVE  /\ Promise!AddEdges(mem, w)
         /\ edge' \in [DOMAIN edge' -> Edge]
         /\ nextEdge' \in Id /\ DOMAIN edge' \subseteq 1..(nextEdge' - 1)
<1> DEFINE F == Fresh(K)
           new == nextEdge..(nextEdge + Cardinality(F) - 1)
<1>1. F \subseteq K /\ F \cap LiveKeys = {} /\ Cardinality(F) \in Nat
  BY FS_Subset, FS_CardinalityType DEF Fresh
<1>2. nextEdge' = nextEdge + Cardinality(F)
  BY DEF InsertEdges
<1>3. PICK key \in Bijection(new, F) :
        edge' = [e \in DOMAIN edge \cup new |->
                   IF e \in new THEN NewEdge(w.client, key[e]) ELSE edge[e]]
  BY DEF InsertEdges
<1>4. /\ key \in [new -> F]
      /\ \A a, b \in new : key[a] = key[b] => a = b
  BY <1>3 DEF Bijection, Injection, IsInjective
<1> HIDE DEF F
<1>5. nextEdge \in Id /\ DOMAIN edge \subseteq 1..(nextEdge - 1)
  BY DEF TypeOK
<1>6. nextEdge' \in Id /\ DOMAIN edge \cup new \subseteq 1..(nextEdge' - 1)
  BY <1>1, <1>2, <1>5 DEF Id
<1>7. DOMAIN edge \cap new = {}
  BY <1>1, <1>5 DEF Id
<1> HIDE DEF new
<1>8. DOMAIN edge' = DOMAIN edge \cup new
  BY <1>3
<1>9. \A e \in DOMAIN edge : edge'[e] = edge[e] /\ edge[e] \in Edge
  BY <1>3, <1>7 DEF TypeOK
<1>10. \A e \in new : /\ edge'[e] = NewEdge(w.client, key[e]) /\ key[e] \in K
                      /\ key[e] \notin LiveKeys
  BY <1>1, <1>3, <1>4
<1>11. \A e \in new : KeyOf(edge'[e]) = key[e]
  <2>1. \A k \in [src : Id, rel : Rel, dst : Id] : KeyOf(NewEdge(w.client, k)) = k
    BY DEF KeyOf, NewEdge
  <2>2. \A e \in new : key[e] \in [src : Id, rel : Rel, dst : Id]
    BY <1>10
  <2> QED BY <1>10, <2>1, <2>2
<1>12. edge' \in [DOMAIN edge' -> Edge]
  <2>1. \A e \in DOMAIN edge' : edge'[e] \in Edge
    BY <1>8, <1>9, <1>10
  <2>2. edge' = [e \in DOMAIN edge' |-> edge'[e]]
    BY <1>3
  <2> QED BY <2>1, <2>2
<1>13. ASSUME NEW e \in new, NEW f \in Promise!LiveEdges(edge'),
              KeyOf(edge'[e]) = KeyOf(edge'[f])
       PROVE  e = f
  <2>1. CASE f \in new
    BY <1>4, <1>11, <1>13, <2>1
  <2>2. CASE f \in DOMAIN edge
    <3>1. f \in LiveEdges(edge)
      BY <1>9, <1>13, <2>2 DEF Promise!LiveEdges, LiveEdges
    <3>2. KeyOf(edge'[f]) \in LiveKeys
      BY <1>9, <2>2, <3>1 DEF LiveKeys
    <3> QED BY <1>10, <1>11, <1>13, <3>2
  <2> QED BY <1>8, <1>13, <2>1, <2>2 DEF Promise!LiveEdges
<1>14. Promise!AddEdges(mem, w)
  <2>1. DOMAIN edge \subseteq DOMAIN edge' /\ DOMAIN edge' \subseteq Id
    BY <1>6, <1>8 DEF Id
  <2>2. edge' = [e \in DOMAIN edge' |-> IF e \in DOMAIN edge THEN edge[e] ELSE edge'[e]]
    BY <1>3, <1>8, <1>9
  <2>3. \A e \in DOMAIN edge' \ DOMAIN edge :
          edge'[e] \in Edge /\ Promise!Proper(mem, w, edge'[e])
    BY <1>8, <1>10, <1>12
  <2>4. \A e \in DOMAIN edge' \ DOMAIN edge, f \in Promise!LiveEdges(edge') :
          Promise!KeyOf(edge'[e]) = Promise!KeyOf(edge'[f]) => e = f
    BY <1>8, <1>13 DEF KeyOf, Promise!KeyOf
  <2> QED BY <2>1, <2>2, <2>3, <2>4
          DEF Promise!AddEdges, Promise!Id, Id, Promise!Edge, Edge
<1> QED BY <1>6, <1>8, <1>12, <1>14

-----------------------------------------------------------------------------
(* The calls.                                                              *)

\* A save is a save of the promise: the rows it retires are those it was asked
\* to and may retire, and its id is larger than any before.
LEMMA SaveStep ==
  ASSUME TypeOK, NEW w \in Scope, NEW S \in Ask, NEW L \in Request, Save(w, S, L)
  PROVE  TypeOK' /\ Promise!Next
<1> DEFINE n == nextId
           mem == AfterSave(w, S, n)
           R == {i \in S : Retirable(memory, w, i, n)}
           asked == {l \in L : Accepted(mem, w, n, l.id)}
           K == {KeyFor(mem, w, n, l.rel, l.id) : l \in asked}
<1>1. n \in Id /\ n \notin DOMAIN memory /\ None \notin DOMAIN memory
  BY DEF TypeOK, Id, None
<1>2. memory' = mem /\ nextId' = n + 1 /\ InsertEdges(w, K)
  BY DEF Save
<1>3. DOMAIN mem = DOMAIN memory \cup {n}
  BY DEF AfterSave, AfterInsert
<1>4. mem = [i \in DOMAIN memory \cup {n} |->
               IF i = n THEN NewRow(w)
               ELSE IF i \in R THEN [memory[i] EXCEPT !.supersededBy = n]
               ELSE memory[i]]
  BY <1>1 DEF AfterSave, AfterInsert, Retirable, NewRow, None
<1>5. NewRow(w) \in Row /\ \A i \in DOMAIN memory : memory[i] \in Row
  BY DEF NewRow, Row, Scope, None, TypeOK
<1>6. \A i \in DOMAIN mem : mem[i] \in Row
  <2> SUFFICES ASSUME NEW i \in DOMAIN mem PROVE mem[i] \in Row
    OBVIOUS
  <2> HIDE DEF R
  <2>1. CASE i = n
    BY <1>3, <1>4, <1>5, <2>1
  <2>2. CASE i # n /\ i \in R
    <3>1. i \in DOMAIN memory /\ mem[i] = [memory[i] EXCEPT !.supersededBy = n]
      BY <1>3, <1>4, <2>2
    <3> QED BY <1>1, <1>5, <3>1 DEF Row, Id
  <2>3. CASE i # n /\ i \notin R
    BY <1>3, <1>4, <1>5, <2>3
  <2> QED BY <2>1, <2>2, <2>3
<1>7. DOMAIN mem \subseteq Id
  BY <1>1, <1>3 DEF TypeOK, Id
<1>8. IsFiniteSet(K)
  <2> DEFINE key == [l \in asked |-> KeyFor(mem, w, n, l.rel, l.id)]
  <2>1. IsFiniteSet(asked)
    BY StoreAssumption, FS_Subset
  <2>2. key \in Surjection(asked, K)
    BY DEF Surjection
  <2> QED BY <2>1, <2>2, FS_Surjection
<1>9. \A k \in K : /\ k \in [src : Id, rel : Rel, dst : Id]
                   /\ NewEdge(w.client, k) \in Edge
                   /\ Promise!Proper(mem, w, NewEdge(w.client, k))
  <2> SUFFICES ASSUME NEW l \in asked
               PROVE LET k == KeyFor(mem, w, n, l.rel, l.id)
                     IN /\ k \in [src : Id, rel : Rel, dst : Id]
                        /\ NewEdge(w.client, k) \in Edge
                        /\ Promise!Proper(mem, w, NewEdge(w.client, k))
    OBVIOUS
  <2>1. l.rel \in Rel /\ Accepted(mem, w, n, l.id)
    BY StoreAssumption
  <2> HIDE DEF mem, n
  <2> QED BY <1>7, <2>1, KeyProper
<1> HIDE DEF K
<1>10. /\ Promise!AddEdges(mem, w)
       /\ edge' \in [DOMAIN edge' -> Edge]
       /\ nextEdge' \in Id /\ DOMAIN edge' \subseteq 1..(nextEdge' - 1)
  BY <1>2, <1>8, <1>9, InsertProper
<1>11. memory' \in [DOMAIN memory' -> Row] /\ DOMAIN memory' \subseteq 1..(nextId' - 1)
  <2>1. memory' = [i \in DOMAIN mem |-> mem[i]]
    BY <1>2, <1>4
  <2>2. DOMAIN mem \subseteq 1..n
    BY <1>1, <1>3 DEF TypeOK, Id
  <2> HIDE DEF mem, n
  <2>3. memory' \in [DOMAIN memory' -> Row] /\ DOMAIN memory' = DOMAIN mem
    BY <1>6, <2>1
  <2>4. nextId' - 1 = n
    BY <1>1, <1>2 DEF Id
  <2> QED BY <2>2, <2>3, <2>4
<1>12. TypeOK'
  BY <1>1, <1>2, <1>10, <1>11 DEF TypeOK, Id
<1>13. Promise!Save(w, n, R)
  <2>1. \A i \in R : Promise!Retirable(memory, w, i, n)
    BY DEF Retirable, Promise!Retirable, InScope, Promise!InScope, None, Promise!None
  <2>2. memory' = [i \in DOMAIN memory \cup {n} |->
                     IF i = n THEN Promise!NewRow(w)
                     ELSE IF i \in R THEN [memory[i] EXCEPT !.supersededBy = n]
                     ELSE memory[i]]
    BY <1>2, <1>4 DEF NewRow, Promise!NewRow, None, Promise!None
  <2>3. \A i \in DOMAIN memory : i < n
    BY DEF TypeOK, Id
  <2> HIDE DEF n, R
  <2>4. DOMAIN memory' = DOMAIN memory \cup {n}
    BY <1>2, <1>3
  <2> QED BY <1>1, <1>2, <1>10, <2>1, <2>2, <2>3, <2>4 DEF Promise!Save, Promise!Id, Id
<1>14. R \in SUBSET DOMAIN memory /\ n \in DOMAIN memory' /\ w \in Promise!Scope
  BY <1>2, <1>3 DEF Retirable, Scope, Promise!Scope
<1> HIDE DEF n, R, mem, asked
<1> QED BY <1>12, <1>13, <1>14 DEF Promise!Next, Promise!Save

LEMMA LinkStep ==
  ASSUME TypeOK, NEW w \in Scope, NEW i \in DOMAIN memory, NEW j \in DOMAIN memory,
         NEW r \in Rel, Link(w, i, r, j)
  PROVE  TypeOK' /\ Promise!Next
<1> DEFINE k == KeyFor(memory, w, i, r, j)
<1>1. /\ k \in [src : Id, rel : Rel, dst : Id]
      /\ NewEdge(w.client, k) \in Edge
      /\ Promise!Proper(memory, w, NewEdge(w.client, k))
  <2>1. DOMAIN memory \subseteq Id /\ Accepted(memory, w, i, j)
    BY DEF TypeOK, Id, Link
  <2> QED BY <2>1, KeyProper
<1>2. InsertEdges(w, {k})
  BY DEF Link
<1> HIDE DEF k
<1>3. /\ Promise!AddEdges(memory, w)
      /\ edge' \in [DOMAIN edge' -> Edge]
      /\ nextEdge' \in Id /\ DOMAIN edge' \subseteq 1..(nextEdge' - 1)
  <2>1. IsFiniteSet({k})
    BY FS_Singleton
  <2> QED BY <1>1, <1>2, <2>1, InsertProper
<1>4. TypeOK'
  BY <1>3 DEF TypeOK, Link
<1>5. Promise!Link(w) /\ w \in Promise!Scope
  BY <1>3 DEF Promise!Link, Link, Scope, Promise!Scope
<1> QED BY <1>4, <1>5 DEF Promise!Next

\* Forget, restore and expiry set marks of one row in the caller's project.
LEMMA MarkStep ==
  ASSUME TypeOK, NEW w \in Scope, NEW i \in DOMAIN memory,
         Forget(w, i) \/ Expire(w, i) \/ \E d \in BOOLEAN : Restore(w, i, d)
  PROVE  TypeOK' /\ Promise!Next
<1>1. /\ InScope(memory[i], w)
      /\ \E f, x \in BOOLEAN, s \in {memory[i].supersededBy, None} :
           memory' = [memory EXCEPT ![i].forgotten = f, ![i].expired = x, ![i].supersededBy = s]
      /\ UNCHANGED <<edge, nextId, nextEdge>>
  <2>1. memory[i] \in Row
    BY DEF TypeOK
  <2>2. CASE Forget(w, i)
    <3>1. memory' = [memory EXCEPT ![i].forgotten = TRUE, ![i].expired = memory[i].expired,
                                   ![i].supersededBy = memory[i].supersededBy]
      BY <2>1, <2>2 DEF Forget, TypeOK, Row
    <3> QED BY <2>1, <2>2, <3>1 DEF Forget, Forgettable, Row
  <2>3. CASE Expire(w, i)
    <3>1. memory' = [memory EXCEPT ![i].forgotten = memory[i].forgotten, ![i].expired = TRUE,
                                   ![i].supersededBy = memory[i].supersededBy]
      BY <2>1, <2>3 DEF Expire, TypeOK, Row
    <3> QED BY <2>1, <2>3, <3>1 DEF Expire, Row
  <2>4. ASSUME NEW d \in BOOLEAN, Restore(w, i, d)
        PROVE  /\ InScope(memory[i], w)
               /\ \E f, x \in BOOLEAN, s \in {memory[i].supersededBy, None} :
                    memory' = [memory EXCEPT ![i].forgotten = f, ![i].expired = x,
                                             ![i].supersededBy = s]
               /\ UNCHANGED <<edge, nextId, nextEdge>>
    <3> DEFINE s == IF d THEN None ELSE memory[i].supersededBy
    <3>1. memory' = [memory EXCEPT ![i].forgotten = FALSE, ![i].expired = memory[i].expired,
                                   ![i].supersededBy = s]
      BY <2>1, <2>4 DEF Restore, Detached, Unhidden, TypeOK, Row
    <3>2. s \in {memory[i].supersededBy, None} /\ memory[i].expired \in BOOLEAN
      BY <2>1 DEF Row
    <3> HIDE DEF s
    <3> QED BY <2>4, <3>1, <3>2 DEF Restore, Restorable
  <2> QED BY <2>2, <2>3, <2>4
<1>2. DOMAIN memory' = DOMAIN memory
  BY <1>1
<1>3. TypeOK'
  BY <1>1, <1>2 DEF TypeOK, Row, None
<1>4. Promise!Mark(w, i)
  BY <1>1, <1>2 DEF Promise!Mark, InScope, Promise!InScope, None, Promise!None
<1> QED BY <1>3, <1>4 DEF Promise!Next, Scope, Promise!Scope

LEMMA ForgetEdgeStep ==
  ASSUME TypeOK, NEW w \in Scope, NEW e \in DOMAIN edge, ForgetEdge(w, e)
  PROVE  TypeOK' /\ Promise!Next
<1>1. TypeOK'
  BY DEF ForgetEdge, TypeOK, Edge
<1>2. Promise!ForgetEdge(w, e)
  BY DEF ForgetEdge, Promise!ForgetEdge, TouchesNs, Promise!TouchesNs
<1> QED BY <1>1, <1>2 DEF Promise!Next, Scope, Promise!Scope

\* Every call is a step of the promise, or leaves its tables alone.
LEMMA Step ==
  ASSUME TypeOK, [Next]_vars
  PROVE  TypeOK' /\ [Promise!Next]_Promise!vars
<1>1. CASE UNCHANGED vars
  BY <1>1 DEF vars, TypeOK, Promise!vars
<1>2. ASSUME NEW w \in Scope, NEW S \in Ask, SaveFails(w, S)
      PROVE  TypeOK' /\ UNCHANGED Promise!vars
  BY <1>2 DEF SaveFails, TypeOK, Id, Promise!vars
<1>3. ASSUME NEW w \in Scope, Call(w) PROVE TypeOK' /\ [Promise!Next]_Promise!vars
  BY <1>2, <1>3, SaveStep, LinkStep, MarkStep, ForgetEdgeStep DEF Call
<1> QED BY <1>1, <1>3 DEF Next

\* The tables keep their shape, and ids come from the sequences.
THEOREM TypeCorrect == Spec => []TypeOK
<1>1. Init => TypeOK
  BY DEF Init, TypeOK, EmptyTable, Id
<1> QED BY <1>1, Step, PTL DEF Spec

\* The store, one call at a time, keeps the promise.
THEOREM Refinement == Spec => Implements
<1>1. Init => Promise!Init
  BY DEF Init, Promise!Init, EmptyTable, Promise!EmptyTable, None, Promise!None
<1> QED BY <1>1, Step, TypeCorrect, PTL DEF Spec, Implements, Promise!Spec

-----------------------------------------------------------------------------
(* What StorePromiseProofs proves of the promise holds of its refinement.  *)

Proved == INSTANCE StorePromiseProofs WITH age <- [i \in DOMAIN memory |-> i]

\* The promise, reached through either instance, is the same.
LEMMA SameInit == Promise!Init => Proved!Init
  BY DEF Promise!Init, Proved!Init, Promise!EmptyTable, Proved!EmptyTable, Promise!None,
         Proved!None

LEMMA SameNext == [Promise!Next]_Promise!vars => [Proved!Next]_Proved!vars
  BY DEF Promise!Next, Proved!Next, Promise!vars, Proved!vars, Promise!Save, Proved!Save,
         Promise!Link, Proved!Link, Promise!Mark, Proved!Mark,
         Promise!ForgetEdge, Proved!ForgetEdge, Promise!AddEdges, Proved!AddEdges,
         Promise!Proper, Proved!Proper, Promise!Scope, Proved!Scope, Promise!Id, Proved!Id,
         Promise!Retirable, Proved!Retirable, Promise!InScope, Proved!InScope,
         Promise!NewRow, Proved!NewRow, Promise!None, Proved!None, Promise!Edge, Proved!Edge,
         Promise!KeyOf, Proved!KeyOf, Promise!LiveEdges, Proved!LiveEdges,
         Promise!RowsOf, Proved!RowsOf, Promise!TouchesNs, Proved!TouchesNs

LEMMA KeepsPromise == Spec => Proved!Spec
  BY Refinement, SameInit, SameNext, PTL DEF Implements, Promise!Spec, Proved!Spec

\* A superseded memory points to one with a larger id, whatever was detached
\* and superseded again: no chain of the store runs in a circle.
THEOREM SafeChains == Spec => []ChainsClimb
<1>1. Proved!ChainsClimb => ChainsClimb
  BY DEF Proved!ChainsClimb, ChainsClimb, Promise!ChainsClimb, Proved!None, Promise!None
<1> QED BY <1>1, KeepsPromise, SchemaAssumption, Proved!Chains, PTL

\* No chain leaves its client or its project.
THEOREM ScopedChains == Spec => []ChainsStayHome
<1>1. Proved!ChainsStayHome => ChainsStayHome
  BY DEF Proved!ChainsStayHome, ChainsStayHome, Promise!ChainsStayHome,
         Proved!InScope, Promise!InScope
<1> QED BY <1>1, KeepsPromise, SchemaAssumption, Proved!Chains, PTL

\* Every edge joins two different rows of its client, in the order it must.
THEOREM SafeEdges == Spec => []EdgesWellFormed
<1>1. Proved!EdgesWellFormed => EdgesWellFormed
  BY DEF Proved!EdgesWellFormed, EdgesWellFormed, Promise!EdgesWellFormed,
         Proved!RowsOf, Promise!RowsOf
<1> QED BY <1>1, KeepsPromise, SchemaAssumption, Proved!EdgesCorrect, PTL

\* No two live edges say the same of the same two ids.
THEOREM UniqueEdges == Spec => []OneLiveEdgePerFact
<1>1. Proved!OneLiveEdgePerFact => OneLiveEdgePerFact
  BY DEF Proved!OneLiveEdgePerFact, OneLiveEdgePerFact, Promise!OneLiveEdgePerFact,
         Proved!LiveEdges, Promise!LiveEdges
<1> QED BY <1>1, KeepsPromise, SchemaAssumption, Proved!EdgesUnique, PTL

\* No row, edge or supersede is lost or rewritten by any call.
THEOREM SafeHistory == Spec => HistoryKept
<1>1. [Proved!KeepsHistory]_Proved!vars => [Promise!KeepsHistory]_Promise!vars
  BY DEF Proved!KeepsHistory, Promise!KeepsHistory, Proved!vars, Promise!vars,
         Proved!InScope, Promise!InScope, Proved!None, Promise!None
<1> QED BY <1>1, KeepsPromise, SchemaAssumption, Proved!History, PTL
        DEF HistoryKept, Promise!HistoryKept, Proved!HistoryKept

-----------------------------------------------------------------------------
(* Numbers.                                                                *)

LEMMA Least ==
  ASSUME NEW S \in SUBSET Nat, S # {}
  PROVE  \E x \in S : \A y \in S : x <= y
<1> DEFINE Less == {ss \in Nat \X Nat : ss[1] < ss[2]}
<1>1. IsWellFoundedOn(Less, Nat)
  BY NatLessThanWellFounded, Zenon DEF OpToRel
<1>2. PICK x \in S : \A y \in S : ~(<<y, x>> \in Less)
  <2> HIDE DEF Less
  <2> QED BY <1>1, WFMin
<1>3. ASSUME NEW y \in S
      PROVE  x <= y
  <2>1. <<y, x>> \notin Less
    BY <1>2
  <2>2. ~(y < x)
    BY <2>1
  <2> QED BY <2>2
<1> QED BY <1>3

\* A set of numbers that has 0, and n + 1 when it has n, has them all.
LEMMA Induction ==
  ASSUME NEW G, 0 \in G, \A n \in Nat : n \in G => n + 1 \in G
  PROVE  Nat \subseteq G
<1> DEFINE Bad == Nat \ G
<1> SUFFICES ASSUME Bad # {} PROVE FALSE
  OBVIOUS
<1>1. PICK x \in Bad : \A y \in Bad : x <= y
  BY Least
<1>2. x # 0 /\ x - 1 \in Nat
  BY <1>1
<1>3. x - 1 \in G
  BY <1>1, <1>2
<1>4. x - 1 + 1 \in G
  BY <1>2, <1>3
<1> QED BY <1>1, <1>2, <1>4

-----------------------------------------------------------------------------
(* Chains.                                                                 *)

\* cur follows the chain of i, one row at a time.
Walk(mem, c, i, cur) ==
  /\ cur[0] = i
  /\ \A n \in 1..(MaxChain - 1) : cur[n] = NextInChain(mem, c, cur[n-1])

\* The recursion of ChainEnd, unfolded.
LEMMA Walks ==
  ASSUME NEW mem, NEW c, NEW i
  PROVE  \E cur : Walk(mem, c, i, cur) /\ ChainEnd(mem, c, i) = cur[MaxChain - 1]
<1> DEFINE N == MaxChain - 1
           At(f, n) == IF n = 0 THEN i ELSE NextInChain(mem, c, f[n-1])
           Follows(f, m) == f = [n \in 0..m |-> At(f, n)]
           G == {m \in Nat : \E f : Follows(f, m)}
<1>1. N \in Nat
  BY SchemaAssumption
<1>2. 0 \in G
  <2> DEFINE f == [n \in 0..0 |-> i]
  <2>1. \A n \in 0..0 : n = 0
    OBVIOUS
  <2>2. Follows(f, 0)
    BY <2>1
  <2> QED BY <2>2
<1>3. ASSUME NEW m \in Nat, m \in G
      PROVE  m + 1 \in G
  <2>1. PICK f : Follows(f, m)
    BY <1>3
  <2> DEFINE g == [n \in 0..(m+1) |-> IF n = m + 1 THEN NextInChain(mem, c, f[m]) ELSE f[n]]
  <2>2. ASSUME NEW n \in 0..(m+1)
        PROVE  g[n] = At(g, n)
    <3>1. CASE n = m + 1
      <4>1. n - 1 = m /\ n # 0 /\ m \in 0..(m+1) /\ m # m + 1
        BY <3>1
      <4>2. g[n - 1] = f[m]
        BY <4>1
      <4> QED BY <3>1, <4>1, <4>2
    <3>2. CASE n # m + 1 /\ n # 0
      <4>1. n \in 0..m /\ n - 1 \in 0..(m+1) /\ n - 1 # m + 1
        BY <3>2
      <4>2. f[n] = NextInChain(mem, c, f[n-1])
        BY <2>1, <3>2, <4>1
      <4> QED BY <3>2, <4>1, <4>2
    <3>3. CASE n = 0
      <4>1. n \in 0..m /\ n # m + 1
        BY <3>3
      <4>2. f[n] = i
        BY <2>1, <3>3, <4>1
      <4> QED BY <3>3, <4>1, <4>2
    <3> QED BY <3>1, <3>2, <3>3
  <2>3. g = [n \in 0..(m+1) |-> g[n]]
    OBVIOUS
  <2> HIDE DEF g, At
  <2>4. Follows(g, m + 1)
    BY <2>2, <2>3
  <2> QED BY <2>4
<1>4. N \in G
  <2> HIDE DEF G
  <2> QED BY <1>1, <1>2, <1>3, Induction
<1> DEFINE cur == CHOOSE f : Follows(f, N)
<1>5. Follows(cur, N)
  <2>1. \E f : Follows(f, N)
    BY <1>4
  <2> HIDE DEF Follows
  <2> QED BY <2>1
<1>6. ChainEnd(mem, c, i) = cur[N]
  BY DEF ChainEnd
<1> HIDE DEF cur
<1>7. \A n \in 0..N : cur[n] = At(cur, n)
  BY <1>5
<1>8. Walk(mem, c, i, cur)
  BY <1>1, <1>7 DEF Walk
<1> QED BY <1>6, <1>8

\* What the proofs need of the tables.
ChainsOK ==
  /\ DOMAIN memory \subseteq 1..(nextId - 1) /\ nextId \in Id
  /\ \A i \in DOMAIN memory : memory[i].supersededBy # None =>
       /\ memory[i].supersededBy \in DOMAIN memory
       /\ i < memory[i].supersededBy
       /\ memory[memory[i].supersededBy].client = memory[i].client

LEMMA ChainsAreOK ==
  ASSUME TypeOK, ChainsClimb, ChainsStayHome
  PROVE  ChainsOK
<1>1. /\ DOMAIN memory \subseteq 1..(nextId - 1) /\ nextId \in Id
  BY DEF TypeOK
<1>2. ASSUME NEW i \in DOMAIN memory, memory[i].supersededBy # None
      PROVE  /\ memory[i].supersededBy \in DOMAIN memory
             /\ i < memory[i].supersededBy
             /\ memory[memory[i].supersededBy].client = memory[i].client
  <2>1. memory[i].supersededBy \in DOMAIN memory /\ i < memory[i].supersededBy
    BY <1>2 DEF ChainsClimb, Promise!ChainsClimb, None, Promise!None
  <2>2. Promise!InScope(memory[i], memory[memory[i].supersededBy])
    BY <2>1 DEF ChainsStayHome, Promise!ChainsStayHome
  <2> QED BY <2>1, <2>2 DEF Promise!InScope
<1> QED BY <1>1, <1>2 DEF ChainsOK

\* A set of rows that has every row whose successor it has, has them all: chains
\* are climbed down from the youngest row.
LEMMA ChainInduction ==
  ASSUME ChainsOK, NEW G,
         \A i \in DOMAIN memory :
           (memory[i].supersededBy # None => memory[i].supersededBy \in G) => i \in G
  PROVE  DOMAIN memory \subseteq G
<1> DEFINE s(i) == memory[i].supersededBy
           Bad == {m \in Nat : nextId - m \in DOMAIN memory \ G}
<1> SUFFICES ASSUME NEW i \in DOMAIN memory \ G PROVE FALSE
  OBVIOUS
<1>1. DOMAIN memory \subseteq 1..(nextId - 1) /\ nextId \in Nat
  BY DEF ChainsOK, Id
<1>2. nextId - i \in Nat /\ nextId - (nextId - i) = i
  BY <1>1
<1>3. Bad \in SUBSET Nat /\ Bad # {}
  BY <1>2
<1>4. PICK m \in Bad : \A k \in Bad : m <= k
  BY <1>3, Least
<1>5. PICK j \in DOMAIN memory \ G : j = nextId - m
  BY <1>4
<1>6. s(j) # None /\ s(j) \notin G
  OBVIOUS
<1>7. s(j) \in DOMAIN memory /\ j < s(j)
  BY <1>6 DEF ChainsOK
<1>8. nextId - s(j) \in Nat /\ nextId - (nextId - s(j)) = s(j) /\ nextId - s(j) < m
  BY <1>1, <1>5, <1>7
<1>9. nextId - s(j) \in Bad
  BY <1>6, <1>7, <1>8
<1> QED BY <1>4, <1>8, <1>9

\* The recursions of ChainLast and ChainRows, unfolded.
LEMMA LastIs ==
  ASSUME ChainsOK
  PROVE  \A i \in DOMAIN memory :
           ChainLast[i] = IF memory[i].supersededBy = None THEN i
                     ELSE ChainLast[memory[i].supersededBy]
<1> DEFINE s(i) == memory[i].supersededBy
           At(f, i) == IF s(i) = None THEN i ELSE f[s(i)]
           Young(m) == {j \in DOMAIN memory : nextId - m <= j}
           Solves(f, m) == f = [i \in Young(m) |-> At(f, i)]
           G == {m \in Nat : \E f : Solves(f, m)}
<1>1. DOMAIN memory \subseteq 1..(nextId - 1) /\ nextId \in Nat
  BY DEF ChainsOK, Id
<1>2. \A i \in DOMAIN memory : s(i) # None => s(i) \in DOMAIN memory /\ i < s(i)
  BY DEF ChainsOK
<1>3. 0 \in G
  <2> DEFINE f == [i \in {} |-> 0]
  <2>1. Young(0) = {}
    BY <1>1
  <2>2. Solves(f, 0)
    BY <2>1
  <2> QED BY <2>2
<1>4. ASSUME NEW m \in Nat, m \in G
      PROVE  m + 1 \in G
  <2>1. PICK f : Solves(f, m)
    BY <1>4
  <2> DEFINE g == [i \in Young(m + 1) |-> IF i \in Young(m) THEN f[i] ELSE At(f, i)]
  <2>2. \A i \in Young(m + 1) : s(i) # None => s(i) \in Young(m) /\ s(i) \in Young(m + 1)
    BY <1>1, <1>2
  <2>3. \A i \in Young(m) : i \in Young(m + 1) /\ f[i] = At(f, i)
    BY <1>1, <2>1
  <2>4. ASSUME NEW i \in Young(m + 1)
        PROVE  g[i] = At(g, i)
    <3>1. g[i] = At(f, i)
      BY <2>3
    <3>2. s(i) # None => g[s(i)] = f[s(i)]
      BY <2>2
    <3> HIDE DEF g
    <3> QED BY <3>1, <3>2
  <2>5. g = [i \in Young(m + 1) |-> g[i]]
    OBVIOUS
  <2> HIDE DEF g, At, Young
  <2>6. Solves(g, m + 1)
    BY <2>4, <2>5
  <2> QED BY <2>6
<1>5. nextId \in G
  <2> HIDE DEF G
  <2> QED BY <1>1, <1>3, <1>4, Induction
<1> DEFINE f == CHOOSE f : f = [i \in DOMAIN memory |-> At(f, i)]
<1>6. f = [i \in DOMAIN memory |-> At(f, i)]
  <2>1. Young(nextId) = DOMAIN memory
    BY <1>1
  <2>2. \E h : h = [i \in DOMAIN memory |-> At(h, i)]
    BY <1>5, <2>1
  <2> HIDE DEF At
  <2> QED BY <2>2
<1>7. ChainLast = f
  BY DEF ChainLast
<1> HIDE DEF f
<1> QED BY <1>6, <1>7

LEMMA RowsIs ==
  ASSUME ChainsOK
  PROVE  \A i \in DOMAIN memory :
           ChainRows[i] = IF memory[i].supersededBy = None THEN 1
                     ELSE 1 + ChainRows[memory[i].supersededBy]
<1> DEFINE s(i) == memory[i].supersededBy
           At(f, i) == IF s(i) = None THEN 1 ELSE 1 + f[s(i)]
           Young(m) == {j \in DOMAIN memory : nextId - m <= j}
           Solves(f, m) == f = [i \in Young(m) |-> At(f, i)]
           G == {m \in Nat : \E f : Solves(f, m)}
<1>1. DOMAIN memory \subseteq 1..(nextId - 1) /\ nextId \in Nat
  BY DEF ChainsOK, Id
<1>2. \A i \in DOMAIN memory : s(i) # None => s(i) \in DOMAIN memory /\ i < s(i)
  BY DEF ChainsOK
<1>3. 0 \in G
  <2> DEFINE f == [i \in {} |-> 0]
  <2>1. Young(0) = {}
    BY <1>1
  <2>2. Solves(f, 0)
    BY <2>1
  <2> QED BY <2>2
<1>4. ASSUME NEW m \in Nat, m \in G
      PROVE  m + 1 \in G
  <2>1. PICK f : Solves(f, m)
    BY <1>4
  <2> DEFINE g == [i \in Young(m + 1) |-> IF i \in Young(m) THEN f[i] ELSE At(f, i)]
  <2>2. \A i \in Young(m + 1) : s(i) # None => s(i) \in Young(m) /\ s(i) \in Young(m + 1)
    BY <1>1, <1>2
  <2>3. \A i \in Young(m) : i \in Young(m + 1) /\ f[i] = At(f, i)
    BY <1>1, <2>1
  <2>4. ASSUME NEW i \in Young(m + 1)
        PROVE  g[i] = At(g, i)
    <3>1. g[i] = At(f, i)
      BY <2>3
    <3>2. s(i) # None => g[s(i)] = f[s(i)]
      BY <2>2
    <3> HIDE DEF g
    <3> QED BY <3>1, <3>2
  <2>5. g = [i \in Young(m + 1) |-> g[i]]
    OBVIOUS
  <2> HIDE DEF g, At, Young
  <2>6. Solves(g, m + 1)
    BY <2>4, <2>5
  <2> QED BY <2>6
<1>5. nextId \in G
  <2> HIDE DEF G
  <2> QED BY <1>1, <1>3, <1>4, Induction
<1> DEFINE f == CHOOSE f : f = [i \in DOMAIN memory |-> At(f, i)]
<1>6. f = [i \in DOMAIN memory |-> At(f, i)]
  <2>1. Young(nextId) = DOMAIN memory
    BY <1>1
  <2>2. \E h : h = [i \in DOMAIN memory |-> At(h, i)]
    BY <1>5, <2>1
  <2> HIDE DEF At
  <2> QED BY <2>2
<1>7. ChainRows = f
  BY DEF ChainRows
<1> HIDE DEF f
<1> QED BY <1>6, <1>7

LEMMA ChainProper ==
  ASSUME ChainsOK
  PROVE  \A i \in DOMAIN memory :
           /\ ChainRows[i] \in Nat \ {0} /\ ChainLast[i] \in DOMAIN memory
           /\ memory[ChainLast[i]].supersededBy = None
           /\ memory[ChainLast[i]].client = memory[i].client
<1> DEFINE G == {i \in DOMAIN memory :
                   /\ ChainRows[i] \in Nat \ {0} /\ ChainLast[i] \in DOMAIN memory
                   /\ memory[ChainLast[i]].supersededBy = None
                   /\ memory[ChainLast[i]].client = memory[i].client}
<1>1. ASSUME NEW i \in DOMAIN memory,
             memory[i].supersededBy # None => memory[i].supersededBy \in G
      PROVE  i \in G
  <2>1. CASE memory[i].supersededBy = None
    BY <2>1, LastIs, RowsIs
  <2>2. CASE memory[i].supersededBy # None
    <3>1. memory[memory[i].supersededBy].client = memory[i].client
      BY <2>2 DEF ChainsOK
    <3>2. ChainRows[i] = 1 + ChainRows[memory[i].supersededBy]
          /\ ChainLast[i] = ChainLast[memory[i].supersededBy]
      BY <2>2, LastIs, RowsIs
    <3> QED BY <1>1, <2>2, <3>1, <3>2
  <2> QED BY <2>1, <2>2
<1> HIDE DEF G
<1>2. DOMAIN memory \subseteq G
  BY <1>1, ChainInduction
<1> QED BY <1>2 DEF G

\* A walk of the chain of i is n rows further down it after n steps, until it
\* comes to the last.
LEMMA WalkClimbs ==
  ASSUME ChainsOK, NEW i \in DOMAIN memory, NEW cur, Walk(memory, memory[i].client, i, cur)
  PROVE  \A n \in 0..(MaxChain - 1) :
           /\ cur[n] \in DOMAIN memory /\ memory[cur[n]].client = memory[i].client
           /\ ChainLast[cur[n]] = ChainLast[i]
           /\ n < ChainRows[i] => ChainRows[cur[n]] = ChainRows[i] - n
           /\ n + 1 >= ChainRows[i] => cur[n] = ChainLast[i]
<1> DEFINE P(n) == /\ cur[n] \in DOMAIN memory /\ memory[cur[n]].client = memory[i].client
                   /\ ChainLast[cur[n]] = ChainLast[i]
                   /\ n < ChainRows[i] => ChainRows[cur[n]] = ChainRows[i] - n
                   /\ n + 1 >= ChainRows[i] => cur[n] = ChainLast[i]
           G == {n \in Nat : n \in 0..(MaxChain - 1) => P(n)}
<1>1. MaxChain \in Nat \ {0} /\ ChainRows[i] \in Nat \ {0}
  BY SchemaAssumption, ChainProper
<1>2. ASSUME NEW n, cur[n] \in DOMAIN memory, ChainRows[cur[n]] = 1
      PROVE  cur[n] = ChainLast[cur[n]]
  <2>1. memory[cur[n]].supersededBy = None
    <3> SUFFICES ASSUME memory[cur[n]].supersededBy # None PROVE FALSE
      OBVIOUS
    <3>1. memory[cur[n]].supersededBy \in DOMAIN memory
      BY <1>2 DEF ChainsOK
    <3>2. ChainRows[memory[cur[n]].supersededBy] \in Nat \ {0}
      BY <3>1, ChainProper
    <3>3. ChainRows[cur[n]] = 1 + ChainRows[memory[cur[n]].supersededBy]
      BY <1>2, RowsIs
    <3> QED BY <1>2, <3>2, <3>3
  <2> QED BY <1>2, <2>1, LastIs
<1>3. 0 \in G
  <2>1. cur[0] = i
    BY DEF Walk
  <2> QED BY <1>1, <1>2, <2>1
<1>4. ASSUME NEW n \in Nat, n \in G, n + 1 \in 0..(MaxChain - 1)
      PROVE  P(n + 1)
  <2>1. n \in 0..(MaxChain - 1) /\ n + 1 \in 1..(MaxChain - 1) /\ n + 1 - 1 = n
    BY <1>1, <1>4
  <2>2. P(n)
    BY <1>4, <2>1
  <2>3. cur[n + 1] = NextInChain(memory, memory[i].client, cur[n])
    BY <2>1 DEF Walk
  <2>4. CASE memory[cur[n]].supersededBy = None
    <3>1. cur[n + 1] = cur[n] /\ ChainRows[cur[n]] = 1 /\ ChainLast[cur[n]] = cur[n]
      BY <2>2, <2>3, <2>4, RowsIs, LastIs DEF NextInChain
    <3> HIDE DEF G
    <3> QED BY <1>1, <2>2, <3>1
  <2>5. CASE memory[cur[n]].supersededBy # None
    <3>1. /\ cur[n + 1] = memory[cur[n]].supersededBy /\ cur[n + 1] \in DOMAIN memory
          /\ memory[cur[n + 1]].client = memory[i].client
      BY <2>2, <2>3, <2>5 DEF NextInChain, ChainsOK
    <3>2. ChainLast[cur[n + 1]] = ChainLast[i] /\ ChainRows[cur[n]] = 1 + ChainRows[cur[n + 1]]
      BY <2>2, <2>5, <3>1, RowsIs, LastIs
    <3>3. ChainRows[cur[n + 1]] \in Nat \ {0}
      BY <3>1, ChainProper
    <3>4. n + 1 >= ChainRows[i] => FALSE
      <4>1. n + 1 >= ChainRows[i] => cur[n] = ChainLast[i]
        BY <2>2
      <4>2. memory[ChainLast[i]].supersededBy = None
        BY ChainProper
      <4> QED BY <2>5, <4>1, <4>2
    <3>5. ChainRows[cur[n + 1]] = ChainRows[i] - (n + 1)
      BY <1>1, <2>2, <3>2, <3>3, <3>4
    <3>6. n + 2 >= ChainRows[i] => ChainRows[cur[n + 1]] = 1
      BY <1>1, <3>3, <3>5
    <3>7. n + 2 >= ChainRows[i] => cur[n + 1] = ChainLast[i]
      BY <1>2, <3>1, <3>2, <3>6
    <3>8. n + 1 + 1 = n + 2
      OBVIOUS
    <3> QED BY <3>1, <3>2, <3>5, <3>7, <3>8
  <2> QED BY <2>4, <2>5
<1>5. \A n \in Nat : n \in G => n + 1 \in G
  BY <1>4
<1> HIDE DEF P
<1>6. Nat \subseteq G
  <2> HIDE DEF G
  <2> QED BY <1>3, <1>5, Induction
<1>7. \A n \in 0..(MaxChain - 1) : n \in Nat
  BY <1>1
<1> QED BY <1>6, <1>7 DEF P

\* Up to the limit, a chain is followed to its last row.
LEMMA UpToTheLimit ==
  ASSUME ChainsOK, NEW i \in DOMAIN memory, ChainRows[i] <= MaxChain
  PROVE  ChainEnd(memory, memory[i].client, i) = ChainLast[i]
<1>1. PICK cur : /\ Walk(memory, memory[i].client, i, cur)
                 /\ ChainEnd(memory, memory[i].client, i) = cur[MaxChain - 1]
  BY Walks
<1>2. MaxChain - 1 \in 0..(MaxChain - 1) /\ MaxChain - 1 + 1 >= ChainRows[i]
  BY SchemaAssumption, ChainProper
<1> QED BY <1>1, <1>2, WalkClimbs

\* A chain that ends in a live memory and has no more rows than the limit is followed
\* to its end from each of its rows (Graph::resolve), whatever calls built it.
THEOREM AlwaysResolves == Spec => []ChainsUpToTheLimitResolve
<1>1. ASSUME ChainsOK, NEW i \in DOMAIN memory, Live(memory[ChainLast[i]]), ChainRows[i] <= MaxChain
      PROVE  Resolve(memory, memory[i].client, i) = ChainLast[i]
  <2>1. ChainEnd(memory, memory[i].client, i) = ChainLast[i]
    BY <1>1, UpToTheLimit
  <2>2. ChainLast[i] \in DOMAIN memory /\ memory[ChainLast[i]].client = memory[i].client
    BY <1>1, ChainProper
  <2>3. ResolvesLive(memory, memory[i].client, i)
    BY <1>1, <2>1, <2>2 DEF ResolvesLive
  <2> QED BY <2>1, <2>3 DEF Resolve
<1>2. ChainsOK => ChainsUpToTheLimitResolve
  BY <1>1 DEF ChainsUpToTheLimitResolve
<1> QED BY <1>2, ChainsAreOK, TypeCorrect, SafeChains, ScopedChains, PTL

-----------------------------------------------------------------------------
(* What the graph says.                                                    *)

LEMMA ResolveIs ==
  ASSUME NEW mem, DOMAIN mem \subseteq Nat, NEW c, NEW i
  PROVE  /\ Resolve(mem, c, i) \in Nat
         /\ Resolve(mem, c, i) # None =>
              /\ Resolve(mem, c, i) = ChainEnd(mem, c, i)
              /\ ChainEnd(mem, c, i) \in DOMAIN mem
              /\ mem[ChainEnd(mem, c, i)].client = c
              /\ Live(mem[ChainEnd(mem, c, i)])
BY DEF Resolve, ResolvesLive, None

LEMMA KeyTurns ==
  ASSUME NEW a \in Int, NEW b \in Int, NEW r \in SymmetricRel
  PROVE  StoredKey(a, r, b) = StoredKey(b, r, a)
<1>1. CASE a < b
  BY <1>1 DEF StoredKey
<1>2. CASE b < a
  BY <1>2 DEF StoredKey
<1>3. CASE a = b
  BY <1>3
<1> QED BY <1>1, <1>2, <1>3

\* Duplicates leave the oldest edge that says the same, so nothing an edge says
\* is missing.
LEMMA NothingUnsaid ==
  ASSUME NEW mem, NEW edges, DOMAIN edges \subseteq Nat, NEW c
  PROVE  Relations(mem, edges, c) = {Relation(mem, edges[e]) : e \in Speaking(mem, edges, c)}
<1>1. ASSUME NEW e \in Speaking(mem, edges, c)
      PROVE  \E d \in Shown(mem, edges, c) : Relation(mem, edges[d]) = Relation(mem, edges[e])
  <2> DEFINE S == {d \in Speaking(mem, edges, c) :
                     Relation(mem, edges[d]) = Relation(mem, edges[e])}
  <2>1. Speaking(mem, edges, c) \subseteq DOMAIN edges
        /\ \A d \in Speaking(mem, edges, c) : edges[d].client = c
    BY DEF Speaking, Loaded, LiveEdges
  <2>2. S \in SUBSET Nat /\ e \in S
    BY <2>1
  <2>3. PICK d \in S : \A f \in S : d <= f
    BY <2>2, Least
  <2>4. ~IsDuplicate(mem, edges, d)
    <3> SUFFICES ASSUME NEW f \in Speaking(mem, edges, c), f < d, SameFact(mem, edges[f], edges[d])
                 PROVE  FALSE
      BY <2>1 DEF IsDuplicate
    <3>1. f \in S
      BY <2>3 DEF SameFact
    <3>2. d <= f /\ d \in Nat /\ f \in Nat
      BY <2>2, <2>3, <3>1
    <3> QED BY <3>2
  <2> QED BY <2>3, <2>4 DEF Shown
<1>2. Shown(mem, edges, c) \subseteq Speaking(mem, edges, c)
  BY DEF Shown
<1> QED BY <1>1, <1>2 DEF Relations

\* The adjacency lists name no neighbour twice by one relation, whichever way
\* round the edges were written and whatever merges brought them together
\* (Graph::build).
THEOREM AlwaysOnce == Spec => []EachRelationOnce
<1>1. ASSUME TypeOK, NEW c \in Client, NEW d \in Shown(memory, edge, c),
             NEW e \in Shown(memory, edge, c),
             Relation(memory, edge[d]) = Relation(memory, edge[e])
      PROVE  d = e
  <2>1. /\ d \in Speaking(memory, edge, c) /\ e \in Speaking(memory, edge, c)
        /\ ~IsDuplicate(memory, edge, d) /\ ~IsDuplicate(memory, edge, e)
    BY DEF Shown
  <2>2. /\ d \in DOMAIN edge /\ e \in DOMAIN edge
        /\ edge[d].client = c /\ edge[e].client = c
    BY <2>1 DEF Speaking, Loaded, LiveEdges
  <2>3. d \in Nat /\ e \in Nat
    BY <1>1, <2>2 DEF TypeOK
  <2>4. ~(d < e) /\ ~(e < d)
    BY <1>1, <2>1, <2>2 DEF IsDuplicate, SameFact
  <2> QED BY <2>3, <2>4
<1>2. ASSUME TypeOK, NEW c \in Client, NEW d \in Shown(memory, edge, c),
             NEW e \in Shown(memory, edge, c), edge[d].rel = edge[e].rel,
             \/ /\ Resolve(memory, c, edge[d].src) = Resolve(memory, c, edge[e].src)
                /\ Resolve(memory, c, edge[d].dst) = Resolve(memory, c, edge[e].dst)
             \/ /\ edge[d].rel \in SymmetricRel
                /\ Resolve(memory, c, edge[d].src) = Resolve(memory, c, edge[e].dst)
                /\ Resolve(memory, c, edge[d].dst) = Resolve(memory, c, edge[e].src)
      PROVE  d = e
  <2>1. edge[d].client = c /\ edge[e].client = c
    BY DEF Shown, Speaking, Loaded
  <2>2. \A i : Resolve(memory, c, i) \in Int
    BY <1>2, ResolveIs DEF TypeOK
  <2>3. Relation(memory, edge[d]) = Relation(memory, edge[e])
    BY <1>2, <2>1, <2>2, KeyTurns DEF Relation
  <2> QED BY <1>1, <1>2, <2>3
<1>3. TypeOK => EachRelationOnce
  BY <1>2 DEF EachRelationOnce
<1> QED BY <1>3, TypeCorrect, PTL

\* A row that is its own head.
LEMMA HeadOfItself ==
  ASSUME NEW mem, NEW c, NEW i \in DOMAIN mem, mem[i].client = c, Live(mem[i])
  PROVE  Resolve(mem, c, i) = i
<1>1. PICK cur : Walk(mem, c, i, cur) /\ ChainEnd(mem, c, i) = cur[MaxChain - 1]
  BY Walks
<1> DEFINE G == {n \in Nat : n \in 0..(MaxChain - 1) => cur[n] = i}
<1>2. 0 \in G
  BY <1>1 DEF Walk
<1>3. ASSUME NEW n \in Nat, n \in G, n + 1 \in 0..(MaxChain - 1)
      PROVE  cur[n + 1] = i
  <2>1. n \in 0..(MaxChain - 1) /\ n + 1 \in 1..(MaxChain - 1) /\ n + 1 - 1 = n
    BY <1>3, SchemaAssumption
  <2>2. cur[n + 1] = NextInChain(mem, c, i)
    BY <1>1, <1>3, <2>1 DEF Walk
  <2> QED BY <2>2 DEF NextInChain, Live
<1>4. \A n \in Nat : n \in G => n + 1 \in G
  BY <1>3
<1> HIDE DEF G
<1>5. MaxChain - 1 \in G
  BY <1>2, <1>4, Induction, SchemaAssumption
<1>6. ChainEnd(mem, c, i) = i
  BY <1>1, <1>5, SchemaAssumption DEF G
<1> QED BY <1>6 DEF Resolve, ResolvesLive

\* A memory detached from what replaced it has every edge back that was written
\* on it and whose other end is live elsewhere (restore, Graph::build).
THEOREM AlwaysMovedBack == Spec => []DetachMovesEdgesBack
<1>1. ASSUME TypeOK, NEW i \in DOMAIN memory, ~memory[i].expired,
             NEW e \in Loaded(edge, memory[i].client), i \in {edge[e].src, edge[e].dst},
             NEW d, d = Resolve(Detached(i), memory[i].client,
                                IF edge[e].src = i THEN edge[e].dst ELSE edge[e].src),
             d \notin {None, i}
      PROVE  \E r \in Relations(Detached(i), edge, memory[i].client) :
               r.rel = edge[e].rel /\ {r.src, r.dst} = {i, d}
  <2> DEFINE c == memory[i].client
             mem == Detached(i)
             r == Relation(mem, edge[e])
  <2>1. /\ DOMAIN mem = DOMAIN memory /\ DOMAIN mem \subseteq Nat \ {0}
        /\ mem[i].client = c /\ Live(mem[i])
    <3>1. memory[i] \in Row /\ memory \in [DOMAIN memory -> Row] /\ DOMAIN memory \subseteq Nat \ {0}
      BY <1>1 DEF TypeOK, Id
    <3>2. /\ mem[i] = [memory[i] EXCEPT !.forgotten = FALSE, !.supersededBy = None]
          /\ DOMAIN mem = DOMAIN memory
      BY <3>1 DEF Detached
    <3>3. /\ mem[i].client = c /\ mem[i].forgotten = FALSE /\ mem[i].supersededBy = None
          /\ mem[i].expired = memory[i].expired
      BY <3>1, <3>2 DEF Row
    <3> HIDE DEF mem
    <3> QED BY <1>1, <3>1, <3>2, <3>3 DEF Live, Visible
  <2>2. e \in DOMAIN edge /\ edge[e].client = c /\ DOMAIN edge \subseteq Nat
    BY <1>1 DEF Loaded, LiveEdges, TypeOK
  <2> HIDE DEF mem, c
  <2>3. Resolve(mem, c, i) = i /\ i \in Nat \ {0} /\ d \in Nat \ {0}
    BY <1>1, <2>1, HeadOfItself, ResolveIs DEF mem, c, None
  <2>4. \/ Resolve(mem, c, edge[e].src) = i /\ Resolve(mem, c, edge[e].dst) = d
        \/ Resolve(mem, c, edge[e].src) = d /\ Resolve(mem, c, edge[e].dst) = i
    BY <1>1, <2>3 DEF mem, c
  <2>5. r.rel = edge[e].rel /\ {r.src, r.dst} = {i, d}
    BY <2>2, <2>4 DEF Relation, StoredKey
  <2>6. e \in Speaking(mem, edge, c)
    BY <1>1, <2>3, <2>5 DEF Speaking, IsHidden, IsSelfEdge, c, None
  <2>7. r \in Relations(mem, edge, c)
    BY <2>2, <2>6, NothingUnsaid
  <2> QED BY <2>5, <2>7 DEF mem, c
<1>2. TypeOK => DetachMovesEdgesBack
  BY <1>1 DEF DetachMovesEdgesBack
<1> QED BY <1>2, TypeCorrect, PTL

-----------------------------------------------------------------------------
(* A merge moves edges.                                                    *)

\* The rows a save retires, and what becomes of a head.
Gone == {i \in DOMAIN memory : memory'[i].supersededBy = nextId}
Moved(i) == IF i \in Gone THEN nextId ELSE i

LEMMA SaveIs ==
  ASSUME TypeOK, ChainsOK, NEW w \in Scope, NEW S, NEW L, Save(w, S, L)
  PROVE  /\ nextId \in Nat \ {0} /\ DOMAIN memory \subseteq Nat \ {0} /\ nextId \notin DOMAIN memory
         /\ DOMAIN memory' = DOMAIN memory \cup {nextId} /\ memory'[nextId] = NewRow(w)
         /\ \A i \in Gone : memory[i].supersededBy = None /\ memory[i].client = w.client
         /\ \A i \in DOMAIN memory \ Gone : memory'[i] = memory[i]
         /\ \A i \in Gone : memory'[i].client = w.client
         /\ DOMAIN edge \subseteq DOMAIN edge' /\ \A e \in DOMAIN edge : edge'[e] = edge[e]
<1> DEFINE n == nextId
           mem == AfterInsert(w, n)
<1>1. n \in Nat \ {0} /\ DOMAIN memory \subseteq Nat \ {0} /\ n \notin DOMAIN memory
  BY DEF TypeOK, Id
<1>2. /\ DOMAIN mem = DOMAIN memory \cup {n} /\ mem[n] = NewRow(w)
      /\ \A i \in DOMAIN memory : mem[i] = memory[i]
  BY <1>1 DEF AfterInsert
<1>3. /\ DOMAIN memory' = DOMAIN mem
      /\ \A i \in DOMAIN mem :
           memory'[i] = IF i \in S /\ Retirable(mem, w, i, n)
                        THEN [mem[i] EXCEPT !.supersededBy = n] ELSE mem[i]
  BY DEF Save, AfterSave
<1>4. memory'[n] = NewRow(w)
  BY <1>2, <1>3 DEF Retirable
<1>5. ASSUME NEW i \in DOMAIN memory
      PROVE  \/ /\ i \in Gone /\ memory[i].supersededBy = None /\ memory[i].client = w.client
                /\ memory'[i].client = w.client
             \/ i \notin Gone /\ memory'[i] = memory[i]
  <2>1. memory[i] \in Row /\ memory[i].supersededBy # n
    BY <1>1 DEF TypeOK, ChainsOK, None
  <2>2. CASE i \in S /\ Retirable(mem, w, i, n)
    <3>1. memory'[i] = [memory[i] EXCEPT !.supersededBy = n]
      BY <1>2, <1>3, <2>2
    <3>2. memory'[i].supersededBy = n /\ memory'[i].client = memory[i].client
      BY <2>1, <3>1 DEF Row
    <3>3. memory[i].supersededBy = None /\ memory[i].client = w.client
      BY <1>2, <2>2 DEF Retirable, InScope
    <3> QED BY <3>2, <3>3 DEF Gone
  <2>3. CASE ~(i \in S /\ Retirable(mem, w, i, n))
    BY <1>2, <1>3, <2>1, <2>3 DEF Gone
  <2> QED BY <2>2, <2>3
<1>6. /\ DOMAIN edge \subseteq DOMAIN edge' /\ \A e \in DOMAIN edge : edge'[e] = edge[e]
  <2>1. PICK K : InsertEdges(w, K)
    BY DEF Save
  <2> DEFINE new == nextEdge..(nextEdge + Cardinality(Fresh(K)) - 1)
  <2>2. PICK key : edge' = [e \in DOMAIN edge \cup new |->
                              IF e \in new THEN NewEdge(w.client, key[e]) ELSE edge[e]]
    BY <2>1 DEF InsertEdges
  <2>3. \A e \in DOMAIN edge : e \notin new
    BY DEF TypeOK, Id
  <2> QED BY <2>2, <2>3
<1>7. Gone \subseteq DOMAIN memory
  BY DEF Gone
<1> QED BY <1>1, <1>2, <1>3, <1>4, <1>5, <1>6, <1>7

\* A chain that ends live resolves to what became of its end.
LEMMA SaveMovesHeads ==
  ASSUME TypeOK, ChainsOK, NEW w \in Scope, NEW S, NEW L, Save(w, S, L),
         NEW i \in DOMAIN memory, NEW c, memory[i].client = c,
         Resolve(memory, c, i) # None,
         ChainLast[i] \in Gone => ChainRows[i] < MaxChain
  PROVE  Resolve(memory', c, i) = Moved(Resolve(memory, c, i))
<1> DEFINE h == Resolve(memory, c, i)
           n == nextId
           last == MaxChain - 1
<1>1. /\ n \in Nat \ {0} /\ DOMAIN memory \subseteq Nat \ {0} /\ n \notin DOMAIN memory
      /\ DOMAIN memory' = DOMAIN memory \cup {n} /\ memory'[n] = NewRow(w)
      /\ \A j \in Gone : memory[j].supersededBy = None /\ memory[j].client = w.client
      /\ \A j \in DOMAIN memory \ Gone : memory'[j] = memory[j]
      /\ \A j \in Gone : memory'[j].client = w.client
  BY SaveIs
<1>2. MaxChain \in Nat \ {0} /\ last \in Nat /\ last \in 0..(MaxChain - 1)
  BY SchemaAssumption
<1>3. PICK cur : Walk(memory, c, i, cur) /\ ChainEnd(memory, c, i) = cur[last]
  BY Walks
<1>4. PICK new : Walk(memory', c, i, new) /\ ChainEnd(memory', c, i) = new[last]
  BY Walks
<1>5. /\ h = cur[last] /\ h \in DOMAIN memory /\ memory[h].client = c /\ Live(memory[h])
  BY <1>1, <1>3, ResolveIs
<1>6. \A k \in 0..(MaxChain - 1) :
        /\ cur[k] \in DOMAIN memory /\ memory[cur[k]].client = c
        /\ ChainLast[cur[k]] = ChainLast[i]
        /\ k + 1 >= ChainRows[i] => cur[k] = ChainLast[i]
  BY <1>3, WalkClimbs
<1>7. h = ChainLast[i]
  <2>1. ChainLast[h] = h
    BY <1>5, LastIs DEF Live
  <2> QED BY <1>2, <1>5, <1>6, <2>1
<1> HIDE DEF h, n
<1> DEFINE P(k) == new[k] = cur[k] \/ (h \in Gone /\ cur[k] = h /\ new[k] = n)
           G == {k \in Nat : k \in 0..(MaxChain - 1) => P(k)}
<1>8. 0 \in G
  BY <1>3, <1>4 DEF Walk
<1>9. ASSUME NEW k \in Nat, k \in G, k + 1 \in 0..(MaxChain - 1)
      PROVE  /\ P(k + 1)
             /\ h \in Gone /\ cur[k] = h => new[k + 1] = n
  <2>1. k \in 0..(MaxChain - 1) /\ k + 1 \in 1..(MaxChain - 1) /\ k + 1 - 1 = k
    BY <1>2, <1>9
  <2>2. /\ cur[k + 1] = NextInChain(memory, c, cur[k])
        /\ new[k + 1] = NextInChain(memory', c, new[k])
    BY <1>3, <1>4, <2>1 DEF Walk
  <2>3. cur[k] \in DOMAIN memory /\ memory[cur[k]].client = c /\ ChainLast[cur[k]] = h
    BY <1>6, <1>7, <2>1
  <2>4. CASE new[k] = n /\ cur[k] = h /\ h \in Gone
    <3>1. new[k + 1] = n
      BY <1>1, <2>2, <2>4 DEF NextInChain, NewRow, n
    <3>2. cur[k + 1] = h
      BY <1>1, <2>2, <2>4 DEF NextInChain
    <3> QED BY <2>4, <3>1, <3>2
  <2>5. CASE new[k] = cur[k] /\ cur[k] \in Gone
    <3>1. cur[k] = h
      BY <1>1, <2>3, <2>5, LastIs
    <3>2. memory'[cur[k]].supersededBy = n /\ memory'[cur[k]].client = c /\ n # None
      BY <1>1, <2>3, <2>5 DEF Gone, n, None
    <3>3. new[k + 1] = n /\ cur[k + 1] = h
      BY <1>1, <2>2, <2>3, <2>5, <3>1, <3>2 DEF NextInChain
    <3> QED BY <2>5, <3>1, <3>3
  <2>6. CASE new[k] = cur[k] /\ cur[k] \notin Gone
    <3>1. memory'[cur[k]] = memory[cur[k]] /\ cur[k] \in DOMAIN memory'
      BY <1>1, <2>3, <2>6
    <3>2. new[k + 1] = cur[k + 1]
      BY <2>2, <2>3, <2>6, <3>1 DEF NextInChain
    <3> QED BY <2>6, <3>2
  <2>7. P(k)
    BY <1>9, <2>1
  <2> QED BY <2>4, <2>5, <2>6, <2>7
<1>10. \A k \in 0..(MaxChain - 1) : P(k)
  <2>1. \A k \in Nat : k \in G => k + 1 \in G
    BY <1>9
  <2> HIDE DEF P
  <2>2. Nat \subseteq G
    <3> HIDE DEF G
    <3> QED BY <1>8, <2>1, Induction
  <2>3. \A k \in 0..(MaxChain - 1) : k \in Nat
    BY <1>2
  <2> QED BY <2>2, <2>3
<1>11. CASE h \notin Gone
  <2>1. ChainEnd(memory', c, i) = h
    BY <1>2, <1>4, <1>5, <1>10, <1>11
  <2>2. h \in DOMAIN memory' /\ memory'[h] = memory[h]
    BY <1>1, <1>5, <1>11 DEF n
  <2> QED BY <1>5, <1>11, <2>1, <2>2 DEF Resolve, ResolvesLive, Moved, h
<1>12. CASE h \in Gone
  <2>1. ChainRows[i] \in Nat \ {0} /\ ChainRows[i] < MaxChain
    BY <1>7, <1>12, ChainProper
  <2> DEFINE k == MaxChain - 2
  <2>2. k \in Nat /\ k \in 0..(MaxChain - 1) /\ k + 1 = last /\ k + 1 >= ChainRows[i]
    BY <1>2, <2>1
  <2>3. cur[k] = h
    BY <1>6, <1>7, <2>2
  <2>4. k \in G
    BY <1>10, <2>2
  <2>5. new[last] = n
    <3> HIDE DEF G, k
    <3>1. k + 1 \in 0..(MaxChain - 1)
      BY <1>2, <2>2
    <3> QED BY <1>9, <1>12, <2>2, <2>3, <2>4, <3>1
  <2>6. n \in DOMAIN memory' /\ memory'[n].client = c /\ Live(memory'[n])
    BY <1>1, <1>5, <1>12 DEF NewRow, Live, Visible, n, None
  <2> QED BY <1>4, <1>12, <2>5, <2>6 DEF Resolve, ResolvesLive, Moved, h, n
<1> QED BY <1>11, <1>12

LEMMA SaveMovesEdges ==
  ASSUME TypeOK, ChainsOK, EdgesWellFormed, NEW w \in Scope, NEW S, NEW L, Save(w, S, L),
         TypeOK', NEW c, NEW e \in Speaking(memory, edge, c),
         \A i \in {edge[e].src, edge[e].dst} : ChainLast[i] \in Gone => ChainRows[i] < MaxChain,
         Moved(Relation(memory, edge[e]).src) # Moved(Relation(memory, edge[e]).dst)
  PROVE  StoredKey(Moved(Relation(memory, edge[e]).src), edge[e].rel,
                   Moved(Relation(memory, edge[e]).dst)) \in Relations(memory', edge', c)
<1> DEFINE s == Resolve(memory, c, edge[e].src)
           d == Resolve(memory, c, edge[e].dst)
           r == edge[e].rel
<1>1. /\ e \in DOMAIN edge /\ ~edge[e].forgotten /\ edge[e].client = c
      /\ ~IsHidden(memory, edge[e])
  BY DEF Speaking, Loaded, LiveEdges
<1>2. /\ edge[e].src \in DOMAIN memory /\ memory[edge[e].src].client = c
      /\ edge[e].dst \in DOMAIN memory /\ memory[edge[e].dst].client = c
  BY <1>1 DEF EdgesWellFormed, Promise!EdgesWellFormed, Promise!RowsOf
<1>3. /\ DOMAIN memory \subseteq Nat \ {0} /\ nextId \in Nat \ {0}
      /\ edge'[e] = edge[e] /\ e \in DOMAIN edge'
  BY <1>1, SaveIs
<1>4. s # None /\ d # None
  BY <1>1 DEF IsHidden, Relation, StoredKey
<1>5. s \in Nat /\ d \in Nat
  BY <1>3, ResolveIs
<1>6. Resolve(memory', c, edge[e].src) = Moved(s) /\ Resolve(memory', c, edge[e].dst) = Moved(d)
  BY <1>2, <1>4, SaveMovesHeads
<1>7. Relation(memory, edge[e]) = StoredKey(s, r, d)
      /\ Relation(memory', edge'[e]) = StoredKey(Moved(s), r, Moved(d))
  BY <1>1, <1>3, <1>6 DEF Relation
<1> HIDE DEF s, d, r
<1>8. Moved(s) \in Nat \ {0} /\ Moved(d) \in Nat \ {0}
  BY <1>3, <1>4, <1>5 DEF Moved, None
<1>9. StoredKey(Moved(StoredKey(s, r, d).src), r, Moved(StoredKey(s, r, d).dst))
        = StoredKey(Moved(s), r, Moved(d))
  <2>1. CASE r \in SymmetricRel /\ s > d
    <3>1. StoredKey(s, r, d).src = d /\ StoredKey(s, r, d).dst = s
      BY <2>1 DEF StoredKey
    <3> QED BY <1>8, <2>1, <3>1, KeyTurns
  <2>2. CASE ~(r \in SymmetricRel /\ s > d)
    BY <2>2 DEF StoredKey
  <2> QED BY <2>1, <2>2
<1>10. Moved(s) # Moved(d)
  BY <1>7 DEF StoredKey
<1>11. e \in Speaking(memory', edge', c)
  <2>1. LET k == Relation(memory', edge'[e]) IN {k.src, k.dst} = {Moved(s), Moved(d)}
    BY <1>7 DEF StoredKey
  <2>2. ~IsHidden(memory', edge'[e]) /\ ~IsSelfEdge(memory', edge'[e])
    BY <1>8, <1>10, <2>1 DEF IsHidden, IsSelfEdge, None
  <2> QED BY <1>1, <1>3, <2>2 DEF Speaking, Loaded, LiveEdges
<1>12. Relation(memory', edge'[e]) \in Relations(memory', edge', c)
  <2>1. DOMAIN edge' \subseteq Nat
    BY DEF TypeOK
  <2> QED BY <1>11, <2>1, NothingUnsaid
<1> QED BY <1>7, <1>9, <1>12 DEF r

\* A save that retires memories moves each of their edges, and those of the
\* memories they replaced, onto the new memory (save, Graph::resolve).
THEOREM AlwaysMoved == Spec => MergeMovesEdges
<1> DEFINE Moves ==
      nextId' = nextId + 1 /\ nextId \in DOMAIN memory' =>
        LET gone == {i \in DOMAIN memory : memory'[i].supersededBy = nextId}
            new(i) == IF i \in gone THEN nextId ELSE i
            fits(i) == ChainLast[i] \in gone => ChainRows[i] < MaxChain
        IN \A c \in Client : \A e \in Speaking(memory, edge, c) :
             LET r == Relation(memory, edge[e])
             IN new(r.src) # new(r.dst) /\ fits(edge[e].src) /\ fits(edge[e].dst) =>
                  StoredKey(new(r.src), r.rel, new(r.dst)) \in Relations(memory', edge', c)
<1>1. ASSUME TypeOK, ChainsOK, EdgesWellFormed, TypeOK', [Next]_vars,
             nextId' = nextId + 1, nextId \in DOMAIN memory'
      PROVE  \E w \in Scope, S \in Ask, L \in Request : Save(w, S, L)
  <2>1. nextId \in Nat /\ nextId \notin DOMAIN memory /\ nextId + 1 # nextId
    BY <1>1 DEF TypeOK, Id
  <2>2. ~UNCHANGED vars
    BY <1>1, <2>1 DEF vars
  <2>3. ASSUME NEW w \in Scope, Call(w)
        PROVE  \E S \in Ask, L \in Request : Save(w, S, L)
    BY <1>1, <2>1, <2>3 DEF Call, SaveFails, Link, Forget, Expire, Restore, ForgetEdge
  <2> QED BY <1>1, <2>2, <2>3 DEF Next
<1>2. ASSUME TypeOK, ChainsOK, EdgesWellFormed, TypeOK', [Next]_vars
      PROVE  Moves
  <2> SUFFICES ASSUME nextId' = nextId + 1, nextId \in DOMAIN memory',
                      NEW c \in Client, NEW e \in Speaking(memory, edge, c),
                      Moved(Relation(memory, edge[e]).src) # Moved(Relation(memory, edge[e]).dst),
                      \A i \in {edge[e].src, edge[e].dst} :
                        ChainLast[i] \in Gone => ChainRows[i] < MaxChain
               PROVE  StoredKey(Moved(Relation(memory, edge[e]).src), Relation(memory, edge[e]).rel,
                                Moved(Relation(memory, edge[e]).dst)) \in Relations(memory', edge', c)
    BY DEF Gone, Moved
  <2>1. PICK w \in Scope, S \in Ask, L \in Request : Save(w, S, L)
    BY <1>1, <1>2
  <2>2. Relation(memory, edge[e]).rel = edge[e].rel
    BY DEF Relation, StoredKey
  <2> QED BY <1>2, <2>1, <2>2, SaveMovesEdges
<1>3. TypeOK /\ TypeOK' /\ ChainsOK /\ EdgesWellFormed /\ [Next]_vars => [Moves]_vars
  BY <1>2
<1> HIDE DEF Moves
<1>4. Spec => [][Moves]_vars
  BY <1>3, TypeCorrect, SafeChains, ScopedChains, SafeEdges, ChainsAreOK, PTL DEF Spec
<1> QED BY <1>4 DEF MergeMovesEdges, Moves
=============================================================================
