------------------------- MODULE StorePromiseProofs -------------------------
(***************************************************************************)
(* What StorePromise says of its tables holds in every behaviour, for any  *)
(* clients, namespaces and relation types.                                 *)
(***************************************************************************)
EXTENDS StorePromise, TLAPS

\* The tables are empty at first, and hold rows and edges after every step.
THEOREM TypeCorrect == Spec => []TypeOK
<1>1. Init => TypeOK
  BY DEF Init, TypeOK, EmptyTable, Row, Edge, Id
<1>2. TypeOK /\ [Next]_vars => TypeOK'
  <2> SUFFICES ASSUME TypeOK, [Next]_vars PROVE TypeOK'
    OBVIOUS
  <2>1. CASE UNCHANGED vars
    BY <2>1 DEF vars, TypeOK
  <2>2. ASSUME NEW w \in Scope, NEW n \in DOMAIN memory', NEW R \in SUBSET DOMAIN memory,
               Save(w, n, R)
        PROVE TypeOK'
    <3>1. NewRow(w) \in Row
      BY DEF NewRow, Row, Scope, None
    <3>2. memory' \in [DOMAIN memory' -> Row] /\ DOMAIN memory' \subseteq Id
      BY <2>2, <3>1 DEF Save, TypeOK, Row, Id
    <3>3. edge' \in [DOMAIN edge' -> Edge] /\ DOMAIN edge' \subseteq Id
      BY <2>2 DEF Save, AddEdges, TypeOK
    <3>4. age' \in [DOMAIN memory' -> Id]
      BY <2>2 DEF Save, TypeOK
    <3> QED BY <3>2, <3>3, <3>4 DEF TypeOK
  <2>3. ASSUME NEW w \in Scope, Link(w) PROVE TypeOK'
    BY <2>3 DEF Link, AddEdges, TypeOK
  <2>4. ASSUME NEW w \in Scope, NEW i \in DOMAIN memory, Mark(w, i) PROVE TypeOK'
    BY <2>4 DEF Mark, TypeOK, Row, None
  <2>5. ASSUME NEW w \in Scope, NEW e \in DOMAIN edge, ForgetEdge(w, e) PROVE TypeOK'
    BY <2>5 DEF ForgetEdge, TypeOK, Edge
  <2> QED BY <2>1, <2>2, <2>3, <2>4, <2>5 DEF Next
<1> QED BY <1>1, <1>2, PTL DEF Spec

-----------------------------------------------------------------------------
(* Chains.                                                                 *)

\* A chain climbs to memories of its own project committed later: a save
\* retires rows that are there already, and is given an age above theirs.
LEMMA ChainStep ==
  ASSUME TypeOK, TypeOK', ChainsClimb, ChainsStayHome, [Next]_vars
  PROVE  ChainsClimb' /\ ChainsStayHome'
<1>1. CASE UNCHANGED vars
  BY <1>1 DEF vars, ChainsClimb, ChainsStayHome
<1>2. ASSUME NEW w \in Scope, NEW n \in DOMAIN memory', NEW R \in SUBSET DOMAIN memory,
             Save(w, n, R)
      PROVE ChainsClimb' /\ ChainsStayHome'
  <2> SUFFICES ASSUME NEW i \in DOMAIN memory'
               PROVE  LET j == memory'[i].supersededBy
                      IN /\ j # None => j \in DOMAIN memory' /\ age'[i] < age'[j]
                         /\ j \in DOMAIN memory' => InScope(memory'[i], memory'[j])
    BY DEF ChainsClimb, ChainsStayHome
  <2>1. DOMAIN memory' = DOMAIN memory \cup {n} /\ n \in Id \ DOMAIN memory /\ None \notin DOMAIN memory'
    BY <1>2 DEF Save, TypeOK, Id, None
  <2>2. memory'[n] = NewRow(w) /\ age'[n] \in Id
    BY <1>2, <2>1 DEF Save
  <2>3. \A k \in DOMAIN memory : age'[k] = age[k] /\ age[k] < age'[n] /\ age[k] \in Id
    BY <1>2, <2>1 DEF Save, TypeOK
  <2>4. CASE i = n
    BY <2>1, <2>2, <2>4 DEF NewRow, None
  <2>5. CASE i \in R
    BY <1>2, <2>1, <2>2, <2>3, <2>5 DEF Save, Retirable, InScope, NewRow, TypeOK, Row
  <2>6. CASE i \notin R /\ i # n
    <3>1. i \in DOMAIN memory /\ memory'[i] = memory[i]
      BY <1>2, <2>1, <2>6 DEF Save
    <3> DEFINE j == memory[i].supersededBy
    <3>2. j # None => j \in DOMAIN memory /\ age[i] < age[j] /\ InScope(memory[i], memory[j])
      BY <3>1 DEF ChainsClimb, ChainsStayHome
    <3>3. ASSUME j \in DOMAIN memory PROVE InScope(memory[i], memory'[j])
      BY <1>2, <2>1, <3>2, <3>3 DEF Save, InScope, TypeOK, Row
    <3>4. j \in DOMAIN memory' => j # None
      BY <2>1
    <3> QED BY <2>1, <2>3, <3>1, <3>2, <3>3, <3>4
  <2> QED BY <2>1, <2>4, <2>5, <2>6
<1>3. ASSUME NEW w \in Scope, Link(w) PROVE ChainsClimb' /\ ChainsStayHome'
  BY <1>3 DEF Link, ChainsClimb, ChainsStayHome
<1>4. ASSUME NEW w \in Scope, NEW i \in DOMAIN memory, Mark(w, i)
      PROVE ChainsClimb' /\ ChainsStayHome'
  <2>1. DOMAIN memory' = DOMAIN memory /\ age' = age /\ None \notin DOMAIN memory
    BY <1>4 DEF Mark, TypeOK, Id, None
  <2>2. \A k \in DOMAIN memory : /\ memory'[k].supersededBy \in {memory[k].supersededBy, None}
                                 /\ memory'[k].client = memory[k].client
                                 /\ memory'[k].ns = memory[k].ns
    BY <1>4 DEF Mark, TypeOK, Row
  <2> QED BY <2>1, <2>2 DEF ChainsClimb, ChainsStayHome, InScope
<1>5. ASSUME NEW w \in Scope, NEW e \in DOMAIN edge, ForgetEdge(w, e)
      PROVE ChainsClimb' /\ ChainsStayHome'
  BY <1>5 DEF ForgetEdge, ChainsClimb, ChainsStayHome
<1> QED BY <1>1, <1>2, <1>3, <1>4, <1>5 DEF Next

\* Superseded rows point to younger rows of the same project, always.
THEOREM Chains == Spec => [](ChainsClimb /\ ChainsStayHome)
<1>1. Init => ChainsClimb /\ ChainsStayHome
  BY DEF Init, EmptyTable, ChainsClimb, ChainsStayHome
<1>2. TypeOK /\ TypeOK' /\ ChainsClimb /\ ChainsStayHome /\ [Next]_vars
        => ChainsClimb' /\ ChainsStayHome'
  BY ChainStep
<1> QED BY <1>1, <1>2, TypeCorrect, PTL DEF Spec

-----------------------------------------------------------------------------
(* Edges.                                                                  *)

\* No step takes a row away, or moves it to another client or project.
LEMMA RowsStay ==
  ASSUME TypeOK, [Next]_vars
  PROVE  /\ \A i \in DOMAIN memory : i \in DOMAIN memory' /\ InScope(memory'[i], memory[i])
         /\ \A i \in DOMAIN memory : memory[i].supersededBy # None =>
              memory'[i].supersededBy \in {memory[i].supersededBy, None}
<1>1. CASE UNCHANGED vars
  BY <1>1 DEF vars, InScope
<1>2. ASSUME NEW w \in Scope, NEW n \in DOMAIN memory', NEW R \in SUBSET DOMAIN memory,
             Save(w, n, R), NEW i \in DOMAIN memory
      PROVE /\ i \in DOMAIN memory' /\ InScope(memory'[i], memory[i])
            /\ memory[i].supersededBy # None => memory'[i].supersededBy = memory[i].supersededBy
  BY <1>2 DEF Save, Retirable, InScope, TypeOK, Row
<1>3. ASSUME NEW w \in Scope, Link(w) PROVE memory' = memory
  BY <1>3 DEF Link
<1>4. ASSUME NEW w \in Scope, NEW k \in DOMAIN memory, Mark(w, k), NEW i \in DOMAIN memory
      PROVE /\ i \in DOMAIN memory' /\ InScope(memory'[i], memory[i])
            /\ memory'[i].supersededBy \in {memory[i].supersededBy, None}
  BY <1>4 DEF Mark, InScope, TypeOK, Row
<1>5. ASSUME NEW w \in Scope, NEW e \in DOMAIN edge, ForgetEdge(w, e) PROVE memory' = memory
  BY <1>5 DEF ForgetEdge
<1> QED BY <1>1, <1>2, <1>3, <1>4, <1>5 DEF Next, InScope

\* An edge is only ever added, a proper one that repeats no live edge, or
\* forgotten.
LEMMA EdgeStep ==
  ASSUME TypeOK, [Next]_vars
  PROVE  /\ \A e \in DOMAIN edge :
              e \in DOMAIN edge' /\ edge'[e] \in {edge[e], [edge[e] EXCEPT !.forgotten = TRUE]}
         /\ \A e \in DOMAIN edge' \ DOMAIN edge : \E w \in Scope : Proper(memory', w, edge'[e])
         /\ \A e \in DOMAIN edge' \ DOMAIN edge, f \in LiveEdges(edge') :
              KeyOf(edge'[e]) = KeyOf(edge'[f]) => e = f
<1>1. CASE UNCHANGED vars
  BY <1>1 DEF vars
<1>2. ASSUME NEW w \in Scope, NEW n \in DOMAIN memory', NEW R \in SUBSET DOMAIN memory,
             Save(w, n, R)
      PROVE AddEdges(memory', w)
  BY <1>2 DEF Save
<1>3. ASSUME NEW w \in Scope, Link(w) PROVE AddEdges(memory', w)
  BY <1>3 DEF Link
<1>4. ASSUME NEW w \in Scope, NEW i \in DOMAIN memory, Mark(w, i) PROVE edge' = edge
  BY <1>4 DEF Mark
<1>5. ASSUME NEW w \in Scope, NEW k \in DOMAIN edge, ForgetEdge(w, k)
      PROVE edge' = [edge EXCEPT ![k].forgotten = TRUE]
  BY <1>5 DEF ForgetEdge
<1>6. ASSUME NEW w \in Scope, AddEdges(memory', w)
      PROVE  /\ \A e \in DOMAIN edge : e \in DOMAIN edge' /\ edge'[e] = edge[e]
             /\ \A e \in DOMAIN edge' \ DOMAIN edge : Proper(memory', w, edge'[e])
             /\ \A e \in DOMAIN edge' \ DOMAIN edge, f \in LiveEdges(edge') :
                  KeyOf(edge'[e]) = KeyOf(edge'[f]) => e = f
  BY <1>6 DEF AddEdges
<1>7. ASSUME NEW k \in DOMAIN edge, edge' = [edge EXCEPT ![k].forgotten = TRUE]
      PROVE  /\ DOMAIN edge' = DOMAIN edge
             /\ \A e \in DOMAIN edge : edge'[e] \in {edge[e], [edge[e] EXCEPT !.forgotten = TRUE]}
  BY <1>7 DEF TypeOK
<1>8. (\E w \in Scope : AddEdges(memory', w))
        \/ edge' = edge
        \/ \E k \in DOMAIN edge : edge' = [edge EXCEPT ![k].forgotten = TRUE]
  BY <1>1, <1>2, <1>3, <1>4, <1>5 DEF Next, vars
<1> QED BY <1>6, <1>7, <1>8

\* Edges stay well formed: the ids they join stay rows of their client.
THEOREM EdgesCorrect == Spec => []EdgesWellFormed
<1>1. Init => EdgesWellFormed
  BY DEF Init, EmptyTable, EdgesWellFormed
<1>2. ASSUME TypeOK, TypeOK', EdgesWellFormed, [Next]_vars PROVE EdgesWellFormed'
  <2> SUFFICES ASSUME NEW e \in DOMAIN edge'
               PROVE  /\ {edge'[e].src, edge'[e].dst} \subseteq RowsOf(memory', edge'[e].client)
                      /\ edge'[e].src # edge'[e].dst
                      /\ edge'[e].rel \in SymmetricRel => edge'[e].src < edge'[e].dst
    BY DEF EdgesWellFormed
  <2>1. CASE e \in DOMAIN edge
    <3>1. /\ {edge[e].src, edge[e].dst} \subseteq RowsOf(memory, edge[e].client)
          /\ edge[e].src # edge[e].dst
          /\ edge[e].rel \in SymmetricRel => edge[e].src < edge[e].dst
      BY <1>2, <2>1 DEF EdgesWellFormed
    <3>2. /\ edge'[e].src = edge[e].src /\ edge'[e].dst = edge[e].dst
          /\ edge'[e].rel = edge[e].rel /\ edge'[e].client = edge[e].client
      BY <1>2, <2>1, EdgeStep DEF TypeOK, Edge
    <3>3. RowsOf(memory, edge[e].client) \subseteq RowsOf(memory', edge[e].client)
      BY <1>2, RowsStay DEF RowsOf, InScope
    <3> QED BY <3>1, <3>2, <3>3
  <2>2. CASE e \notin DOMAIN edge
    BY <1>2, <2>2, EdgeStep DEF Proper
  <2> QED BY <2>1, <2>2
<1> QED BY <1>1, <1>2, TypeCorrect, PTL DEF Spec

\* No relation of the same two ids is stored twice among the live edges: a key
\* determines the relation because symmetric ends are stored in order.
THEOREM EdgesUnique == Spec => []OneLiveEdgePerFact
<1> DEFINE Unique == \A e, f \in LiveEdges(edge) : KeyOf(edge[e]) = KeyOf(edge[f]) => e = f
<1>1. Init => Unique
  BY DEF Init, EmptyTable, LiveEdges
<1>2. ASSUME TypeOK, TypeOK', Unique, [Next]_vars PROVE Unique'
  <2> SUFFICES ASSUME NEW e \in LiveEdges(edge'), NEW f \in LiveEdges(edge'),
                      KeyOf(edge'[e]) = KeyOf(edge'[f])
               PROVE  e = f
    OBVIOUS
  <2>1. e \in DOMAIN edge' /\ f \in DOMAIN edge'
    BY DEF LiveEdges
  <2>2. CASE e \notin DOMAIN edge \/ f \notin DOMAIN edge
    BY <1>2, <2>1, <2>2, EdgeStep
  <2>3. CASE e \in DOMAIN edge /\ f \in DOMAIN edge
    <3>1. \A k \in LiveEdges(edge') \cap DOMAIN edge : k \in LiveEdges(edge) /\ edge'[k] = edge[k]
      BY <1>2, EdgeStep DEF LiveEdges, TypeOK, Edge
    <3> QED BY <1>2, <2>3, <3>1
  <2> QED BY <2>2, <2>3
<1>3. EdgesWellFormed /\ TypeOK /\ Unique => OneLiveEdgePerFact
  <2> SUFFICES ASSUME EdgesWellFormed, TypeOK, Unique,
                      NEW e \in LiveEdges(edge), NEW f \in LiveEdges(edge),
                      edge[e].rel = edge[f].rel,
                      \/ edge[e].src = edge[f].src /\ edge[e].dst = edge[f].dst
                      \/ /\ edge[e].rel \in SymmetricRel
                         /\ edge[e].src = edge[f].dst /\ edge[e].dst = edge[f].src
               PROVE  e = f
    BY DEF OneLiveEdgePerFact
  <2>1. edge[e] \in Edge /\ edge[f] \in Edge
    BY DEF LiveEdges, TypeOK
  <2>2. edge[e].src = edge[f].src /\ edge[e].dst = edge[f].dst
    <3>1. ASSUME edge[e].rel \in SymmetricRel
          PROVE  edge[e].src < edge[e].dst /\ edge[f].src < edge[f].dst
      BY <3>1 DEF EdgesWellFormed, LiveEdges
    <3> QED BY <2>1, <3>1 DEF Edge, Id
  <2>3. KeyOf(edge[e]) = KeyOf(edge[f])
    BY <2>2 DEF KeyOf
  <2> QED BY <2>3
<1> QED BY <1>1, <1>2, <1>3, TypeCorrect, EdgesCorrect, PTL DEF Spec

-----------------------------------------------------------------------------

\* Nothing is lost: rows and edges stay, supersedes and edges are not rewritten.
THEOREM History == Spec => HistoryKept
<1>1. TypeOK /\ [Next]_vars => KeepsHistory
  BY RowsStay, EdgeStep DEF KeepsHistory
<1> QED BY <1>1, TypeCorrect, PTL DEF Spec, HistoryKept
=============================================================================
