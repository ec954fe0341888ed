--------------------------- MODULE StorePromise ----------------------------
(***************************************************************************)
(* What the store promises, whatever the interleaving of the calls: the    *)
(* transactions that may commit, as steps of the committed tables.         *)
(*                                                                         *)
(* It says less than the calls intend.  A call resolves an edge's ends     *)
(* before it commits, so an edge may be committed to a memory that was     *)
(* retired or forgotten meanwhile; what holds of every edge is what the    *)
(* read path relies on.  MemoryStore and StoreTx both implement it.        *)
(***************************************************************************)
EXTENDS Schema

VARIABLES
  memory,  \* the committed rows of memory
  edge,    \* the committed rows of memory_edge
  age      \* when each row of memory was committed (larger is later)

vars == <<memory, edge, age>>

Init ==
  /\ memory = EmptyTable
  /\ edge = EmptyTable
  /\ age = EmptyTable

-----------------------------------------------------------------------------
(* Edges that scope w may commit next to the rows mem.                     *)

Proper(mem, w, d) ==
  /\ d.client = w.client /\ ~d.forgotten
  /\ {d.src, d.dst} \subseteq RowsOf(mem, w.client)
  /\ d.src # d.dst
  /\ d.rel \in SymmetricRel => d.src < d.dst
  /\ TouchesNs(mem, d, w)

\* Edges are added, proper ones, and no two live edges say the same.
AddEdges(mem, w) ==
  /\ DOMAIN edge \subseteq DOMAIN edge' /\ DOMAIN edge' \subseteq Id
  /\ edge' = [e \in DOMAIN edge' |-> IF e \in DOMAIN edge THEN edge[e] ELSE edge'[e]]
  /\ \A e \in DOMAIN edge' \ DOMAIN edge :
       edge'[e] \in Edge /\ Proper(mem, w, edge'[e])
  /\ \A e \in DOMAIN edge' \ DOMAIN edge, f \in LiveEdges(edge') :
       KeyOf(edge'[e]) = KeyOf(edge'[f]) => e = f

\* A save: one new memory n, the rows R retired by it, and its edges, together.
Save(w, n, R) ==
  /\ n \in Id \ DOMAIN memory
  /\ \A i \in R : Retirable(memory, w, i, n)
  /\ memory' = [i \in DOMAIN memory \cup {n} |->
                  IF i = n THEN NewRow(w)
                  ELSE IF i \in R THEN [memory[i] EXCEPT !.supersededBy = n]
                  ELSE memory[i]]
  /\ age' = [i \in DOMAIN memory' |-> IF i = n THEN age'[n] ELSE age[i]]
  /\ age'[n] \in Id /\ \A i \in DOMAIN memory : age[i] < age'[n]
  /\ AddEdges(memory', w)

Link(w) == AddEdges(memory, w) /\ UNCHANGED <<memory, age>>

\* Forget, restore with or without detaching, and expiry: the marks of one row.
Mark(w, i) ==
  /\ InScope(memory[i], w)
  /\ \E f, x \in BOOLEAN, s \in {memory[i].supersededBy, None} :
       memory' = [memory EXCEPT ![i].forgotten = f, ![i].expired = x,
                                ![i].supersededBy = s]
  /\ UNCHANGED <<edge, age>>

ForgetEdge(w, e) ==
  /\ edge[e].client = w.client
  /\ TouchesNs(memory, edge[e], w)
  /\ edge' = [edge EXCEPT ![e].forgotten = TRUE]
  /\ UNCHANGED <<memory, age>>

Next ==
  \E w \in Scope :
    \/ \E n \in DOMAIN memory', R \in SUBSET DOMAIN memory : Save(w, n, R)
    \/ Link(w)
    \/ \E i \in DOMAIN memory : Mark(w, i)
    \/ \E e \in DOMAIN edge : ForgetEdge(w, e)

Spec == Init /\ [][Next]_vars

-----------------------------------------------------------------------------
(* What the readers of the tables rely on.                                 *)

\* The tables hold rows and edges, and every memory has an age.
TypeOK ==
  /\ memory \in [DOMAIN memory -> Row] /\ DOMAIN memory \subseteq Id
  /\ edge \in [DOMAIN edge -> Edge] /\ DOMAIN edge \subseteq Id
  /\ age \in [DOMAIN memory -> Id]

\* "Chains are acyclic by construction (a save only retires rows older than
\* itself)": whatever ids the saves were given and whatever detaching came
\* between, a superseded row points to a row committed after it (graph.rs,
\* MAX_CHAIN).
ChainsClimb ==
  \A i \in DOMAIN memory :
    LET j == memory[i].supersededBy IN j # None => j \in DOMAIN memory /\ age[i] < age[j]

\* A chain never leaves its client or its project: no save retires a memory of
\* another client or namespace (db.rs, save).
ChainsStayHome ==
  \A i \in DOMAIN memory :
    LET j == memory[i].supersededBy IN
      j \in DOMAIN memory => InScope(memory[i], memory[j])

\* Every stored edge, forgotten or not, joins two different rows of its own
\* client, and a symmetric one is stored smaller id first (the foreign keys and
\* the CHECK of 003_edges.sql, and Rel::stored_order).
EdgesWellFormed ==
  \A e \in DOMAIN edge :
    /\ {edge[e].src, edge[e].dst} \subseteq RowsOf(memory, edge[e].client)
    /\ edge[e].src # edge[e].dst
    /\ edge[e].rel \in SymmetricRel => edge[e].src < edge[e].dst

\* No two live edges state the same relation of the same two stored ids, in
\* either direction when the relation has none (memory_edge_unique_live).
OneLiveEdgePerFact ==
  \A e, f \in LiveEdges(edge) :
    /\ edge[e].rel = edge[f].rel
    /\ \/ edge[e].src = edge[f].src /\ edge[e].dst = edge[f].dst
       \/ /\ edge[e].rel \in SymmetricRel
          /\ edge[e].src = edge[f].dst /\ edge[e].dst = edge[f].src
    => e = f

\* History is kept: a row or an edge once written stays where it is; a
\* supersede, once recorded, is only ever cleared, never pointed at another
\* memory; an edge is never rewritten, nor comes back once forgotten.
KeepsHistory ==
  /\ \A i \in DOMAIN memory :
       /\ i \in DOMAIN memory'
       /\ InScope(memory'[i], memory[i])
       /\ memory[i].supersededBy # None =>
            memory'[i].supersededBy \in {memory[i].supersededBy, None}
  /\ \A e \in DOMAIN edge :
       /\ e \in DOMAIN edge'
       /\ edge'[e] \in {edge[e], [edge[e] EXCEPT !.forgotten = TRUE]}

HistoryKept == [][KeepsHistory]_vars
=============================================================================
