---------------------------- MODULE MemoryGraph ----------------------------
(***************************************************************************)
(* The graph that readers see (graph.rs): Graph::build over the rows and   *)
(* the live edges of one client, as operators on the two tables, and what  *)
(* the calls of MemoryStore may do to it.  Edges are never rewritten when  *)
(* a memory is superseded; their ends are resolved each time the graph is  *)
(* built.                                                                  *)
(***************************************************************************)
EXTENDS MemoryStore

\* The edges load_graph reads.
Loaded(edges, c) == {e \in LiveEdges(edges) : edges[e].client = c}

\* Graph::resolve.
Resolve(mem, c, i) == IF ResolvesLive(mem, c, i) THEN ChainEnd(mem, c, i) ELSE None

\* An edge as it reads once its ends are resolved.
Relation(mem, e) ==
  StoredKey(Resolve(mem, e.client, e.src), e.rel, Resolve(mem, e.client, e.dst))

\* Dropped::Hidden and Dropped::SelfEdge.
IsHidden(mem, e) == None \in {Relation(mem, e).src, Relation(mem, e).dst}
IsSelfEdge(mem, e) == ~IsHidden(mem, e) /\ Relation(mem, e).src = Relation(mem, e).dst

\* Edges that say something, before duplicates are dropped.
Speaking(mem, edges, c) ==
  {e \in Loaded(edges, c) : ~IsHidden(mem, edges[e]) /\ ~IsSelfEdge(mem, edges[e])}

\* Variant: a symmetric edge is not normalised, so its two directions differ.
SameAsGiven(mem, d, e) ==
  /\ d.rel = e.rel
  /\ Resolve(mem, d.client, d.src) = Resolve(mem, e.client, e.src)
  /\ Resolve(mem, d.client, d.dst) = Resolve(mem, e.client, e.dst)

\* Two edges have one key in the map of what was seen.
SameFact(mem, d, e) == Relation(mem, d) = Relation(mem, e)

\* Dropped::Duplicate: an older edge says the same.
IsDuplicate(mem, edges, e) ==
  \E d \in Speaking(mem, edges, edges[e].client) : d < e /\ SameFact(mem, edges[d], edges[e])

\* The edges Graph::build puts into its adjacency lists.
Shown(mem, edges, c) == {e \in Speaking(mem, edges, c) : ~IsDuplicate(mem, edges, e)}

\* What the graph says.
Relations(mem, edges, c) == {Relation(mem, edges[e]) : e \in Shown(mem, edges, c)}

-----------------------------------------------------------------------------
(* Correctness.  The properties speak of each client's graph.              *)

\* A relation is listed once, whichever way round its edges were written: no
\* memory sees the same neighbour twice by one relation.
EachRelationOnce ==
  \A c \in Client : \A d, e \in Shown(memory, edge, c) :
    LET h(i) == Resolve(memory, c, i)
    IN /\ edge[d].rel = edge[e].rel
       /\ \/ h(edge[d].src) = h(edge[e].src) /\ h(edge[d].dst) = h(edge[e].dst)
          \/ /\ edge[d].rel \in SymmetricRel
             /\ h(edge[d].src) = h(edge[e].dst) /\ h(edge[d].dst) = h(edge[e].src)
       => d = e

\* Reference: the last row of the chain of each row, and how many rows it has.
ChainLast == LET last[i \in DOMAIN memory] ==
                   IF memory[i].supersededBy = None THEN i ELSE last[memory[i].supersededBy]
             IN last
ChainRows == LET rows[i \in DOMAIN memory] ==
                   IF memory[i].supersededBy = None THEN 1 ELSE 1 + rows[memory[i].supersededBy]
             IN rows

\* "A merge moves every edge of its originals onto the merged memory": after a
\* save that retires rows, each relation reads as before with the new memory in
\* their place, unless it joined two of them, or the new memory is one row more
\* than the chain of an end may have (graph.rs, module comment and MAX_CHAIN).
MergeMovesEdges ==
  [][nextId' = nextId + 1 /\ nextId \in DOMAIN memory' =>
       LET gone == {i \in DOMAIN memory : memory'[i].supersededBy = nextId}
           new(i) == IF i \in gone THEN nextId ELSE i
           fits(i) == ChainLast[i] \in gone => ChainRows[i] < MaxChain
       IN \A c \in Client : \A e \in Speaking(memory, edge, c) :
            LET r == Relation(memory, edge[e])
            IN new(r.src) # new(r.dst) /\ fits(edge[e].src) /\ fits(edge[e].dst) =>
                 StoredKey(new(r.src), r.rel, new(r.dst)) \in Relations(memory', edge', c)]_vars

\* "... and --restore --detach moves them back": a memory detached from what
\* replaced it has again every live edge that was written on it and whose other
\* end is live and elsewhere.
DetachMovesEdgesBack ==
  \A i \in DOMAIN memory : ~memory[i].expired =>
    LET c == memory[i].client
        mem == Detached(i)
    IN \A e \in Loaded(edge, c) :
         LET other == IF edge[e].src = i THEN edge[e].dst ELSE edge[e].src
             d == Resolve(mem, c, other)
         IN i \in {edge[e].src, edge[e].dst} /\ d \notin {None, i} =>
              \E r \in Relations(mem, edge, c) : r.rel = edge[e].rel /\ {r.src, r.dst} = {i, d}

\* A chain that ends live is followed to that end as long as it has no more
\* rows than the limit, the limit included; one row more, and the edges of all
\* its early rows are lost (graph.rs, MAX_CHAIN and resolve).
ChainsUpToTheLimitResolve ==
  \A i \in DOMAIN memory :
    Live(memory[ChainLast[i]]) /\ ChainRows[i] <= MaxChain =>
      Resolve(memory, memory[i].client, i) = ChainLast[i]

-----------------------------------------------------------------------------
(* What the code says of its graph and does not hold.                      *)

\* "Same as edge={of} after a merge: safe to forget": no relation would be lost
\* by it, now or when a restore detaches a memory (edges.rs, housekeeping; the
\* README says the lines tell if an edge can come back).
DuplicatesAreSafeToForget ==
  \A e \in LiveEdges(edge) :
    LET c == edge[e].client
        without == [edge EXCEPT ![e].forgotten = TRUE]
    IN e \in Speaking(memory, edge, c) /\ IsDuplicate(memory, edge, e) =>
         \A i \in DOMAIN memory :
           Relations(Detached(i), without, c) = Relations(Detached(i), edge, c)
=============================================================================
