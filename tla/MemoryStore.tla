---------------------------- MODULE MemoryStore ----------------------------
(***************************************************************************)
(* The store of db.rs, one call at a time: each tool call or CLI command   *)
(* that writes is one action, which does everything the call does when no  *)
(* other call runs between its statements.  StoreTx takes the calls apart. *)
(*                                                                         *)
(* An id a caller passes may be any id: the model that calls a tool may    *)
(* name a row that was retired, forgotten, belongs to another project or   *)
(* client, or never existed.                                               *)
(***************************************************************************)
EXTENDS Schema, FiniteSets, FiniteSetsExt, Functions

CONSTANTS
  MaxId,     \* bound: ids the memory sequence hands out
  MaxEdge,   \* bound: rows of memory_edge
  MayExpire, \* bound: ids of the memories an operator gives an expires_at
  Ask,       \* bound: the sets of ids a save may ask to supersede
  Request    \* bound: the sets of links, [id, rel], a save may ask for

ASSUME StoreAssumption ==
  /\ MaxId \in Nat \ {0}
  /\ MaxEdge \in Nat
  /\ \A S \in Ask : S \subseteq Id /\ IsFiniteSet(S)
  /\ \A L \in Request : L \subseteq [id : Id, rel : Rel] /\ IsFiniteSet(L)

VARIABLES
  memory,    \* the table memory
  edge,      \* the table memory_edge
  nextId,    \* the next value of memory's id sequence
  nextEdge   \* the next value of memory_edge's id sequence

vars == <<memory, edge, nextId, nextEdge>>

-----------------------------------------------------------------------------
(* Adding edges.  insert_edge resolves both ends, applies the write rules, *)
(* and inserts ON CONFLICT DO NOTHING.                                     *)

\* insert_edge writes, or finds, an edge from i to j.
Accepted(mem, w, i, j) ==
  /\ ResolvesLive(mem, w.client, i)
  /\ ResolvesLive(mem, w.client, j)
  /\ MayLink(mem, w, ChainEnd(mem, w.client, i), ChainEnd(mem, w.client, j))

\* The row insert_edge writes, or finds there already.
KeyFor(mem, w, i, r, j) ==
  StoredKey(ChainEnd(mem, w.client, i), r, ChainEnd(mem, w.client, j))

LiveKeys == {KeyOf(edge[e]) : e \in LiveEdges(edge)}

\* ON CONFLICT (src_id, dst_id, rel) WHERE forgotten_at IS NULL DO NOTHING.
Fresh(K) == K \ LiveKeys

\* The keys K that are fresh get the next edge ids, in some order: the order
\* of a save's links is the caller's.  A sequence value that ON CONFLICT uses up
\* for nothing is left out: only the order of edge ids is read.
InsertEdges(w, K) ==
  LET new == nextEdge..(nextEdge + Cardinality(Fresh(K)) - 1)
  IN /\ new \subseteq 1..MaxEdge
     /\ nextEdge' = nextEdge + Cardinality(Fresh(K))
     /\ \E key \in Bijection(new, Fresh(K)) :
          edge' = [e \in DOMAIN edge \cup new |->
                     IF e \in new THEN NewEdge(w.client, key[e]) ELSE edge[e]]

-----------------------------------------------------------------------------
(* The calls.                                                              *)

Init ==
  /\ memory = EmptyTable
  /\ edge = EmptyTable
  /\ nextId = 1
  /\ nextEdge = 1

\* memory after the INSERT of a save, and after the UPDATE that follows it.
AfterInsert(w, n) ==
  [i \in DOMAIN memory \cup {n} |-> IF i = n THEN NewRow(w) ELSE memory[i]]

AfterSave(w, S, n) ==
  LET mem == AfterInsert(w, n)
  IN [i \in DOMAIN mem |->
        IF i \in S /\ Retirable(mem, w, i, n) THEN [mem[i] EXCEPT !.supersededBy = n]
        ELSE mem[i]]

\* supersedes_id holds the first id asked for, and is a foreign key.
FirstExists(S, n) == S # {} => Min(S) \in DOMAIN memory \cup {n}

\* The links of a save run after its supersede and see its result.
Save(w, S, L) ==
  /\ nextId <= MaxId
  /\ FirstExists(S, nextId)
  /\ LET mem == AfterSave(w, S, nextId)
         asked == {l \in L : Accepted(mem, w, nextId, l.id)}
     IN /\ memory' = mem
        /\ InsertEdges(w, {KeyFor(mem, w, nextId, l.rel, l.id) : l \in asked})
  /\ nextId' = nextId + 1

\* The INSERT fails on its foreign key; the sequence keeps the id.
SaveFails(w, S) ==
  /\ nextId <= MaxId
  /\ ~FirstExists(S, nextId)
  /\ nextId' = nextId + 1
  /\ UNCHANGED <<memory, edge, nextEdge>>

Link(w, i, r, j) ==
  /\ Accepted(memory, w, i, j)
  /\ InsertEdges(w, {KeyFor(memory, w, i, r, j)})
  /\ UNCHANGED <<memory, nextId>>

\* Rows forget may hide, and restore may bring back or detach.
Forgettable(w, i) == InScope(memory[i], w) /\ ~memory[i].forgotten
Restorable(w, i) == InScope(memory[i], w)

Forget(w, i) ==
  /\ Forgettable(w, i)
  /\ memory' = [memory EXCEPT ![i].forgotten = TRUE]
  /\ UNCHANGED <<edge, nextId, nextEdge>>

ForgetEdge(w, e) ==
  /\ edge[e].client = w.client
  /\ ~edge[e].forgotten
  /\ TouchesNs(memory, edge[e], w)
  /\ edge' = [edge EXCEPT ![e].forgotten = TRUE]
  /\ UNCHANGED <<memory, nextId, nextEdge>>

\* The table after the UPDATE of restore, without and with --detach.
Unhidden(i) == [memory EXCEPT ![i].forgotten = FALSE]
Detached(i) == [memory EXCEPT ![i].forgotten = FALSE, ![i].supersededBy = None]

Restore(w, i, detach) ==
  /\ Restorable(w, i)
  /\ memory' = IF detach THEN Detached(i) ELSE Unhidden(i)
  /\ UNCHANGED <<edge, nextId, nextEdge>>

\* Time passes an expires_at.  No call sets that column: an operator does.
Expire(w, i) ==
  /\ i \in MayExpire
  /\ InScope(memory[i], w)
  /\ ~memory[i].expired
  /\ memory' = [memory EXCEPT ![i].expired = TRUE]
  /\ UNCHANGED <<edge, nextId, nextEdge>>

Call(w) ==
  \/ \E S \in Ask : SaveFails(w, S) \/ \E L \in Request : Save(w, S, L)
  \/ \E i, j \in DOMAIN memory, r \in Rel : Link(w, i, r, j)
  \/ \E i \in DOMAIN memory : \/ Forget(w, i)
                              \/ Expire(w, i)
                              \/ \E d \in BOOLEAN : Restore(w, i, d)
  \/ \E e \in DOMAIN edge : ForgetEdge(w, e)

Next == \E w \in Scope : Call(w)

Spec == Init /\ [][Next]_vars

-----------------------------------------------------------------------------
(* Correctness.                                                            *)

Promise == INSTANCE StorePromise WITH age <- [i \in DOMAIN memory |-> i]

\* Every call, run alone, is a transaction the store may commit, or changes
\* nothing: the id of a memory is its age.
Implements == Promise!Spec

\* The shape of the tables, whose ids the two sequences have handed out.
TypeOK ==
  /\ memory \in [DOMAIN memory -> Row]
  /\ edge \in [DOMAIN edge -> Edge]
  /\ nextId \in Id /\ DOMAIN memory \subseteq 1..(nextId - 1)
  /\ nextEdge \in Id /\ DOMAIN edge \subseteq 1..(nextEdge - 1)

\* What StorePromise says of its tables, said of these: chains climb to younger
\* memories and stay in their project, edges are well formed and stored once,
\* and history is kept.
ChainsClimb == Promise!ChainsClimb
ChainsStayHome == Promise!ChainsStayHome
EdgesWellFormed == Promise!EdgesWellFormed
OneLiveEdgePerFact == Promise!OneLiveEdgePerFact
HistoryKept == Promise!HistoryKept
=============================================================================
