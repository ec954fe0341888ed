---------------------------- MODULE SearchExpand ----------------------------
(***************************************************************************)
(* context_search with expand: the hits of a search, already ranked, and   *)
(* the memories one edge away from them, in one list of bounded length     *)
(* (graph.rs, expand; main.rs, context_search and expanded).               *)
(*                                                                         *)
(* Scores are ranks: EXPAND_DECAY is positive, so it keeps their order and *)
(* a neighbour carries the score of its hit.  The graph and the rows are   *)
(* read after the search, so a hit may have lost its edges and a neighbour *)
(* may have been hidden: any graph, and any set of memories that pass the  *)
(* filters of the search, may be met.  Two memories with several edges     *)
(* between them are linked once: the candidates the edges give have one    *)
(* score, and the first stays.                                             *)
(***************************************************************************)
EXTENDS Integers, Sequences, FiniteSets

CONSTANTS
  Memory,   \* ids
  Score,    \* scores of search hits
  Links,    \* bound: the graphs, each giving the memories linked to one
  Limits,   \* bound: the limits asked for, clamped already
  Slots,    \* bound: values of CTXDB_EXPAND_SLOTS
  Allowed   \* bound: the sets of memories read and let through by the filters

ASSUME ExpandAssumption ==
  /\ Memory \subseteq Nat /\ IsFiniteSet(Memory) /\ Score \subseteq Nat
  /\ Links \subseteq [Memory -> SUBSET Memory]
  /\ Limits \subseteq 1..50 /\ Slots \subseteq 0..50
  /\ Allowed \subseteq SUBSET Memory

VARIABLES
  ranked,  \* what db::search returned
  linked,  \* Graph::links
  limit, slots, allowed,
  at,      \* the hits whose links have been looked at
  best,    \* memory -> the best way found to it: from which hit, with what score
  extra,   \* the neighbours in order, filtered
  result,  \* the list the caller gets: hits, and neighbours with their via
  pc

expandVars == <<ranked, linked, limit, slots, allowed, at, best, extra, result, pc>>
expandArgs == <<ranked, linked, limit, slots, allowed>>

IsHit(i) == \E k \in DOMAIN ranked : ranked[k].id = i

\* ORDER BY score DESC LIMIT.
Ranked(n) ==
  {h \in UNION {[1..m -> [id : Memory, score : Score]] : m \in 1..n} :
     \A j, k \in DOMAIN h : j < k => h[j].id # h[k].id /\ h[j].score >= h[k].score}

ExpandInit ==
  /\ limit \in Limits /\ slots \in Slots /\ allowed \in Allowed
  /\ linked \in Links
  /\ ranked \in Ranked(limit)
  /\ at = 0 /\ best = <<>> /\ extra = <<>> /\ result = <<>>
  /\ pc = "expand"

\* Variant: the last way found.
BetterAlways(i, score) == TRUE

\* A way with this score beats what was found before for the same memory.
Better(i, score) == i \in DOMAIN best => best[i].score < score

\* The links of the next hit.
Consider ==
  /\ pc = "expand" /\ at < Len(ranked)
  /\ at' = at + 1
  /\ LET hit == ranked[at + 1]
         others == {i \in linked[hit.id] : ~IsHit(i)}
     IN best' = [i \in DOMAIN best \cup others |->
                   IF i \in others /\ Better(i, hit.score)
                   THEN [score |-> hit.score, via |-> hit.id]
                   ELSE best[i]]
  /\ UNCHANGED <<expandArgs, extra, result, pc>>

Candidates == {[id |-> i, score |-> best[i].score, via |-> best[i].via] : i \in DOMAIN best}

\* Variant: ascending.
BeforeAscending(a, b) == a.score < b.score \/ (a.score = b.score /\ a.id < b.id)

Before(a, b) == a.score > b.score \/ (a.score = b.score /\ a.id < b.id)

\* In a sorted list as many come before an element as are less than it.
Sorted(S) == [k \in 1..Cardinality(S) |->
                CHOOSE e \in S : Cardinality({f \in S : Before(f, e)}) = k - 1]

\* Variant: not cut to the limit.
Uncut(s) == s

FirstFew(s) == SubSeq(s, 1, IF Len(s) < limit THEN Len(s) ELSE limit)

\* Sorted, filtered and cut; what is left out does not move what is left.
Filter ==
  /\ pc = "expand" /\ at = Len(ranked)
  /\ extra' = FirstFew(Sorted({e \in Candidates : e.id \in allowed}))
  /\ pc' = "merge"
  /\ UNCHANGED <<expandArgs, at, best, result>>

\* Variant: neighbours always get as many slots as they can fill.
AllRoom == limit

\* Places neighbours may take: those the search left empty, or the slots set
\* aside for them.
Room ==
  LET free == IF Len(ranked) < limit THEN limit - Len(ranked) ELSE 0
  IN IF slots > free THEN slots ELSE free

Take == IF Len(extra) < Room THEN Len(extra) ELSE Room

\* Variant: neighbours added to whatever the search found.
KeepAll == Len(ranked)

\* hits.truncate(limit - take): usize, and below zero it wraps to more than
\* there are hits.
Kept == IF Take <= limit /\ limit - Take < Len(ranked) THEN limit - Take ELSE Len(ranked)

Merge ==
  /\ pc = "merge"
  /\ result' = [k \in 1..(Kept + Take) |-> IF k <= Kept THEN ranked[k] ELSE extra[k - Kept]]
  /\ pc' = "done"
  /\ UNCHANGED <<expandArgs, at, best, extra>>

\* Variant: the error ends the call with nothing to show.
ExpandFailsEmpty ==
  /\ pc = "expand" /\ at = Len(ranked)
  /\ result' = <<>>
  /\ pc' = "failed"
  /\ UNCHANGED <<expandArgs, at, best, extra>>

\* The graph or the rows cannot be read: the direct hits stand.
ExpandFails ==
  /\ pc = "expand" /\ at = Len(ranked)
  /\ result' = ranked
  /\ pc' = "failed"
  /\ UNCHANGED <<expandArgs, at, best, extra>>

ExpandNext == Consider \/ Filter \/ ExpandFails \/ Merge

ExpandSpec == ExpandInit /\ [][ExpandNext]_expandVars

-----------------------------------------------------------------------------
(* Correctness.                                                            *)

Returned == pc \in {"done", "failed"}

\* Where the result shows memories that the search did not find.
Neighbours == {k \in DOMAIN result : ~IsHit(result[k].id)}

Stands(k) == k \in DOMAIN result /\ result[k] = ranked[k]

\* "The result keeps its limit: expand changes what is shown, never how much"
\* beyond it; nothing is shown twice, and direct hits come first, in their
\* order (context_search).
HitsThenNeighbours ==
  Returned =>
    /\ Len(result) <= limit
    /\ \A j, k \in DOMAIN result : result[j].id = result[k].id => j = k
    /\ \E m \in 0..Len(result) :
         /\ \A k \in 1..m : result[k] = ranked[k]
         /\ Neighbours = (m + 1)..Len(result)

\* Direct hits give way to no more neighbours than the slots set aside, with
\* none set aside no direct hit is lost, and none is while there is room, as
\* when the expansion fails: "losing the expansion must not cost the search".
FewHitsLost ==
  Returned =>
    \A k \in DOMAIN ranked :
      k <= limit - slots \/ Len(result) < limit \/ Neighbours = {} => Stands(k)

\* What a memory scores as a neighbour: the best of the hits it is linked to.
Scores(i) == {ranked[k].score : k \in {k \in DOMAIN ranked : i \in linked[ranked[k].id]}}

\* "Order is by score, then id": i has a better hit than j, or one as good and
\* the smaller id.
Outranks(i, j) == \A t \in Scores(j) : \E s \in Scores(i) : s > t \/ (s = t /\ i < j)

\* Memories that the result could show beside its hits.
Eligible == {i \in allowed : Scores(i) # {} /\ ~IsHit(i)}

\* The neighbours the caller is shown are the best there are, in their order:
\* each passes the filters and is shown with the hit that gives it its best
\* score; none is outranked by one shown after it or left out; and one is left
\* out only of a full list, with all the slots set aside taken (expand, expanded
\* and what context_search shows of them).
BestNeighboursShown ==
  pc = "done" =>
    LET Out == Eligible \ {result[k].id : k \in Neighbours}
    IN /\ \A k \in Neighbours :
            LET e == result[k]
            IN /\ e.id \in Eligible /\ e.id \in linked[e.via]
               /\ [id |-> e.via, score |-> e.score] \in {ranked[m] : m \in DOMAIN ranked}
               /\ \A t \in Scores(e.id) : e.score >= t
       /\ \A j, k \in Neighbours : j < k => Outranks(result[j].id, result[k].id)
       /\ \A i \in Out : \A k \in Neighbours : Outranks(result[k].id, i)
       /\ Out # {} => Len(result) = limit /\ \A k \in DOMAIN result : k > limit - slots => k \in Neighbours
=============================================================================
