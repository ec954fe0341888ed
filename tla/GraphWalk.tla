----------------------------- MODULE GraphWalk ------------------------------
(***************************************************************************)
(* Graph::related: the breadth-first walk behind context_related, one link *)
(* of one memory at a time, on a graph whose edges are resolved already    *)
(* (MemoryGraph).  A graph is given as its adjacency lists, each in the    *)
(* order of the edge ids.                                                  *)
(***************************************************************************)
EXTENDS Integers, Sequences, FiniteSets

CONSTANTS
  Node,        \* live memories
  Rel,         \* relation types
  AnyRel,      \* no relation asked for
  MaxDepth,    \* deepest walk
  MaxResults,  \* most memories returned
  Graphs,      \* bound: the adjacency lists considered
  Depths       \* bound: the depths asked for

LinkTo == [other : Node, rel : Rel]

\* A link is listed at both ends.
Mutual(g) ==
  \A a \in Node : \A k \in DOMAIN g[a] :
    \E m \in DOMAIN g[g[a][k].other] :
      g[g[a][k].other][m] = [other |-> a, rel |-> g[a][k].rel]

ASSUME WalkAssumption ==
  /\ IsFiniteSet(Node) /\ AnyRel \notin Rel
  /\ MaxDepth \in Nat \ {0} /\ MaxResults \in Nat \ {0}
  /\ Graphs \subseteq [Node -> Seq(LinkTo)] /\ \A g \in Graphs : Mutual(g)
  /\ Depths \subseteq Int

VARIABLES
  adj, start, depth, rel,  \* the graph and the arguments of the call
  hits,       \* the result so far
  visited,    \* memories seen
  queue,      \* memories to expand, with their distance
  cur,        \* the one being expanded
  links,      \* what is left of its list
  truncated,  \* MAX_RESULTS cut the walk short
  done        \* the call has returned

vars == <<adj, start, depth, rel, hits, visited, queue, cur, links, truncated, done>>
args == <<adj, start, depth, rel>>

Clamp(d) == IF d < 1 THEN 1 ELSE IF d > MaxDepth THEN MaxDepth ELSE d

Init ==
  /\ adj \in Graphs /\ start \in Node /\ rel \in Rel \cup {AnyRel}
  /\ depth \in {Clamp(d) : d \in Depths}
  /\ hits = <<>>
  /\ visited = {start}
  /\ queue = <<[id |-> start, hop |-> 0]>>
  /\ cur = [id |-> start, hop |-> 0]
  /\ links = <<>>
  /\ truncated = FALSE /\ done = FALSE

\* A memory this far from the start is expanded.
Within(d) == d < depth

\* Variant: the memory is looked at and stays in the queue.
AfterPeek(q) == q

After(q) == Tail(q)

Pop ==
  /\ ~done /\ links = <<>> /\ queue # <<>>
  /\ cur' = Head(queue)
  /\ queue' = After(queue)
  /\ links' = IF Within(cur'.hop) THEN adj[cur'.id] ELSE <<>>
  /\ UNCHANGED <<args, hits, visited, truncated, done>>

\* Variant: only what is waiting to be expanded counts as seen.
WantedUnlessQueued(l) ==
  rel \in {AnyRel, l.rel} /\ \A k \in DOMAIN queue : queue[k].id # l.other

\* The link has the relation asked for and leads to a memory not seen before.
Wanted(l) == rel \in {AnyRel, l.rel} /\ l.other \notin visited

Skip ==
  /\ ~done /\ links # <<>> /\ ~Wanted(Head(links))
  /\ links' = Tail(links)
  /\ UNCHANGED <<args, hits, visited, queue, cur, truncated, done>>

\* Variant: the limit is noticed when it is reached, not when it is passed.
FullEarly == Len(hits) + 1 >= MaxResults

Full == Len(hits) = MaxResults

Hit ==
  /\ ~done /\ links # <<>> /\ Wanted(Head(links)) /\ ~Full
  /\ LET n == Head(links).other
     IN /\ visited' = visited \cup {n}
        /\ hits' = Append(hits, [id |-> n, hop |-> cur.hop + 1, via |-> cur.id,
                                 rel |-> Head(links).rel])
        /\ queue' = Append(queue, [id |-> n, hop |-> cur.hop + 1])
  /\ links' = Tail(links)
  /\ UNCHANGED <<args, cur, truncated, done>>

Cut ==
  /\ ~done /\ links # <<>> /\ Wanted(Head(links)) /\ Full
  /\ visited' = visited \cup {Head(links).other}
  /\ truncated' = TRUE /\ done' = TRUE
  /\ UNCHANGED <<args, hits, queue, cur, links>>

Finish ==
  /\ ~done /\ links = <<>> /\ queue = <<>>
  /\ done' = TRUE
  /\ UNCHANGED <<args, hits, visited, queue, cur, links, truncated>>

Next == Pop \/ Skip \/ Hit \/ Cut \/ Finish

\* The function runs to its end once called.
Spec == Init /\ [][Next]_vars /\ WF_vars(Next)

-----------------------------------------------------------------------------
(* Correctness.                                                            *)

Found == {hits[k].id : k \in DOMAIN hits}

\* Memories one link away from a.
Beside(a) ==
  {adj[a][k].other : k \in {k \in DOMAIN adj[a] : rel \in {AnyRel, adj[a][k].rel}}}

\* Reference: the memories at most d hops from the start.
WithinHops(d) ==
  LET ball[n \in 0..d] ==
        IF n = 0 THEN {start}
        ELSE LET B == ball[n-1] IN B \cup UNION {Beside(a) : a \in B}
  IN ball[d]

\* "Each memory appears once, at the hop where it was first reached": at its
\* true distance, by a link of the relation asked for from a memory one hop
\* nearer, and never the start itself (related).
HopIsDistance ==
  /\ \A k \in DOMAIN hits :
       LET h == hits[k]
       IN /\ h.id \in WithinHops(h.hop) \ WithinHops(h.hop - 1)
          /\ h.via \in WithinHops(h.hop - 1)
          /\ rel \in {AnyRel, h.rel}
          /\ \E m \in DOMAIN adj[h.via] : adj[h.via][m] = [other |-> h.id, rel |-> h.rel]
  /\ Cardinality(Found) = Len(hits)

\* The walk reports all there is to report, or says that it was cut; and when
\* it was, it returns as many as it may, and nothing it left out is nearer than
\* what it returned (MAX_RESULTS: "The caller is told when this cuts the
\* result").
CompleteOrCut ==
  done =>
    LET all == WithinHops(depth) \ {start}
    IN /\ truncated <=> Cardinality(all) > MaxResults
       /\ ~truncated => Found = all
       /\ truncated =>
            /\ Len(hits) = MaxResults
            /\ \A n \in all \ Found : \A k \in DOMAIN hits : n \notin WithinHops(hits[k].hop - 1)

\* The walk ends.
Returns == <>done
=============================================================================
