--------------------------- MODULE MCMemoryStore ---------------------------
(***************************************************************************)
(* The store, and the graph read from it, on a small instance: two clients *)
(* with two projects each, three memories, two edges.                      *)
(***************************************************************************)
EXTENDS MemoryGraph, TLC

CONSTANTS c1, c2, n1, n2

\* Clients play the same part, and so do projects.
Projects == Permutations({c1, c2}) \cup Permutations({n1, n2})

\* Sets of ids a save may ask to supersede: none, one, a cluster of two, and
\* the id the save itself is about to get.
AskDef == {{}, {1}, {3}, {1, 2}}

\* Links a save may ask for: none, one of either kind, the same link twice in
\* the two directions a symmetric relation can be asked in.
RequestDef == {{}} \cup {{[id |-> i, rel |-> r]} : i \in 1..2, r \in Rel}
                  \cup {{[id |-> 1, rel |-> "relates_to"], [id |-> 2, rel |-> "relates_to"]}}
=============================================================================
