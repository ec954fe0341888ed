--------------------------- MODULE MCSearchExpand ---------------------------
(***************************************************************************)
(* SearchExpand on five memories, with every set of edges between one pair *)
(* of them and the other three: up to three neighbours with two scores     *)
(* compete for one, two or three places.                                   *)
(***************************************************************************)
EXTENDS SearchExpand

Pairs == {{i, j} : i \in {1, 4}, j \in {2, 3, 5}}
LinksDef == {[i \in Memory |-> {j \in Memory : {i, j} \in G}] : G \in SUBSET Pairs}

\* All pass, or two do not.
AllowedDef == {Memory, Memory \ {1, 3}}
=============================================================================
