---------------------------- MODULE MCGraphWalk -----------------------------
(***************************************************************************)
(* GraphWalk on the graphs that can be drawn with a few candidate edges: a *)
(* ring of five memories with two chords, one pair joined by two relations.*)
(***************************************************************************)
EXTENDS GraphWalk, SequencesExt

Candidates ==
  <<[a |-> 1, b |-> 2, rel |-> "x"], [a |-> 2, b |-> 3, rel |-> "x"],
    [a |-> 3, b |-> 4, rel |-> "y"], [a |-> 4, b |-> 5, rel |-> "x"],
    [a |-> 1, b |-> 5, rel |-> "x"], [a |-> 1, b |-> 3, rel |-> "x"],
    [a |-> 2, b |-> 3, rel |-> "y"], [a |-> 2, b |-> 5, rel |-> "x"]>>

\* The links of memory n in the graph made of the candidates S.
LinksOf(n, S) ==
  LET mine == SelectSeq(Candidates, LAMBDA e : n \in {e.a, e.b} /\ e \in S)
  IN [k \in DOMAIN mine |->
        [other |-> IF mine[k].a = n THEN mine[k].b ELSE mine[k].a, rel |-> mine[k].rel]]

GraphsDef == {[n \in Node |-> LinksOf(n, S)] : S \in SUBSET ToSet(Candidates)}
=============================================================================
