------------------------------ MODULE MCOverlap ------------------------------
(***************************************************************************)
(* Overlap on four memories, up to four pairs of which are close: at the   *)
(* upper end of the merge band, or between the bands.                      *)
(***************************************************************************)
EXTENDS Overlap

DistancesDef ==
  {d \in [Pair -> 1..3] : Cardinality({p \in Pair : d[p] < 3}) <= 4}

SummariesDef == {{2}}

\* --consolidate at its default, and looser; --edges with a band, and without.
CutoffsDef == {<<1, 2>>, <<2, 1>>}

MayLinkDef == {<<1, 3>>}
=============================================================================
