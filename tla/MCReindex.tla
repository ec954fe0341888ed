------------------------------ MODULE MCReindex ------------------------------
(***************************************************************************)
(* Reindex with two runs beside one or two servers.                        *)
(***************************************************************************)
EXTENDS Reindex

CONSTANTS s1, s2, r1, r2

\* s2 runs with another CTXDB_EMBED_MODEL.
TwoModels == [w \in Server \cup Run |-> IF w = s2 THEN "e5" ELSE "bge"]
=============================================================================
