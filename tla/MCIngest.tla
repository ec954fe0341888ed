------------------------------- MODULE MCIngest -------------------------------
(***************************************************************************)
(* Ingest with two sessions of one project and one of another.             *)
(***************************************************************************)
EXTENDS Ingest, TLC

CONSTANTS s1, s2, s3, n1, n2, h1, h2

Dirs == [s \in Session |-> IF s = s3 THEN n2 ELSE n1]

Hooks == Permutations(Hook)
=============================================================================
