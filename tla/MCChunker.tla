----------------------------- MODULE MCChunker ------------------------------
(***************************************************************************)
(* Chunker on every text of up to four words, short, longer than half a    *)
(* window, and longer than a window, with all kinds of breaks after them.  *)
(***************************************************************************)
EXTENDS Chunker, SequencesExt

Words == {<<"w">>, <<"w", "w", ".">>, <<"w", "w", "w", "w">>, [k \in 1..11 |-> "w"]}
Breaks == {<<"s">>, <<"n", "n">>, <<"s", "n", "s", "s", "s">>}
Units == {a \o b : a \in Words, b \in Breaks}

\* Tokens of one character, of two, and of unequal lengths.
SplitsDef == {1..10, {2, 4, 6, 8, 10}, {3, 4, 9}}
OneEach == {1..10}

\* The last word of a text may end it.
TextsDef ==
  UNION {{FlattenSeq(u) \o v : u \in [1..n -> Units], v \in {<<>>, <<"w", "w">>}} : n \in 1..3}
=============================================================================
