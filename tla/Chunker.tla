------------------------------- MODULE Chunker -------------------------------
(***************************************************************************)
(* How a body becomes the chunks a memory is found by: the tokenizer is    *)
(* asked, the body is cut into overlapping windows, every piece is         *)
(* embedded, and all are written or none (embed.rs, and the writers that   *)
(* call it).  Without a tokenizer the windows are counted in characters.   *)
(*                                                                         *)
(* A text is a sequence of characters, told apart as far as the cut does:  *)
(* of a word, ending a sentence, blank, newline.  Offsets count from 0, as *)
(* the code's do, and stand for its byte offsets, all of which lie between *)
(* two characters.                                                         *)
(***************************************************************************)
EXTENDS Integers, Sequences, FiniteSets, FiniteSetsExt

CONSTANTS
  ChunkTokens,   \* CHUNK_TOKENS, 200 in the code
  OverlapTokens, \* CHUNK_OVERLAP_TOKENS, 35
  ChunkChars,    \* CHUNK_CHARS, 700
  OverlapChars,  \* CHUNK_OVERLAP, 120
  Texts,         \* bound: the bodies considered
  Splits         \* bound: where inside a word a token may start, too

Char == {"w", ".", "s", "n"}

ASSUME ChunkerAssumption ==
  /\ OverlapTokens \in Nat \ {0} /\ ChunkTokens \in Nat /\ 2 * OverlapTokens < ChunkTokens
  /\ OverlapChars \in Nat \ {0} /\ ChunkChars \in Nat /\ 2 * OverlapChars < ChunkChars
  /\ Texts \subseteq Seq(Char)
  /\ Splits \subseteq SUBSET Nat

VARIABLES
  text,     \* the body
  starts,   \* where its tokens start, as the server says
  pc,
  from,     \* start_byte, or start
  tok,      \* start_tok
  pieces    \* the windows cut so far, before they are trimmed

vars == <<text, starts, pc, from, tok, pieces>>

Size == Len(text)
Blank(p) == text[p + 1] \in {"s", "n"}
Newline(p) == text[p + 1] = "n"
EndsSentence(p) == text[p + 1] = "."

\* Words: unbroken runs from a to b.
InWord(p) == p \in 0..(Size - 1) /\ ~Blank(p)
WordStarts == {p \in 0..(Size - 1) : InWord(p) /\ ~InWord(p - 1)}

Init ==
  /\ text \in Texts
  /\ starts = <<>> /\ pc = "tokenize"
  /\ from = 0 /\ tok = 0
  /\ pieces = <<>>

-----------------------------------------------------------------------------
(* Where to cut.                                                           *)

\* Variant: every window is as long as it may be.
BreakNowhere(floor, ceil) == ceil

\* Variant: with no break in the window, the word is finished.
BreakAfterWord(floor, ceil) ==
  LET gaps == {p + 1 : p \in {p \in floor..(Size - 1) : Blank(p)}}
  IN IF gaps # {} THEN Min(gaps) ELSE ceil

\* The offset just past the last blank line between floor and ceil, else past
\* the last sentence end, else past the last blank, else ceil.
FindBreak(floor, ceil) ==
  LET window == floor..(ceil - 1)
      past(P) == {p + 1 : p \in P}
      paragraphs == past({p \in window : p > floor /\ Newline(p) /\ Newline(p - 1)})
      sentences == past({p \in window : p > floor /\ Blank(p) /\ EndsSentence(p - 1)})
      spaces == past({p \in window : Blank(p)})
  IN IF paragraphs # {} THEN Max(paragraphs)
     ELSE IF sentences # {} THEN Max(sentences)
     ELSE IF spaces # {} THEN Max(spaces)
     ELSE ceil

\* Variant: the window may start in the middle of a word.
WordStartAnywhere(p) == p

\* p, moved to where the next word may start unless it is there already or the
\* text is unbroken from here on.
WordStart(p) ==
  LET gaps == {q + 1 : q \in {q \in p..(Size - 1) : Blank(q)}}
  IN IF p = 0 \/ p >= Size \/ Blank(p - 1) \/ gaps = {} THEN p ELSE Min(gaps)

Start(k) == starts[k + 1]
TokenAt(p) == Cardinality({k \in DOMAIN starts : starts[k] < p})

\* Breaks are sought in the second half of the window.
FloorTokens ==
  LET half == Start(tok + ChunkTokens \div 2) IN IF half > from THEN half ELSE from

EndTokens ==
  IF tok + ChunkTokens >= Len(starts)
  THEN Size
  ELSE FindBreak(FloorTokens, Start(tok + ChunkTokens))

EndChars ==
  IF from + ChunkChars >= Size
  THEN Size
  ELSE FindBreak(from + ChunkChars \div 2, from + ChunkChars)

-----------------------------------------------------------------------------
(* Where to go on.                                                         *)

\* Variant: windows do not overlap.
AfterTokensNoOverlap(end) == [from |-> end, tok |-> TokenAt(end)]

\* Variant: back to the start of the word, however far that is.
AfterTokensBackwards(end) ==
  LET k == TokenAt(end) - OverlapTokens
      next == Max({q \in WordStarts : q <= Start(IF k < 0 THEN 0 ELSE k)})
  IN [from |-> next, tok |-> TokenAt(next)]

AfterTokens(end) ==
  LET last == TokenAt(end)
      back == IF last < OverlapTokens THEN 0 ELSE last - OverlapTokens
      next == WordStart(IF back < Len(starts) THEN Start(back) ELSE end)
  IN IF next <= from
     THEN [from |-> end, tok |-> IF last > tok THEN last ELSE tok + 1]
     ELSE [from |-> next, tok |-> TokenAt(next)]

AfterChars(end) ==
  WordStart(IF end - OverlapChars > from THEN end - OverlapChars ELSE from + 1)

-----------------------------------------------------------------------------
(* The steps of a write.                                                   *)

\* Every word starts a token, and so do the characters at the offsets of S in it.
TokensOf(S) ==
  LET token(p) == InWord(p) /\ p - Max({q \in WordStarts : q <= p}) \in {0} \cup S
      before[n \in 0..Size] ==
        IF n = 0 THEN <<>>
        ELSE IF token(n - 1) THEN Append(before[n-1], n - 1) ELSE before[n-1]
  IN before[Size]

\* POST /tokenize: no such route, or a failure, or the offsets.  A server whose
\* tokens carry no offsets, which makes one chunk of any body, is left out.
Tokenize ==
  /\ pc = "tokenize"
  /\ \/ /\ \E S \in Splits : starts' = TokensOf(S)
        /\ pc' = "tokens"
     \/ pc' \in {"chars", "refused"} /\ UNCHANGED starts
  /\ UNCHANGED <<text, from, tok, pieces>>

Short == IF pc = "tokens" THEN Len(starts) <= ChunkTokens ELSE Size <= ChunkChars

\* The window to end is kept unless trimming leaves nothing of it.
With(end) ==
  IF \E p \in from..(end - 1) : InWord(p)
  THEN Append(pieces, [from |-> from, to |-> end])
  ELSE pieces

\* A body with nothing in it is refused, or left alone by --reindex.
Enough(cut) == IF cut = <<>> THEN "refused" ELSE "embed"

Whole ==
  /\ pc \in {"tokens", "chars"} /\ Short
  /\ pieces' = With(Size)
  /\ pc' = Enough(pieces')
  /\ UNCHANGED <<text, starts, from, tok>>

CutTokens ==
  /\ pc = "tokens" /\ ~Short
  /\ \E end \in {EndTokens} :
       /\ pieces' = With(end)
       /\ IF end = Size
          THEN pc' = Enough(pieces') /\ UNCHANGED <<from, tok>>
          ELSE \E next \in {AfterTokens(end)} :
                 /\ from' = next.from /\ tok' = next.tok
                 /\ pc' = IF from' >= Size \/ tok' >= Len(starts)
                          THEN Enough(pieces') ELSE "tokens"
  /\ UNCHANGED <<text, starts>>

CutChars ==
  /\ pc = "chars" /\ ~Short
  /\ \E end \in {EndChars} :
       /\ pieces' = With(end)
       /\ IF end = Size
          THEN pc' = Enough(pieces') /\ UNCHANGED from
          ELSE /\ from' = AfterChars(end)
               /\ pc' = IF from' >= Size THEN Enough(pieces') ELSE "chars"
  /\ UNCHANGED <<text, starts, tok>>

\* POST /embed: as many vectors as pieces, or the write is given up.
Embed ==
  /\ pc = "embed"
  /\ pc' \in {"stored", "refused"}
  /\ UNCHANGED <<text, starts, from, tok, pieces>>

Next == Tokenize \/ Whole \/ CutTokens \/ CutChars \/ Embed

Spec == Init /\ [][Next]_vars

-----------------------------------------------------------------------------
(* Correctness.                                                            *)

\* Each window starts after the one before and within the text, so the cut ends
\* whatever the text: "Unbreakable text is the case that would otherwise spin
\* here forever" (chunk_text_by_tokens; chunk_text: "always make progress").
Advances == [][pc' = pc => from < from' /\ from' < Size]_vars

ByTokens == starts # <<>>
TokensIn(a, b) == Cardinality({k \in DOMAIN starts : starts[k] \in a..(b - 1)})

\* The length of a stretch of text, and what a window, half a window and the
\* overlap hold, in the unit in use.
Extent(a, b) == IF ByTokens THEN TokensIn(a, b) ELSE b - a
Window == IF ByTokens THEN ChunkTokens ELSE ChunkChars
Overlap == IF ByTokens THEN OverlapTokens ELSE OverlapChars

\* Every slice taken is one of the text, and none is longer than a window: the
\* size of a chunk "also bounds what search returns" (CHUNK_TOKENS).
WithinBudget ==
  \A k \in DOMAIN pieces :
    LET p == pieces[k]
    IN /\ 0 <= p.from /\ p.from < p.to /\ p.to <= Size
       /\ Extent(p.from, p.to) <= Window

\* A piece starts in the middle of a word only where the text is unbroken: the
\* one before it ended in that word (word_start).
StartsAtWords ==
  \A k \in 2..Len(pieces) :
    InWord(pieces[k].from) /\ InWord(pieces[k].from - 1) =>
      \A p \in pieces[k].from..pieces[k-1].to : InWord(p) \/ p = Size

Done == pc \in {"embed", "stored"}
Held(a, b) == \E k \in DOMAIN pieces : pieces[k].from <= a /\ b <= pieces[k].to

\* Stretches of text from the start of a word to the end of one.
Stretches ==
  {s \in [from : WordStarts, to : {p \in 1..Size : InWord(p - 1) /\ ~InWord(p)}] :
     s.from < s.to}

OneWord(s) == \A p \in s.from..(s.to - 1) : InWord(p)

\* A word of at most half a window is whole in some piece, in particular it is
\* not lost.
WordsWhole ==
  Done => \A s \in Stretches :
            OneWord(s) /\ Extent(s.from, s.to) <= Window \div 2 => Held(s.from, s.to)

\* "A fact sitting on a boundary is fully present in at least one chunk": words
\* that together, with the blank after them, are no longer than the overlap are
\* in one piece (CHUNK_OVERLAP_TOKENS).
FactsWhole ==
  Done => \A s \in Stretches :
            Extent(s.from, s.to + 1) <= Overlap => Held(s.from, s.to)

\* "Overlap makes the total longer than the original; nothing may be lost"
\* (embed.rs, token_chunks_cover_the_whole_body): every word is in the pieces.
NothingLost ==
  Done => \A p \in 0..(Size - 1) : InWord(p) => Held(p, p + 1)
=============================================================================
