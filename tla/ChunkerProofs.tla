---------------------------- MODULE ChunkerProofs ----------------------------
(***************************************************************************)
(* What both ways of cutting promise, for any text, any tokens that start  *)
(* at words or inside them, and any sizes of windows and overlaps.         *)
(***************************************************************************)
EXTENDS Chunker, FiniteSetTheorems, WellFoundedInduction, TLAPS

-----------------------------------------------------------------------------
(* The inductive invariant.                                                *)

Cutting == pc \in {"tokens", "chars"}

TypeOK ==
  /\ text \in Seq(Char) /\ starts \in Seq(Nat)
  /\ pc \in {"tokenize", "tokens", "chars", "embed", "stored", "refused"}
  /\ from \in Nat /\ tok \in Nat
  /\ pieces \in Seq([from : Nat, to : Nat])

\* Tokens follow each other, and every word starts one.
StartsOK ==
  /\ \A j, k \in DOMAIN starts : j < k => starts[j] < starts[k]
  /\ \A k \in DOMAIN starts : starts[k] < Size
  /\ pc \in {"tokenize", "chars"} => starts = <<>>
  /\ pc = "tokens" => \A p \in WordStarts : \E k \in DOMAIN starts : starts[k] = p

\* The next window starts within the text, and tok is the token it starts with.
CursorOK ==
  /\ pc = "tokenize" => from = 0 /\ tok = 0 /\ pieces = <<>>
  /\ Cutting => from = 0 \/ from < Size
  /\ pc = "tokens" => tok = TokenAt(from)

\* The next window starts in the middle of a word only where all that was not
\* cut yet is unbroken.
NextStartsAtWord ==
  Cutting /\ pieces # <<>> /\ InWord(from) /\ InWord(from - 1) =>
    \A p \in from..pieces[Len(pieces)].to : InWord(p) \/ p = Size

\* A word of half a window, or a fact of an overlap.
Small(s) ==
  \/ OneWord(s) /\ Extent(s.from, s.to) <= Window \div 2
  \/ Extent(s.from, s.to + 1) <= Overlap

\* What is not in some piece is still ahead.
HeldOrAhead ==
  \A s \in Stretches :
    Small(s) => \/ Cutting /\ from <= s.from
                \/ Held(s.from, s.to)
                \/ pc \in {"tokenize", "refused"}

Inv ==
  /\ TypeOK /\ StartsOK /\ CursorOK
  /\ WithinBudget /\ StartsAtWords /\ NextStartsAtWord /\ HeldOrAhead

-----------------------------------------------------------------------------
(* Numbers.                                                                *)

LEMMA Least ==
  ASSUME NEW S \in SUBSET Nat, S # {}
  PROVE  \E x \in S : \A y \in S : x <= y
<1> DEFINE Less == {ss \in Nat \X Nat : ss[1] < ss[2]}
<1>1. IsWellFoundedOn(Less, Nat)
  BY NatLessThanWellFounded, Zenon DEF OpToRel
<1>2. PICK x \in S : \A y \in S : ~(<<y, x>> \in Less)
  <2> HIDE DEF Less
  <2> QED BY <1>1, WFMin
<1>3. ASSUME NEW y \in S
      PROVE  x <= y
  <2>1. <<y, x>> \notin Less
    BY <1>2
  <2>2. ~(y < x)
    BY <2>1
  <2> QED BY <2>2
<1> QED BY <1>3

\* A set of numbers that has 0, and n + 1 when it has n, has them all.
LEMMA Induction ==
  ASSUME NEW G, 0 \in G, \A n \in Nat : n \in G => n + 1 \in G
  PROVE  Nat \subseteq G
<1> DEFINE Bad == Nat \ G
<1> SUFFICES ASSUME Bad # {} PROVE FALSE
  OBVIOUS
<1>1. PICK x \in Bad : \A y \in Bad : x <= y
  BY Least
<1>2. x # 0 /\ x - 1 \in Nat
  BY <1>1
<1>3. x - 1 \in G
  BY <1>1, <1>2
<1>4. x - 1 + 1 \in G
  BY <1>2, <1>3
<1> QED BY <1>1, <1>2, <1>4

LEMMA HalfIs ==
  ASSUME NEW n \in Nat
  PROVE  n \div 2 \in Nat /\ 2 * (n \div 2) <= n /\ n <= 2 * (n \div 2) + 1
  OBVIOUS

\* A bounded set of numbers has a largest, and any has a smallest.
LEMMA Extremes ==
  ASSUME NEW S \in SUBSET Nat, S # {}
  PROVE  /\ Min(S) \in S /\ \A x \in S : Min(S) <= x
         /\ \A n \in Nat : (\A x \in S : x <= n) => Max(S) \in S /\ \A x \in S : x <= Max(S)
<1>1. PICK m \in S : \A x \in S : m <= x
  BY Least
<1>2. Min(S) \in S /\ \A x \in S : Min(S) <= x
  BY <1>1 DEF Min
<1>3. ASSUME NEW n \in Nat, \A x \in S : x <= n
      PROVE  Max(S) \in S /\ \A x \in S : x <= Max(S)
  <2> DEFINE D == {n - x : x \in S}
  <2>1. D \in SUBSET Nat /\ D # {}
    BY <1>3
  <2>2. PICK d \in D : \A e \in D : d <= e
    <3> HIDE DEF D
    <3> QED BY <2>1, Least
  <2>3. PICK x \in S : d = n - x
    BY <2>2
  <2>4. \A y \in S : x >= y
    <3> SUFFICES ASSUME NEW y \in S PROVE x >= y
      OBVIOUS
    <3>1. d <= n - y
      BY <2>2
    <3>2. x \in Nat /\ y \in Nat
      OBVIOUS
    <3> QED BY <2>3, <3>1, <3>2
  <2>5. Max(S) \in S /\ \A y \in S : Max(S) >= y
    BY <2>3, <2>4 DEF Max
  <2>6. Max(S) \in Nat /\ \A y \in S : y \in Nat
    BY <2>5
  <2> QED BY <2>5, <2>6
<1> QED BY <1>2, <1>3

LEMMA InSeq ==
  ASSUME NEW S, NEW s \in Seq(S), NEW k \in DOMAIN s
  PROVE  s[k] \in S /\ k \in Nat /\ 1 <= k /\ k <= Len(s)
  OBVIOUS

LEMMA AppendIs ==
  ASSUME NEW S, NEW s \in Seq(S), NEW e \in S
  PROVE  /\ Append(s, e) \in Seq(S) /\ Len(Append(s, e)) = Len(s) + 1 /\ Len(s) \in Nat
         /\ DOMAIN s = 1..Len(s) /\ DOMAIN Append(s, e) = 1..(Len(s) + 1)
         /\ \A k \in DOMAIN s : k \in DOMAIN Append(s, e) /\ k <= Len(s) /\ Append(s, e)[k] = s[k]
         /\ Append(s, e)[Len(s) + 1] = e
         /\ \A k \in DOMAIN Append(s, e) : k \in DOMAIN s \/ k = Len(s) + 1
  OBVIOUS

-----------------------------------------------------------------------------
(* Tokens.                                                                 *)

\* The tokens before p are the first TokenAt(p).
LEMMA TokenAtIs ==
  ASSUME TypeOK, StartsOK, NEW p \in Nat
  PROVE  /\ TokenAt(p) \in 0..Len(starts)
         /\ \A k \in DOMAIN starts : starts[k] < p <=> k <= TokenAt(p)
<1>1. Len(starts) \in Nat /\ DOMAIN starts = 1..Len(starts) /\ \A k \in DOMAIN starts : starts[k] \in Nat
  BY InSeq DEF TypeOK
<1> DEFINE S == {k \in 1..(Len(starts) + 1) : k <= Len(starts) => starts[k] >= p}
<1>2. Len(starts) + 1 \in S /\ S \in SUBSET Nat
  BY <1>1
<1>3. PICK m \in S : \A k \in S : m <= k
  <2> HIDE DEF S
  <2> QED BY <1>2, Least
<1>4. m \in 1..(Len(starts) + 1) /\ m - 1 \in 0..Len(starts)
  BY <1>1
<1>5. ASSUME NEW k \in DOMAIN starts
      PROVE  starts[k] < p <=> k <= m - 1
  <2>1. CASE k < m
    <3>1. k \notin S
      BY <1>1, <1>3, <1>4, <2>1
    <3> QED BY <1>1, <1>4, <2>1, <3>1
  <2>2. CASE k >= m
    <3>1. m \in DOMAIN starts /\ starts[m] >= p
      BY <1>1, <1>4, <2>2
    <3>2. starts[k] >= starts[m]
      BY <1>1, <1>4, <2>2, <3>1 DEF StartsOK
    <3> QED BY <1>1, <1>4, <2>2, <3>1, <3>2
  <2> QED BY <1>1, <1>4, <2>1, <2>2
<1>6. {k \in DOMAIN starts : starts[k] < p} = 1..(m - 1)
  BY <1>1, <1>4, <1>5
<1>7. Cardinality(1..(m - 1)) = m - 1
  BY <1>4, FS_Interval
<1>8. TokenAt(p) = m - 1
  BY <1>6, <1>7 DEF TokenAt
<1> QED BY <1>4, <1>5, <1>8

\* A stretch has no more tokens than are numbered i to j, when all of its tokens
\* are; and no fewer, when all of those are its tokens.
LEMMA TokensInIs ==
  ASSUME TypeOK, NEW a, NEW b, NEW i \in Nat, NEW j \in Nat, i <= j + 1
  PROVE  LET T == {k \in DOMAIN starts : starts[k] \in a..(b - 1)}
         IN /\ TokensIn(a, b) \in Nat
            /\ T \subseteq i..j => TokensIn(a, b) <= j - i + 1
            /\ i..j \subseteq T => TokensIn(a, b) >= j - i + 1
<1> DEFINE T == {k \in DOMAIN starts : starts[k] \in a..(b - 1)}
<1>1. IsFiniteSet(i..j) /\ Cardinality(i..j) = j - i + 1
  BY FS_Interval
<1>2. Len(starts) \in Nat /\ DOMAIN starts = 1..Len(starts)
  BY DEF TypeOK
<1>3. IsFiniteSet(1..Len(starts)) /\ T \subseteq 1..Len(starts)
  BY <1>2, FS_Interval
<1> HIDE DEF T
<1>4. IsFiniteSet(T) /\ Cardinality(T) \in Nat
  BY <1>3, FS_Subset, FS_CardinalityType
<1>5. T \subseteq i..j => Cardinality(T) <= Cardinality(i..j)
  BY <1>1, FS_Subset
<1>6. i..j \subseteq T => Cardinality(i..j) <= Cardinality(T)
  BY <1>4, FS_Subset
<1>7. TokensIn(a, b) = Cardinality(T)
  BY DEF TokensIn, T
<1> QED BY <1>1, <1>4, <1>5, <1>6, <1>7 DEF T

-----------------------------------------------------------------------------
(* Breaks.                                                                 *)

\* A break is past the floor, and follows a blank unless there is none from the
\* floor to the ceiling.
LEMMA FindBreakIs ==
  ASSUME NEW floor \in Nat, NEW ceil \in Nat, floor < ceil
  PROVE  LET end == FindBreak(floor, ceil)
         IN /\ end \in Nat /\ floor < end /\ end <= ceil
            /\ Blank(end - 1) \/ (end = ceil /\ \A p \in floor..(ceil - 1) : ~Blank(p))
<1> DEFINE window == floor..(ceil - 1)
           past(P) == {p + 1 : p \in P}
           P1 == past({p \in window : p > floor /\ Newline(p) /\ Newline(p - 1)})
           P2 == past({p \in window : p > floor /\ Blank(p) /\ EndsSentence(p - 1)})
           P3 == past({p \in window : Blank(p)})
           end == FindBreak(floor, ceil)
<1>1. end = IF P1 # {} THEN Max(P1) ELSE IF P2 # {} THEN Max(P2)
            ELSE IF P3 # {} THEN Max(P3) ELSE ceil
  BY DEF FindBreak
<1>2. /\ P1 \subseteq P3 /\ P2 \subseteq P3
      /\ \A e \in P3 : e \in Nat /\ floor < e /\ e <= ceil /\ Blank(e - 1)
  <2>1. \A p \in window : p \in Nat /\ p >= floor /\ p + 1 <= ceil /\ p + 1 - 1 = p
    OBVIOUS
  <2>2. \A p : Newline(p) => Blank(p)
    BY DEF Newline, Blank
  <2> HIDE DEF window
  <2>3. P1 \subseteq P3 /\ P2 \subseteq P3
    BY <2>2
  <2>4. ASSUME NEW p \in window, Blank(p)
        PROVE  p + 1 \in Nat /\ floor < p + 1 /\ p + 1 <= ceil /\ Blank(p + 1 - 1)
    <3>1. p + 1 \in Nat /\ floor < p + 1 /\ p + 1 <= ceil /\ p + 1 - 1 = p
      BY <2>1
    <3> QED BY <2>4, <3>1
  <2>5. ASSUME NEW e \in P3
        PROVE  e \in Nat /\ floor < e /\ e <= ceil /\ Blank(e - 1)
    <3>1. PICK p \in window : Blank(p) /\ e = p + 1
      OBVIOUS
    <3>2. e \in Nat /\ e - 1 = p + 1 - 1 /\ floor < e /\ e <= ceil
      BY <2>1, <3>1
    <3> QED BY <2>4, <3>1, <3>2
  <2> QED BY <2>3, <2>5
<1>3. ASSUME NEW P \in SUBSET P3, P # {}
      PROVE  Max(P) \in P3
  <2> HIDE DEF P3
  <2>1. P \in SUBSET Nat /\ \A e \in P : e <= ceil
    BY <1>2
  <2> QED BY <1>3, <2>1, Extremes
<1>4. P3 = {} => \A p \in window : ~Blank(p)
  OBVIOUS
<1>5. end \in P3 \/ (P3 = {} /\ end = ceil)
  <2> HIDE DEF P1, P2, P3, end
  <2> QED BY <1>1, <1>2, <1>3
<1> HIDE DEF P1, P2, P3, end
<1> QED BY <1>2, <1>4, <1>5 DEF end

\* WordStart stays at the start of a word, or goes past the next blank, unless
\* there is none.
LEMMA WordStartIs ==
  ASSUME TypeOK, NEW p \in Nat
  PROVE  LET w == WordStart(p)
         IN /\ w \in Nat /\ p <= w
            /\ w # p => w <= Size /\ p < w /\ Blank(w - 1)
            /\ p = 0 \/ p >= Size \/ Blank(p - 1) => w = p
            /\ w = p => \/ p = 0 \/ p >= Size \/ Blank(p - 1)
                        \/ \A q \in p..(Size - 1) : ~Blank(q)
            /\ \A q \in p..(Size - 1) : Blank(q) => w <= q + 1
<1> DEFINE gaps == {q + 1 : q \in {q \in p..(Size - 1) : Blank(q)}}
           w == WordStart(p)
<1>1. w = IF p = 0 \/ p >= Size \/ Blank(p - 1) \/ gaps = {} THEN p ELSE Min(gaps)
  BY DEF WordStart
<1>2. Size \in Nat
  BY DEF TypeOK, Size
<1>3. /\ gaps \in SUBSET Nat
      /\ \A g \in gaps : p < g /\ g <= Size /\ Blank(g - 1)
      /\ \A q \in p..(Size - 1) : Blank(q) => q + 1 \in gaps /\ p <= q + 1
      /\ gaps = {} => \A q \in p..(Size - 1) : ~Blank(q)
  <2>1. \A q \in p..(Size - 1) : q + 1 \in Nat /\ p < q + 1 /\ q + 1 <= Size /\ q + 1 - 1 = q
    BY <1>2
  <2>2. ASSUME NEW q \in p..(Size - 1), Blank(q)
        PROVE  q + 1 \in Nat /\ p < q + 1 /\ q + 1 <= Size /\ Blank(q + 1 - 1)
    BY <2>1, <2>2
  <2>3. \A q \in p..(Size - 1) : p <= q + 1
    BY <1>2
  <2> QED BY <2>2, <2>3
<1> HIDE DEF gaps, w
<1>4. CASE p = 0 \/ p >= Size \/ Blank(p - 1) \/ gaps = {}
  BY <1>1, <1>3, <1>4 DEF w
<1>5. CASE ~(p = 0 \/ p >= Size \/ Blank(p - 1) \/ gaps = {})
  <2>1. w \in gaps /\ \A g \in gaps : w <= g
    BY <1>1, <1>3, <1>5, Extremes
  <2>2. w \in Nat /\ p < w /\ w <= Size /\ Blank(w - 1)
    BY <1>3, <2>1
  <2>3. w # p /\ p <= w
    BY <2>2
  <2> QED BY <1>3, <1>5, <2>1, <2>2, <2>3 DEF w
<1> QED BY <1>4, <1>5

LEMMA Letters ==
  ASSUME TypeOK
  PROVE  /\ Size \in Nat
         /\ \A p \in 0..(Size - 1) : InWord(p) <=> ~Blank(p)
         /\ \A p : InWord(p) => p \in 0..(Size - 1) /\ ~Blank(p)
  BY DEF TypeOK, Size, InWord

\* A stretch starts a word and ends one.
LEMMA StretchIs ==
  ASSUME TypeOK, NEW s \in Stretches
  PROVE  /\ s.from \in 0..(Size - 1) /\ s.to \in 1..Size /\ s.from < s.to
         /\ s.from \in WordStarts /\ InWord(s.from) /\ InWord(s.to - 1)
         /\ s.from # 0 => s.from - 1 \in 0..(Size - 1) /\ Blank(s.from - 1)
<1>1. s.from \in WordStarts /\ s.to \in 1..Size /\ InWord(s.to - 1) /\ s.from < s.to
  BY DEF Stretches
<1>2. s.from \in 0..(Size - 1) /\ InWord(s.from) /\ ~InWord(s.from - 1)
  BY <1>1 DEF WordStarts
<1>3. s.from # 0 => s.from - 1 \in 0..(Size - 1)
  BY <1>2, Letters
<1> QED BY <1>1, <1>2, <1>3, Letters

\* No word between p and the word start found from there.
LEMMA NothingSkipped ==
  ASSUME TypeOK, NEW s \in Stretches, NEW p \in Nat, p <= s.from
  PROVE  WordStart(p) <= s.from
<1>1. /\ s.from \in 0..(Size - 1) /\ Size \in Nat
      /\ s.from # 0 => s.from - 1 \in 0..(Size - 1) /\ Blank(s.from - 1)
  BY StretchIs, Letters
<1>2. CASE p = s.from
  <2>1. p = 0 \/ Blank(p - 1)
    BY <1>1, <1>2
  <2>2. WordStart(p) = p
    BY <2>1, WordStartIs
  <2> QED BY <1>1, <1>2, <2>2
<1>3. CASE p # s.from
  <2>1. s.from - 1 \in p..(Size - 1) /\ Blank(s.from - 1) /\ s.from - 1 + 1 = s.from
    BY <1>1, <1>3
  <2>2. WordStart(p) <= s.from - 1 + 1
    BY <2>1, WordStartIs
  <2> QED BY <2>1, <2>2
<1> QED BY <1>2, <1>3

-----------------------------------------------------------------------------
(* One window.                                                             *)

\* What both ways of cutting see to: the window has something in it and fits,
\* the next one starts after it has, at a word or in unbroken text, and no small
\* stretch that is not whole in this window begins before the next.
CutOK(end, next) ==
  /\ end \in Nat /\ from < end /\ end <= Size /\ Extent(from, end) <= Window
  /\ end # Size =>
       /\ next \in Nat /\ from < next
       /\ next <= end \/ ~InWord(next - 1)
       /\ InWord(next) /\ InWord(next - 1) =>
            \A p \in next..end : InWord(p) \/ p = Size
       /\ \A s \in Stretches : Small(s) /\ from <= s.from /\ end < s.to => next <= s.from

\* The next window starts where WordStart moves p to.
LEMMA StartOK ==
  ASSUME TypeOK, NEW p \in Nat, NEW end \in Nat, end <= Size, p <= end
  PROVE  LET next == WordStart(p)
         IN /\ next \in Nat /\ p <= next
            /\ next <= end \/ ~InWord(next - 1)
            /\ InWord(next) /\ InWord(next - 1) => \A q \in next..end : InWord(q) \/ q = Size
<1> DEFINE next == WordStart(p)
<1>1. next \in Nat /\ p <= next /\ Size \in Nat
  BY WordStartIs, Letters
<1>2. CASE next # p
  <2>1. Blank(next - 1) /\ p < next
    BY <1>2, WordStartIs
  <2>2. ~InWord(next - 1)
    BY <2>1 DEF InWord
  <2> QED BY <1>1, <2>2
<1>3. CASE next = p
  <2>1. ASSUME InWord(next), InWord(next - 1)
        PROVE  \A q \in next..end : InWord(q) \/ q = Size
    <3>1. next \in 0..(Size - 1) /\ next - 1 \in 0..(Size - 1) /\ ~Blank(next - 1)
      BY <2>1, Letters
    <3>2. \A q \in p..(Size - 1) : ~Blank(q)
      <4>1. ~(p = 0 \/ p >= Size \/ Blank(p - 1))
        BY <1>1, <1>3, <3>1
      <4> QED BY <1>3, <4>1, WordStartIs
    <3>3. \A q \in p..(Size - 1) : InWord(q)
      BY <1>1, <3>2, Letters
    <3>4. \A q \in p..end : q \in p..(Size - 1) \/ q = Size
      BY <1>1
    <3> QED BY <1>3, <3>3, <3>4
  <2> QED BY <1>1, <1>3, <2>1
<1> QED BY <1>2, <1>3

\* A word that runs over a break holds all from the floor to the ceiling.
LEMMA BrokenWord ==
  ASSUME TypeOK, NEW floor \in Nat, NEW ceil \in Nat, floor < ceil, ceil <= Size,
         NEW s \in Stretches, OneWord(s),
         s.from < FindBreak(floor, ceil), FindBreak(floor, ceil) < s.to
  PROVE  s.from <= floor /\ FindBreak(floor, ceil) = ceil
<1> DEFINE end == FindBreak(floor, ceil)
<1>1. /\ end \in Nat /\ floor < end /\ end <= ceil
      /\ Blank(end - 1) \/ (end = ceil /\ \A p \in floor..(ceil - 1) : ~Blank(p))
  BY FindBreakIs
<1>2. /\ s.from \in 0..(Size - 1) /\ s.to \in 1..Size /\ Size \in Nat
      /\ s.from # 0 => Blank(s.from - 1)
  BY StretchIs, Letters
<1> HIDE DEF end
<1>3. s.from < end /\ end < s.to
  BY DEF end
<1>4. InWord(end - 1)
  <2>1. end - 1 \in s.from..(s.to - 1)
    BY <1>1, <1>2, <1>3
  <2> QED BY <2>1 DEF OneWord
<1>5. end = ceil /\ \A p \in floor..(ceil - 1) : ~Blank(p)
  BY <1>1, <1>4 DEF InWord
<1>6. s.from <= floor
  <2> SUFFICES ASSUME floor < s.from PROVE FALSE
    BY <1>2
  <2>1. s.from - 1 \in floor..(ceil - 1) /\ s.from # 0
    BY <1>2, <1>3, <1>5
  <2> QED BY <1>2, <1>5, <2>1
<1> QED BY <1>5, <1>6 DEF end

LEMMA CharsCut ==
  ASSUME TypeOK, StartsOK, CursorOK, pc = "chars", ~Short
  PROVE  CutOK(EndChars, AfterChars(EndChars))
<1> DEFINE end == EndChars
           half == ChunkChars \div 2
           back == IF end - OverlapChars > from THEN end - OverlapChars ELSE from + 1
<1>1. /\ ChunkChars \in Nat /\ OverlapChars \in Nat \ {0} /\ 2 * OverlapChars < ChunkChars
      /\ half \in Nat /\ 2 * half <= ChunkChars /\ ChunkChars <= 2 * half + 1
  BY ChunkerAssumption, HalfIs
<1>2. Size \in Nat /\ from \in Nat /\ from < Size
  <2>1. Size \in Nat /\ from \in Nat /\ (from = 0 \/ from < Size)
    BY Letters DEF TypeOK, CursorOK, Cutting
  <2>2. Size > ChunkChars
    BY <1>1, <2>1 DEF Short
  <2> QED BY <1>1, <2>1, <2>2
<1>3. ~ByTokens
  BY DEF StartsOK, ByTokens
<1>4. Window = ChunkChars /\ Overlap = OverlapChars /\ \A a, b : Extent(a, b) = b - a
  BY <1>3 DEF Window, Overlap, Extent
<1>5. CASE from + ChunkChars >= Size
  <2>1. end = Size
    BY <1>5 DEF EndChars
  <2>2. Size - from <= ChunkChars
    BY <1>1, <1>2, <1>5
  <2> QED BY <1>2, <1>4, <2>1, <2>2 DEF CutOK
<1>6. CASE ~(from + ChunkChars >= Size)
  <2> DEFINE floor == from + half
             ceil == from + ChunkChars
  <2>1. end = FindBreak(floor, ceil)
    BY <1>6 DEF EndChars
  <2>2. floor \in Nat /\ ceil \in Nat /\ floor < ceil /\ ceil <= Size
    BY <1>1, <1>2, <1>6
  <2>3. end \in Nat /\ floor < end /\ end <= ceil
    <3> HIDE DEF floor, ceil, end
    <3> QED BY <2>1, <2>2, FindBreakIs
  <2> HIDE DEF end
  <2>4. end - OverlapChars > from
    BY <1>1, <1>2, <2>3
  <2>5. back \in Nat /\ from < back /\ back <= end /\ back = end - OverlapChars /\ end <= Size
    BY <1>1, <1>2, <2>2, <2>3, <2>4
  <2>6. AfterChars(end) = WordStart(back)
    BY DEF AfterChars
  <2> HIDE DEF back
  <2>7. /\ WordStart(back) \in Nat /\ back <= WordStart(back)
        /\ WordStart(back) <= end \/ ~InWord(WordStart(back) - 1)
        /\ InWord(WordStart(back)) /\ InWord(WordStart(back) - 1) =>
             \A q \in WordStart(back)..end : InWord(q) \/ q = Size
    BY <2>3, <2>5, StartOK
  <2>8. from < WordStart(back)
    BY <1>2, <2>5, <2>7
  <2>9. ASSUME NEW s \in Stretches, Small(s), from <= s.from, end < s.to
        PROVE  WordStart(back) <= s.from
    <3>1. s.from \in Nat /\ s.to \in Nat
      BY <1>2, StretchIs
    <3>2. s.from >= back
      <4>1. CASE s.from >= end
        BY <2>3, <2>5, <3>1, <4>1
      <4>2. CASE s.from < end /\ OneWord(s) /\ Extent(s.from, s.to) <= Window \div 2
        <5>1. s.from <= floor /\ end = ceil
          <6> HIDE DEF floor, ceil
          <6> QED BY <2>1, <2>2, <2>9, <4>2, BrokenWord
        <5>2. s.to - s.from <= half
          BY <1>4, <4>2
        <5> QED BY <1>1, <1>2, <2>9, <3>1, <5>1, <5>2
      <4>3. CASE Extent(s.from, s.to + 1) <= Overlap
        <5>1. s.to + 1 - s.from <= OverlapChars
          <6>1. Extent(s.from, s.to + 1) = (s.to + 1) - s.from
            BY <1>4
          <6>2. Extent(s.from, s.to + 1) <= OverlapChars
            BY <1>4, <4>3
          <6> QED BY <1>1, <3>1, <6>1, <6>2
        <5> QED BY <1>1, <2>3, <2>5, <2>9, <3>1, <5>1
      <4>4. s.from >= end \/ s.from < end
        BY <2>3, <3>1
      <4> QED BY <2>9, <4>1, <4>2, <4>3, <4>4 DEF Small
    <3> QED BY <2>5, <3>1, <3>2, NothingSkipped
  <2>10. Extent(from, end) <= Window
    BY <1>1, <1>2, <1>4, <2>3
  <2>11. from < end
    BY <1>1, <1>2, <2>3
  <2> QED BY <2>3, <2>5, <2>6, <2>7, <2>8, <2>9, <2>10, <2>11 DEF CutOK, end
<1> QED BY <1>5, <1>6

LEMMA TokensCut ==
  ASSUME TypeOK, StartsOK, CursorOK, pc = "tokens", ~Short
  PROVE  /\ CutOK(EndTokens, AfterTokens(EndTokens).from)
         /\ EndTokens # Size =>
              AfterTokens(EndTokens).tok = TokenAt(AfterTokens(EndTokens).from)
<1> DEFINE end == EndTokens
           half == ChunkTokens \div 2
           N == Len(starts)
<1>1. /\ ChunkTokens \in Nat /\ OverlapTokens \in Nat \ {0} /\ 2 * OverlapTokens < ChunkTokens
      /\ half \in Nat /\ 2 * half <= ChunkTokens /\ ChunkTokens <= 2 * half + 1
      /\ OverlapTokens <= half /\ half >= 1
  <2>1. /\ ChunkTokens \in Nat /\ OverlapTokens \in Nat \ {0} /\ 2 * OverlapTokens < ChunkTokens
        /\ half \in Nat /\ 2 * half <= ChunkTokens /\ ChunkTokens <= 2 * half + 1
    BY ChunkerAssumption, HalfIs
  <2> HIDE DEF half
  <2> QED BY <2>1
<1>2. /\ N \in Nat /\ N > ChunkTokens /\ DOMAIN starts = 1..N
      /\ \A k \in 1..N : starts[k] \in Nat /\ starts[k] < Size
      /\ \A j, k \in 1..N : j < k => starts[j] < starts[k]
  <2>1. N \in Nat /\ DOMAIN starts = 1..N
    BY DEF TypeOK
  <2>2. \A k \in 1..N : starts[k] \in Nat
    BY <2>1, InSeq DEF TypeOK
  <2>3. N > ChunkTokens
    BY <1>1, <2>1 DEF Short
  <2> QED BY <2>1, <2>2, <2>3 DEF StartsOK
<1> HIDE DEF half, N
<1>3. Size \in Nat /\ from \in Nat /\ tok \in Nat /\ from < Size
  <2>1. Size \in Nat /\ from \in Nat /\ tok \in Nat /\ (from = 0 \/ from < Size)
    BY Letters DEF TypeOK, CursorOK, Cutting
  <2>2. 1 \in 1..N
    BY <1>1, <1>2
  <2>3. Size > 0
    BY <1>2, <2>1, <2>2
  <2> QED BY <2>1, <2>3
<1>4. tok \in 0..N /\ \A k \in 1..N : starts[k] < from <=> k <= tok
  BY <1>2, <1>3, TokenAtIs DEF CursorOK, N
<1>5. ByTokens
  BY <1>1, <1>2 DEF ByTokens, N
<1>6. Window = ChunkTokens /\ Overlap = OverlapTokens
      /\ \A a, b : Extent(a, b) = TokensIn(a, b)
  BY <1>5 DEF Window, Overlap, Extent
\* A window has the tokens from tok + 1 to the last before its end.
<1>7. ASSUME NEW e \in Nat, NEW j \in Nat, tok <= j, j <= tok + ChunkTokens,
             \A k \in 1..N : starts[k] < e => k <= j
      PROVE  Extent(from, e) <= Window
  <2> DEFINE T == {k \in DOMAIN starts : starts[k] \in from..(e - 1)}
  <2>1. T \subseteq (tok + 1)..j
    <3> SUFFICES ASSUME NEW k \in 1..N, starts[k] \in from..(e - 1)
                 PROVE  k \in (tok + 1)..j
      BY <1>2
    <3>1. starts[k] >= from /\ starts[k] < e /\ starts[k] \in Nat
      BY <1>2, <1>3
    <3>2. ~(starts[k] < from)
      BY <1>3, <3>1
    <3>3. ~(k <= tok) /\ k <= j
      BY <1>4, <1>7, <3>1, <3>2
    <3> QED BY <1>2, <1>3, <3>3
  <2>2. tok + 1 \in Nat /\ tok + 1 <= j + 1
    BY <1>3, <1>7
  <2> HIDE DEF T
  <2>3. TokensIn(from, e) <= j - (tok + 1) + 1
    BY <2>1, <2>2, TokensInIs DEF T
  <2>4. TokensIn(from, e) \in Nat
    BY <2>2, TokensInIs
  <2> QED BY <1>1, <1>3, <1>6, <1>7, <2>3, <2>4
<1>8. CASE tok + ChunkTokens >= N
  <2>1. end = Size
    BY <1>8 DEF EndTokens, N
  <2>2. Extent(from, Size) <= Window
    <3>1. tok <= N /\ N <= tok + ChunkTokens
      BY <1>1, <1>2, <1>3, <1>4, <1>8
    <3>2. \A k \in 1..N : starts[k] < Size => k <= N
      BY <1>2
    <3> QED BY <1>2, <1>3, <1>7, <3>1, <3>2
  <2> QED BY <1>3, <2>1, <2>2 DEF CutOK
<1>9. CASE ~(tok + ChunkTokens >= N)
  <2> DEFINE floor == FloorTokens
             ceil == Start(tok + ChunkTokens)
             last == TokenAt(end)
             back == last - OverlapTokens
             next == WordStart(Start(back))
  <2>1. tok + half + 1 \in 1..N /\ tok + ChunkTokens + 1 \in 1..N /\ tok + 1 \in 1..N
        /\ tok + half < tok + ChunkTokens
    BY <1>1, <1>2, <1>3, <1>9
  <2>2. starts[tok + 1] \in Nat /\ from <= starts[tok + 1]
    <3>1. ~(tok + 1 <= tok) /\ starts[tok + 1] \in Nat
      BY <1>2, <1>3, <2>1
    <3>2. ~(starts[tok + 1] < from)
      BY <1>4, <2>1, <3>1
    <3> QED BY <1>3, <3>1, <3>2
  <2>3. floor = starts[tok + half + 1] /\ ceil = starts[tok + ChunkTokens + 1]
    <3>1. starts[tok + 1] < starts[tok + half + 1] /\ starts[tok + half + 1] \in Nat
      BY <1>1, <1>2, <1>3, <2>1
    <3>2. Start(tok + half) = starts[tok + half + 1]
      BY DEF Start
    <3>3. starts[tok + half + 1] > from
      BY <1>3, <2>2, <3>1
    <3> QED BY <3>2, <3>3 DEF FloorTokens, Start, half
  <2>4. floor \in Nat /\ ceil \in Nat /\ floor < ceil /\ ceil < Size /\ from < floor
    <3>1. starts[tok + 1] < starts[tok + half + 1] /\ starts[tok + half + 1] < starts[tok + ChunkTokens + 1]
      BY <1>1, <1>2, <1>3, <2>1
    <3>2. starts[tok + half + 1] \in Nat /\ starts[tok + ChunkTokens + 1] \in Nat
          /\ starts[tok + ChunkTokens + 1] < Size
      BY <1>2, <2>1
    <3> HIDE DEF floor, ceil
    <3> QED BY <1>3, <2>2, <2>3, <3>1, <3>2
  <2>5. end = FindBreak(floor, ceil)
    BY <1>9 DEF EndTokens, N
  <2> HIDE DEF floor, ceil, end
  <2>6. end \in Nat /\ floor < end /\ end <= ceil /\ end < Size /\ from < end
    <3>1. end \in Nat /\ floor < end /\ end <= ceil
      BY <2>4, <2>5, FindBreakIs
    <3> QED BY <1>3, <2>4, <3>1
\* At least half a window lies before the end, so that an overlap back is still
\* past the start.
  <2>7. last \in 0..N /\ \A k \in 1..N : starts[k] < end <=> k <= last
    BY <1>2, <2>6, TokenAtIs DEF N
  <2>8. last >= tok + half + 1 /\ last <= tok + ChunkTokens
    <3>1. tok + half + 1 <= last
      BY <2>1, <2>3, <2>6, <2>7
    <3>2. ~(starts[tok + ChunkTokens + 1] < end)
      BY <2>3, <2>4, <2>6
    <3>3. ~(tok + ChunkTokens + 1 <= last)
      BY <2>1, <2>7, <3>2
    <3> QED BY <1>1, <1>2, <1>3, <2>7, <3>1, <3>3
  <2>9. Extent(from, end) <= Window
    <3>1. last \in Nat /\ tok <= last
      BY <1>1, <1>2, <1>3, <2>7, <2>8
    <3> QED BY <1>7, <2>6, <2>7, <2>8, <3>1
  <2>10. back \in Nat /\ back >= tok + 1 /\ back < last /\ back + 1 \in 1..N /\ ~(last < OverlapTokens)
    BY <1>1, <1>2, <1>3, <2>7, <2>8
  <2>11. Start(back) = starts[back + 1] /\ starts[back + 1] \in Nat
         /\ from < starts[back + 1] /\ starts[back + 1] < end
    <3>1. starts[tok + 1] < starts[back + 1] /\ starts[back + 1] \in Nat
      BY <1>2, <1>3, <2>1, <2>10
    <3>2. starts[back + 1] < end
      BY <2>7, <2>10
    <3> QED BY <1>3, <2>2, <3>1, <3>2 DEF Start
  <2> HIDE DEF back
  <2>12. /\ next \in Nat /\ Start(back) <= next
         /\ next <= end \/ ~InWord(next - 1)
         /\ InWord(next) /\ InWord(next - 1) => \A q \in next..end : InWord(q) \/ q = Size
    <3>1. Start(back) \in Nat /\ Start(back) <= end /\ end <= Size
      BY <1>3, <2>6, <2>11
    <3> QED BY <2>6, <3>1, StartOK
  <2>13. from < next
    BY <1>3, <2>11, <2>12
  <2>14. AfterTokens(end) = [from |-> next, tok |-> TokenAt(next)]
    <3>1. back < Len(starts)
      BY <1>2, <2>7, <2>10 DEF N
    <3>2. ~(next <= from)
      BY <1>3, <2>12, <2>13
    <3>3. (IF last < OverlapTokens THEN 0 ELSE last - OverlapTokens) = back
      BY <2>10 DEF back
    <3> HIDE DEF last
    <3> QED BY <3>1, <3>2, <3>3 DEF AfterTokens, last
  <2>15. ASSUME NEW s \in Stretches, Small(s), from <= s.from, end < s.to
         PROVE  next <= s.from
    <3>1. s.from \in Nat /\ s.to \in Nat /\ s.from \in WordStarts
      BY <1>3, StretchIs
    <3>2. s.from >= starts[back + 1]
      <4>1. CASE s.from >= end
        BY <2>6, <2>11, <3>1, <4>1
      <4>2. CASE s.from < end /\ OneWord(s) /\ Extent(s.from, s.to) <= Window \div 2
        <5>1. s.from <= floor /\ end = ceil
          <6>1. ceil <= Size
            BY <1>3, <2>4
          <6> QED BY <2>4, <2>5, <2>15, <4>2, <6>1, BrokenWord
        <5> DEFINE T == {k \in DOMAIN starts : starts[k] \in s.from..(s.to - 1)}
                   i == tok + half + 1
                   j == tok + ChunkTokens + 1
        <5>2. i..j \subseteq T
          <6> SUFFICES ASSUME NEW k \in i..j PROVE k \in 1..N /\ starts[k] \in s.from..(s.to - 1)
            BY <1>2
          <6>1. k \in 1..N /\ i \in 1..N /\ j \in 1..N /\ i <= k /\ k <= j
            BY <1>2, <2>1
          <6> HIDE DEF i, j
          <6>2. starts[i] <= starts[k] /\ starts[k] <= starts[j]
            <7>1. i = k \/ i < k
              BY <6>1
            <7>2. j = k \/ k < j
              BY <6>1
            <7>3. starts[i] \in Nat /\ starts[k] \in Nat /\ starts[j] \in Nat
              BY <1>2, <6>1
            <7> QED BY <1>2, <6>1, <7>1, <7>2, <7>3
          <6>3. starts[i] = floor /\ starts[j] = end
            BY <2>3, <5>1 DEF i, j
          <6> QED BY <1>2, <2>4, <2>6, <2>15, <3>1, <5>1, <6>1, <6>2, <6>3
        <5>3. i \in Nat /\ j \in Nat /\ i <= j + 1
          BY <1>1, <1>3
        <5> HIDE DEF T, i, j
        <5>4. TokensIn(s.from, s.to) >= j - i + 1 /\ TokensIn(s.from, s.to) \in Nat
          BY <5>2, <5>3, TokensInIs DEF T
        <5>5. TokensIn(s.from, s.to) <= half
          BY <1>6, <4>2 DEF half
        <5> QED BY <1>1, <1>3, <5>4, <5>5 DEF i, j
      <4>3. CASE Extent(s.from, s.to + 1) <= Overlap
        <5> SUFFICES ASSUME s.from < starts[back + 1] PROVE FALSE
          BY <2>11, <3>1
        <5>1. PICK i \in 1..N : starts[i] = s.from
          BY <1>2, <3>1 DEF StartsOK
        <5>2. i <= back
          <6> SUFFICES ASSUME back + 1 <= i PROVE FALSE
            BY <2>10
          <6>1. starts[back + 1] <= starts[i]
            <7>1. back + 1 = i \/ back + 1 < i
              BY <2>10
            <7>2. starts[back + 1] \in Nat /\ starts[i] \in Nat
              BY <1>2, <2>10
            <7> QED BY <1>2, <2>10, <7>1, <7>2
          <6> QED BY <2>11, <3>1, <5>1, <6>1
        <5> DEFINE b == s.to + 1
                   T == {k \in DOMAIN starts : starts[k] \in s.from..(b - 1)}
        <5>3. i..last \subseteq T
          <6> SUFFICES ASSUME NEW k \in i..last
                       PROVE  k \in 1..N /\ starts[k] \in s.from..(b - 1)
            BY <1>2
          <6>1. k \in 1..N /\ i <= k /\ k <= last
            BY <1>2, <2>7
          <6>2. starts[i] <= starts[k] /\ starts[k] \in Nat
            <7>1. i = k \/ i < k
              BY <6>1
            <7>2. starts[k] \in Nat /\ starts[i] \in Nat
              BY <1>2, <6>1
            <7> QED BY <1>2, <6>1, <7>1, <7>2
          <6>3. starts[k] < end
            BY <2>7, <6>1
          <6> QED BY <2>6, <2>15, <3>1, <5>1, <6>1, <6>2, <6>3
        <5>4. i \in Nat /\ last \in Nat /\ i <= last + 1
          BY <1>2, <2>7, <2>10, <5>2
        <5> HIDE DEF T, b, last
        <5>5. TokensIn(s.from, b) >= last - i + 1 /\ TokensIn(s.from, b) \in Nat
          BY <5>3, <5>4, TokensInIs DEF T
        <5>6. TokensIn(s.from, b) <= OverlapTokens
          BY <1>6, <4>3 DEF b
        <5>7. back = last - OverlapTokens
          BY DEF back
        <5> QED BY <1>1, <2>10, <5>2, <5>4, <5>5, <5>6, <5>7
      <4>4. s.from >= end \/ s.from < end
        BY <2>6, <3>1
      <4> QED BY <2>15, <4>1, <4>2, <4>3, <4>4 DEF Small
    <3>3. Start(back) \in Nat /\ Start(back) <= s.from
      BY <2>11, <3>2
    <3> QED BY <3>3, NothingSkipped
  <2> HIDE DEF next
  <2>16. AfterTokens(end).from = next /\ AfterTokens(end).tok = TokenAt(next)
    BY <2>14
  <2>17. CutOK(end, next)
    <3>1. end <= Size
      BY <1>3, <2>6
    <3> QED BY <2>6, <2>9, <2>12, <2>13, <2>15, <3>1 DEF CutOK, next
  <2> QED BY <2>16, <2>17 DEF end
<1> QED BY <1>8, <1>9

-----------------------------------------------------------------------------
(* The tokenizer's answer.                                                 *)

Token(S, p) == InWord(p) /\ p - Max({q \in WordStarts : q <= p}) \in {0} \cup S

\* The recursion of TokensOf, unfolded.
LEMMA TokensBefore ==
  ASSUME TypeOK, NEW S
  PROVE  \E before :
           /\ before[0] = <<>>
           /\ \A n \in 1..Size :
                before[n] = IF Token(S, n - 1) THEN Append(before[n-1], n - 1) ELSE before[n-1]
           /\ TokensOf(S) = before[Size]
<1> DEFINE More(s, n) == IF Token(S, n - 1) THEN Append(s, n - 1) ELSE s
           At(f, n) == IF n = 0 THEN <<>> ELSE More(f[n-1], n)
           Before(f, m) == f = [n \in 0..m |-> At(f, n)]
           G == {m \in Nat : \E f : Before(f, m)}
<1>1. 0 \in G
  <2> DEFINE f == [n \in 0..0 |-> <<>>]
  <2>1. \A n \in 0..0 : n = 0
    OBVIOUS
  <2>2. Before(f, 0)
    BY <2>1
  <2> QED BY <2>2
<1>2. ASSUME NEW m \in Nat, m \in G
      PROVE  m + 1 \in G
  <2>1. PICK f : Before(f, m)
    BY <1>2
  <2> HIDE DEF More
  <2> DEFINE h == [n \in 0..(m+1) |-> IF n = m + 1 THEN More(f[m], n) ELSE f[n]]
  <2>2. ASSUME NEW n \in 0..(m+1)
        PROVE  h[n] = At(h, n)
    <3>1. CASE n = m + 1
      <4>1. n - 1 = m /\ n # 0 /\ m \in 0..(m+1) /\ m # m + 1
        BY <3>1
      <4>2. h[n - 1] = f[m]
        BY <4>1
      <4> QED BY <3>1, <4>1, <4>2
    <3>2. CASE n # m + 1 /\ n # 0
      <4>1. n \in 0..m /\ n - 1 \in 0..(m+1) /\ n - 1 # m + 1
        BY <3>2
      <4>2. f[n] = More(f[n-1], n)
        BY <2>1, <3>2, <4>1
      <4> QED BY <3>2, <4>1, <4>2
    <3>3. CASE n = 0
      <4>1. n \in 0..m /\ n # m + 1
        BY <3>3
      <4>2. f[n] = <<>>
        BY <2>1, <3>3, <4>1
      <4> QED BY <3>3, <4>1, <4>2
    <3> QED BY <3>1, <3>2, <3>3
  <2>3. h = [n \in 0..(m+1) |-> h[n]]
    OBVIOUS
  <2> HIDE DEF h, At
  <2>4. Before(h, m + 1)
    BY <2>2, <2>3
  <2> QED BY <2>4
<1>3. Size \in G
  <2> HIDE DEF G
  <2> QED BY <1>1, <1>2, Induction, Letters
<1> DEFINE before == CHOOSE f : Before(f, Size)
<1>4. Before(before, Size)
  <2>1. \E f : Before(f, Size)
    BY <1>3
  <2> HIDE DEF Before
  <2> QED BY <2>1
<1>5. TokensOf(S) = before[Size]
  BY DEF TokensOf, Token
<1> HIDE DEF before
<1> HIDE DEF More
<1>6. \A n \in 0..Size : before[n] = At(before, n)
  BY <1>4
<1>7. before[0] = <<>> /\ \A n \in 1..Size : before[n] = More(before[n-1], n)
  BY <1>6, Letters
<1> QED BY <1>5, <1>7 DEF More

LEMMA TokensOfIs ==
  ASSUME TypeOK, NEW S
  PROVE  LET T == TokensOf(S)
         IN /\ T \in Seq(Nat)
            /\ \A j, k \in DOMAIN T : j < k => T[j] < T[k]
            /\ \A k \in DOMAIN T : T[k] < Size
            /\ \A p \in WordStarts : \E k \in DOMAIN T : T[k] = p
<1>1. PICK before :
        /\ before[0] = <<>>
        /\ \A n \in 1..Size :
             before[n] = IF Token(S, n - 1) THEN Append(before[n-1], n - 1) ELSE before[n-1]
        /\ TokensOf(S) = before[Size]
  BY TokensBefore
<1>2. Size \in Nat
  BY Letters
<1> DEFINE Good(T, n) ==
             /\ T \in Seq(Nat)
             /\ \A j, k \in DOMAIN T : j < k => T[j] < T[k]
             /\ \A k \in DOMAIN T : T[k] < n
             /\ \A p \in 0..(n - 1) : Token(S, p) => \E k \in DOMAIN T : T[k] = p
           G == {n \in Nat : n <= Size => Good(before[n], n)}
<1>3. 0 \in G
  <2>1. before[0] \in Seq(Nat) /\ DOMAIN before[0] = {}
    BY <1>1
  <2>2. 0..(0 - 1) = {}
    OBVIOUS
  <2> QED BY <2>1, <2>2
<1>4. ASSUME NEW n \in Nat, n \in G
      PROVE  n + 1 \in G
  <2> SUFFICES ASSUME n + 1 <= Size PROVE Good(before[n+1], n + 1)
    <3> HIDE DEF Good
    <3> QED OBVIOUS
  <2>1. Good(before[n], n)
    BY <1>2, <1>4
  <2>2. before[n+1] = IF Token(S, n) THEN Append(before[n], n) ELSE before[n]
    <3>1. n + 1 \in 1..Size /\ n + 1 - 1 = n
      BY <1>2
    <3> QED BY <1>1, <3>1
  <2> DEFINE T == before[n]
             U == before[n+1]
  <2> HIDE DEF T, U
  <2>3. /\ T \in Seq(Nat) /\ \A k \in DOMAIN T : T[k] \in Nat /\ T[k] < n
        /\ \A j, k \in DOMAIN T : j < k => T[j] < T[k]
        /\ \A p \in 0..(n - 1) : Token(S, p) => \E k \in DOMAIN T : T[k] = p
    BY <2>1, InSeq DEF T
  <2>4. \A p \in 0..(n + 1 - 1) : p \in 0..(n - 1) \/ p = n
    OBVIOUS
  <2>5. CASE ~Token(S, n)
    <3>1. U = T
      BY <2>2, <2>5 DEF T, U
    <3>2. \A k \in DOMAIN T : T[k] < n + 1
      BY <2>3
    <3>3. \A p \in 0..(n + 1 - 1) : Token(S, p) => \E k \in DOMAIN T : T[k] = p
      BY <2>3, <2>4, <2>5
    <3> QED BY <2>3, <3>1, <3>2, <3>3 DEF U
  <2>6. CASE Token(S, n)
    <3>1. U = Append(T, n)
      BY <2>2, <2>6 DEF T, U
    <3>2. /\ U \in Seq(Nat) /\ Len(T) \in Nat /\ DOMAIN T = 1..Len(T) /\ DOMAIN U = 1..(Len(T) + 1)
          /\ \A k \in DOMAIN T : k \in DOMAIN U /\ k <= Len(T) /\ U[k] = T[k]
          /\ U[Len(T) + 1] = n
      BY <2>3, <3>1, AppendIs
    <3>3. \A j, k \in DOMAIN U : j < k => U[j] < U[k]
      <4> SUFFICES ASSUME NEW j \in DOMAIN U, NEW k \in DOMAIN U, j < k PROVE U[j] < U[k]
        OBVIOUS
      <4>1. j \in DOMAIN T /\ (k \in DOMAIN T \/ k = Len(T) + 1)
        BY <3>2
      <4>2. CASE k \in DOMAIN T
        BY <2>3, <3>2, <4>1, <4>2
      <4>3. CASE k = Len(T) + 1
        BY <2>3, <3>2, <4>1, <4>3
      <4> QED BY <4>1, <4>2, <4>3
    <3>4. \A k \in DOMAIN U : U[k] < n + 1
      <4> SUFFICES ASSUME NEW k \in DOMAIN U PROVE U[k] < n + 1
        OBVIOUS
      <4>1. k \in DOMAIN T \/ k = Len(T) + 1
        BY <3>2
      <4> QED BY <2>3, <3>2, <4>1
    <3>5. \A p \in 0..(n + 1 - 1) : Token(S, p) => \E k \in DOMAIN U : U[k] = p
      <4>1. Len(T) + 1 \in DOMAIN U
        BY <3>2
      <4> QED BY <2>3, <2>4, <3>2, <4>1
    <3> QED BY <3>2, <3>3, <3>4, <3>5 DEF U
  <2> QED BY <2>5, <2>6
<1>5. Good(before[Size], Size)
  <2> HIDE DEF Good
  <2>1. Nat \subseteq G
    <3> HIDE DEF G
    <3> QED BY <1>3, <1>4, Induction
  <2> QED BY <1>2, <2>1
<1>6. ASSUME NEW p \in WordStarts
      PROVE  p \in 0..(Size - 1) /\ Token(S, p)
  <2>1. p \in 0..(Size - 1) /\ InWord(p)
    BY DEF WordStarts
  <2> DEFINE W == {q \in WordStarts : q <= p}
  <2>2. W \in SUBSET Nat /\ p \in W /\ \A q \in W : q <= p
    BY <1>2, <2>1 DEF WordStarts
  <2> HIDE DEF W
  <2>3. Max(W) = p
    <3>1. Max(W) \in W /\ p <= Max(W)
      BY <2>1, <2>2, Extremes
    <3>2. Max(W) <= p /\ Max(W) \in Nat /\ p \in Nat
      BY <2>2, <3>1
    <3> QED BY <3>1, <3>2
  <2>4. p - Max(W) = 0
    BY <1>2, <2>1, <2>3
  <2> QED BY <2>1, <2>4 DEF Token, W
<1> HIDE DEF G
<1> QED BY <1>1, <1>5, <1>6

-----------------------------------------------------------------------------
(* The steps.                                                              *)

\* While the text and its tokens stay, so does what is said of them.
LEMMA Kept ==
  ASSUME UNCHANGED <<text, starts>>
  PROVE  /\ Size' = Size /\ Window' = Window /\ Overlap' = Overlap /\ Stretches' = Stretches
         /\ WordStarts' = WordStarts /\ \A p : InWord(p)' <=> InWord(p)
         /\ \A a, b : Extent(a, b)' = Extent(a, b)
         /\ \A s : Small(s)' <=> Small(s)
         /\ \A p : TokenAt(p)' = TokenAt(p)
<1>1. Size' = Size
  BY DEF Size
<1>2. \A p : InWord(p)' <=> InWord(p)
  BY <1>1 DEF InWord, Blank
<1>3. WordStarts' = WordStarts
  BY <1>1, <1>2 DEF WordStarts
<1>4. Stretches' = Stretches
  BY <1>1, <1>2, <1>3 DEF Stretches
<1>5. Window' = Window /\ Overlap' = Overlap /\ (ByTokens' <=> ByTokens)
  BY DEF Window, Overlap, ByTokens
<1>6. \A a, b : Extent(a, b)' = Extent(a, b)
  BY <1>5 DEF Extent, TokensIn
<1>7. \A s : OneWord(s)' <=> OneWord(s)
  BY <1>2 DEF OneWord
<1>8. \A s : Small(s)' <=> Small(s)
  BY <1>5, <1>6, <1>7 DEF Small
<1>9. \A p : TokenAt(p)' = TokenAt(p)
  BY DEF TokenAt
<1> QED BY <1>1, <1>2, <1>3, <1>4, <1>5, <1>6, <1>8, <1>9

\* What a window adds to the pieces.
LEMMA WindowStep ==
  ASSUME Inv, Cutting, UNCHANGED <<text, starts>>,
         NEW end, NEW next, CutOK(end, next), pieces' = With(end)
  PROVE  /\ pieces' \in Seq([from : Nat, to : Nat]) /\ WithinBudget' /\ StartsAtWords'
         /\ \A s \in Stretches :
              Small(s) => Held(s.from, s.to)' \/ (end # Size /\ next <= s.from)
         /\ end # Size /\ pieces' # <<>> /\ InWord(next) /\ InWord(next - 1) =>
              \A p \in next..pieces'[Len(pieces')].to : InWord(p) \/ p = Size
<1>1. TypeOK /\ WithinBudget /\ StartsAtWords /\ NextStartsAtWord /\ HeldOrAhead
  BY DEF Inv
<1>2. from \in Nat /\ Size \in Nat /\ end \in Nat /\ from < end /\ end <= Size
  BY <1>1, Letters DEF TypeOK, CutOK
<1>3. /\ Size' = Size /\ Window' = Window /\ \A p : InWord(p)' <=> InWord(p)
      /\ \A a, b : Extent(a, b)' = Extent(a, b)
  BY Kept
\* A small stretch was held before, ends in this window, or starts in the next.
<1>4. ASSUME NEW s \in Stretches, Small(s)
      PROVE  \/ Held(s.from, s.to)
             \/ from <= s.from /\ s.to <= end
             \/ from <= s.from /\ end # Size /\ next <= s.from
  <2>1. s.from \in Nat /\ s.to \in Nat /\ s.to <= Size
    BY <1>2, <1>1, StretchIs
  <2>2. Held(s.from, s.to) \/ from <= s.from
    BY <1>1, <1>4 DEF HeldOrAhead, Cutting
  <2>3. s.to <= end \/ end < s.to
    BY <1>2, <2>1
  <2>4. end < s.to => end # Size
    BY <1>2, <2>1
  <2> QED BY <1>4, <2>2, <2>3, <2>4 DEF CutOK
<1>5. CASE \A p \in from..(end - 1) : ~InWord(p)
  <2>1. pieces' = pieces
    BY <1>5 DEF With
  <2>2. pieces' \in Seq([from : Nat, to : Nat]) /\ WithinBudget' /\ StartsAtWords'
    BY <1>1, <1>3, <2>1 DEF TypeOK, WithinBudget, StartsAtWords
  <2>3. ASSUME NEW s \in Stretches, Small(s)
        PROVE  Held(s.from, s.to)' \/ (end # Size /\ next <= s.from)
    <3>1. Held(s.from, s.to)' <=> Held(s.from, s.to)
      BY <2>1 DEF Held
    <3>2. ~(from <= s.from /\ s.to <= end)
      <4>1. s.from \in Nat /\ s.to \in Nat /\ s.from < s.to /\ InWord(s.from)
        BY <1>1, <1>2, StretchIs
      <4> QED BY <1>2, <1>5, <4>1
    <3> QED BY <1>4, <2>3, <3>1, <3>2
  <2>4. end # Size => ~(InWord(next) /\ InWord(next - 1))
    <3> SUFFICES ASSUME end # Size, InWord(next - 1) PROVE FALSE
      OBVIOUS
    <3>1. next \in Nat /\ from < next /\ next <= end
      BY DEF CutOK
    <3>2. next - 1 \in from..(end - 1)
      BY <1>2, <3>1
    <3> QED BY <1>5, <3>2
  <2> QED BY <2>2, <2>3, <2>4
<1>6. CASE \E p \in from..(end - 1) : InWord(p)
  <2> DEFINE new == [from |-> from, to |-> end]
  <2>1. pieces' = Append(pieces, new)
    BY <1>6 DEF With
  <2>2. /\ new \in [from : Nat, to : Nat] /\ new.from = from /\ new.to = end
        /\ pieces \in Seq([from : Nat, to : Nat])
    BY <1>1, <1>2 DEF TypeOK
  <2> HIDE DEF new
  <2>3. /\ pieces' \in Seq([from : Nat, to : Nat]) /\ Len(pieces') = Len(pieces) + 1
        /\ Len(pieces) \in Nat /\ DOMAIN pieces = 1..Len(pieces)
        /\ DOMAIN pieces' = 1..(Len(pieces) + 1)
        /\ \A k \in DOMAIN pieces : k \in DOMAIN pieces' /\ k <= Len(pieces) /\ pieces'[k] = pieces[k]
        /\ pieces'[Len(pieces) + 1] = new
        /\ \A k \in DOMAIN pieces' : k \in DOMAIN pieces \/ k = Len(pieces) + 1
    BY <2>1, <2>2, AppendIs
  <2>4. WithinBudget'
    <3> SUFFICES ASSUME NEW k \in DOMAIN pieces'
                 PROVE  /\ 0 <= pieces'[k].from /\ pieces'[k].from < pieces'[k].to
                        /\ pieces'[k].to <= Size
                        /\ Extent(pieces'[k].from, pieces'[k].to) <= Window
      BY <1>3 DEF WithinBudget
    <3>1. CASE k \in DOMAIN pieces
      BY <1>1, <2>3, <3>1 DEF WithinBudget
    <3>2. CASE k = Len(pieces) + 1
      <4>1. pieces'[k].from = from /\ pieces'[k].to = end
        BY <2>2, <2>3, <3>2
      <4>2. Extent(from, end) <= Window
        BY DEF CutOK
      <4> QED BY <1>2, <4>1, <4>2
    <3> QED BY <2>3, <3>1, <3>2
  <2>5. StartsAtWords'
    <3> SUFFICES ASSUME NEW k \in 2..(Len(pieces) + 1),
                        InWord(pieces'[k].from), InWord(pieces'[k].from - 1)
                 PROVE  \A p \in pieces'[k].from..pieces'[k-1].to : InWord(p) \/ p = Size
      BY <1>3, <2>3 DEF StartsAtWords
    <3>1. CASE k \in 2..Len(pieces)
      <4>1. k \in DOMAIN pieces /\ k - 1 \in DOMAIN pieces
        BY <2>3, <3>1
      <4>2. pieces'[k] = pieces[k] /\ pieces'[k-1] = pieces[k-1]
        BY <2>3, <4>1
      <4> QED BY <1>1, <3>1, <4>2 DEF StartsAtWords
    <3>2. CASE k = Len(pieces) + 1
      <4>1. pieces'[k].from = from
        BY <2>2, <2>3, <3>2
      <4>2. k - 1 = Len(pieces) /\ Len(pieces) \in DOMAIN pieces /\ pieces # <<>>
        BY <2>3, <3>2
      <4>3. pieces'[k-1] = pieces[Len(pieces)]
        BY <2>3, <4>2
      <4>4. InWord(from) /\ InWord(from - 1)
        BY <4>1
      <4>5. \A p \in from..pieces[Len(pieces)].to : InWord(p) \/ p = Size
        BY <1>1, <4>2, <4>4 DEF NextStartsAtWord
      <4> QED BY <4>1, <4>3, <4>5
    <3>3. k \in 2..Len(pieces) \/ k = Len(pieces) + 1
      BY <2>3
    <3> QED BY <3>1, <3>2, <3>3
  <2>6. ASSUME NEW s \in Stretches, Small(s)
        PROVE  Held(s.from, s.to)' \/ (end # Size /\ next <= s.from)
    <3>1. Held(s.from, s.to) => Held(s.from, s.to)'
      BY <2>3 DEF Held
    <3>2. from <= s.from /\ s.to <= end => Held(s.from, s.to)'
      <4>1. Len(pieces) + 1 \in DOMAIN pieces'
        BY <2>3
      <4> QED BY <2>2, <2>3, <4>1 DEF Held
    <3> QED BY <1>4, <2>6, <3>1, <3>2
  <2>7. ASSUME end # Size, InWord(next), InWord(next - 1)
        PROVE  \A p \in next..pieces'[Len(pieces')].to : InWord(p) \/ p = Size
    <3>1. pieces'[Len(pieces')].to = end
      BY <2>2, <2>3
    <3> QED BY <2>7, <3>1 DEF CutOK
  <2> QED BY <2>3, <2>4, <2>5, <2>6, <2>7
<1> QED BY <1>5, <1>6

LEMMA InitInv == Init => Inv
<1> SUFFICES ASSUME Init PROVE Inv
  OBVIOUS
<1>1. /\ text \in Seq(Char) /\ starts = <<>> /\ pc = "tokenize" /\ from = 0 /\ tok = 0
      /\ pieces = <<>>
  BY ChunkerAssumption DEF Init
<1>2. TypeOK
  BY <1>1 DEF TypeOK
<1>3. StartsOK /\ CursorOK
  BY <1>1 DEF StartsOK, CursorOK, Cutting
<1>4. WithinBudget /\ StartsAtWords /\ NextStartsAtWord /\ HeldOrAhead
  BY <1>1 DEF WithinBudget, StartsAtWords, NextStartsAtWord, HeldOrAhead, Cutting
<1> QED BY <1>2, <1>3, <1>4 DEF Inv

LEMMA TokenizeStep == Inv /\ Tokenize => Inv'
<1> SUFFICES ASSUME Inv, Tokenize PROVE Inv'
  OBVIOUS
<1>1. TypeOK /\ StartsOK /\ CursorOK
  BY DEF Inv
<1>2. /\ pc = "tokenize" /\ from' = 0 /\ pieces' = <<>> /\ tok' = 0 /\ text' = text
      /\ \/ \E S \in Splits : starts' = TokensOf(S) /\ pc' = "tokens"
         \/ pc' \in {"chars", "refused"} /\ starts' = starts
  BY <1>1 DEF Tokenize, CursorOK
<1>3. Size' = Size /\ WordStarts' = WordStarts /\ Size \in Nat
  BY <1>1, <1>2, Letters DEF Size, WordStarts, InWord, Blank
<1>4. TypeOK' /\ StartsOK'
  <2>1. CASE \E S \in Splits : starts' = TokensOf(S) /\ pc' = "tokens"
    <3>1. PICK S \in Splits : starts' = TokensOf(S) /\ pc' = "tokens"
      BY <2>1
    <3>2. /\ starts' \in Seq(Nat)
          /\ \A j, k \in DOMAIN starts' : j < k => starts'[j] < starts'[k]
          /\ \A k \in DOMAIN starts' : starts'[k] < Size
          /\ \A p \in WordStarts : \E k \in DOMAIN starts' : starts'[k] = p
      BY <1>1, <3>1, TokensOfIs
    <3> QED BY <1>1, <1>2, <1>3, <3>1, <3>2 DEF TypeOK, StartsOK
  <2>2. CASE pc' \in {"chars", "refused"} /\ starts' = starts
    BY <1>1, <1>2, <1>3, <2>2 DEF TypeOK, StartsOK
  <2> QED BY <1>2, <2>1, <2>2
<1>5. CursorOK'
  <2>1. pc' = "tokens" => TokenAt(0)' = 0
    <3>1. {k \in DOMAIN starts' : starts'[k] < 0} = {}
      <4>1. starts' \in Seq(Nat)
        BY <1>4 DEF TypeOK
      <4> QED BY <4>1, InSeq
    <3>2. TokenAt(0)' = Cardinality({k \in DOMAIN starts' : starts'[k] < 0})
      BY DEF TokenAt
    <3> QED BY <3>1, <3>2, FS_EmptySet
  <2>2. TokenAt(from)' = TokenAt(0)'
    BY <1>2 DEF TokenAt
  <2> QED BY <1>2, <2>1, <2>2 DEF CursorOK, Cutting
<1>6. WithinBudget' /\ StartsAtWords' /\ NextStartsAtWord'
  BY <1>2 DEF WithinBudget, StartsAtWords, NextStartsAtWord
<1>7. HeldOrAhead'
  <2>1. pc' \in {"tokens", "chars"} \/ pc' = "refused"
    BY <1>2
  <2>2. \A s \in Stretches' : s.from \in WordStarts'
    BY DEF Stretches
  <2>3. \A p \in WordStarts' : 0 <= p
    BY <1>3 DEF WordStarts
  <2> QED BY <1>2, <2>1, <2>2, <2>3 DEF HeldOrAhead, Cutting
<1> QED BY <1>4, <1>5, <1>6, <1>7 DEF Inv

LEMMA EmbedStep == Inv /\ Embed => Inv'
<1> SUFFICES ASSUME Inv, Embed PROVE Inv'
  OBVIOUS
<1>1. pc = "embed" /\ pc' \in {"stored", "refused"} /\ UNCHANGED <<text, starts, from, tok, pieces>>
  BY DEF Embed
<1>2. TypeOK' /\ StartsOK' /\ CursorOK'
  BY <1>1, Kept DEF Inv, TypeOK, StartsOK, CursorOK, Cutting
<1>3. WithinBudget' /\ StartsAtWords' /\ NextStartsAtWord'
  BY <1>1, Kept DEF Inv, WithinBudget, StartsAtWords, NextStartsAtWord, Cutting
<1>4. \A a, b : Held(a, b)' <=> Held(a, b)
  BY <1>1 DEF Held
<1>5. HeldOrAhead'
  BY <1>1, <1>4, Kept DEF Inv, HeldOrAhead, Cutting
<1> QED BY <1>2, <1>3, <1>5 DEF Inv

LEMMA CutTokensStep == Inv /\ CutTokens => Inv'
<1> SUFFICES ASSUME Inv, CutTokens PROVE Inv'
  OBVIOUS
<1>1. TypeOK /\ StartsOK /\ CursorOK /\ pc = "tokens" /\ ~Short /\ UNCHANGED <<text, starts>>
  BY DEF Inv, CutTokens
<1>2. PICK end \in {EndTokens} :
        /\ pieces' = With(end)
        /\ IF end = Size
           THEN pc' = Enough(pieces') /\ UNCHANGED <<from, tok>>
           ELSE \E next \in {AfterTokens(end)} :
                  /\ from' = next.from /\ tok' = next.tok
                  /\ pc' = IF from' >= Size \/ tok' >= Len(starts)
                           THEN Enough(pieces') ELSE "tokens"
  BY DEF CutTokens
<1>3. PICK next : next = AfterTokens(end)
  OBVIOUS
<1>4. CutOK(end, next.from) /\ (end # Size => next.tok = TokenAt(next.from))
  BY <1>1, <1>2, <1>3, TokensCut
<1>5. /\ pieces' \in Seq([from : Nat, to : Nat]) /\ WithinBudget' /\ StartsAtWords'
      /\ \A s \in Stretches :
           Small(s) => Held(s.from, s.to)' \/ (end # Size /\ next.from <= s.from)
      /\ end # Size /\ pieces' # <<>> /\ InWord(next.from) /\ InWord(next.from - 1) =>
           \A p \in next.from..pieces'[Len(pieces')].to : InWord(p) \/ p = Size
  BY <1>1, <1>2, <1>4, WindowStep DEF Cutting
<1>6. Size \in Nat /\ Enough(pieces') \in {"refused", "embed"}
  BY <1>1, Letters DEF Enough
<1>7. /\ Size' = Size /\ WordStarts' = WordStarts /\ Stretches' = Stretches
      /\ \A p : InWord(p)' <=> InWord(p)
      /\ \A s : Small(s)' <=> Small(s)
      /\ \A p : TokenAt(p)' = TokenAt(p)
  BY <1>1, Kept
<1>8. CASE end = Size
  <2>1. pc' \in {"refused", "embed"} /\ from' = from /\ tok' = tok
    BY <1>2, <1>6, <1>8
  <2>2. TypeOK' /\ StartsOK' /\ CursorOK' /\ NextStartsAtWord'
    BY <1>1, <1>5, <1>7, <2>1 DEF TypeOK, StartsOK, CursorOK, NextStartsAtWord, Cutting
  <2>3. HeldOrAhead'
    BY <1>5, <1>7, <1>8 DEF HeldOrAhead
  <2> QED BY <1>5, <2>2, <2>3 DEF Inv
<1>9. CASE end # Size
  <2>1. /\ from' = next.from /\ tok' = TokenAt(from')
        /\ pc' = IF from' >= Size \/ tok' >= Len(starts) THEN Enough(pieces') ELSE "tokens"
    BY <1>2, <1>3, <1>4, <1>9
  <2>2. from' \in Nat
    BY <1>4, <1>9, <2>1 DEF CutOK
  <2>3. tok' \in 0..Len(starts) /\ \A k \in DOMAIN starts : starts[k] < from' <=> k <= tok'
    BY <1>1, <2>1, <2>2, TokenAtIs
  <2>4. Len(starts) \in Nat /\ DOMAIN starts = 1..Len(starts)
    BY <1>1 DEF TypeOK
  <2>5. TypeOK' /\ StartsOK'
    BY <1>1, <1>5, <1>6, <1>7, <2>1, <2>2, <2>3, <2>4 DEF TypeOK, StartsOK
  <2>6. CursorOK'
    <3>1. pc' = "tokens" => ~(from' >= Size)
      BY <1>6, <2>1
    <3>2. (TokenAt(from))' = TokenAt(from')
      BY <1>1 DEF TokenAt
    <3> QED BY <1>1, <1>6, <1>7, <2>1, <2>2, <3>1, <3>2 DEF CursorOK, Cutting
  <2>7. NextStartsAtWord'
    BY <1>5, <1>7, <1>9, <2>1 DEF NextStartsAtWord
  <2>8. HeldOrAhead'
    <3> SUFFICES ASSUME NEW s \in Stretches, Small(s), ~Held(s.from, s.to)', pc' # "refused"
                 PROVE  Cutting' /\ from' <= s.from
      BY <1>7 DEF HeldOrAhead
    <3>1. from' <= s.from
      BY <1>5, <2>1
    <3>2. s.from \in WordStarts /\ s.from < Size /\ s.from \in Nat
      BY <1>1, <1>6, StretchIs
    <3>3. PICK k \in DOMAIN starts : starts[k] = s.from
      BY <1>1, <3>2 DEF StartsOK
    <3>4. ~(from' >= Size)
      BY <1>6, <2>2, <3>1, <3>2
    <3>5. ~(tok' >= Len(starts))
      <4>1. ~(starts[k] < from')
        BY <2>2, <3>1, <3>2, <3>3
      <4>2. ~(k <= tok')
        BY <2>3, <4>1
      <4> QED BY <2>3, <2>4, <4>2
    <3> QED BY <2>1, <3>1, <3>4, <3>5 DEF Cutting
  <2> QED BY <1>5, <2>5, <2>6, <2>7, <2>8 DEF Inv
<1> QED BY <1>8, <1>9

LEMMA CutCharsStep == Inv /\ CutChars => Inv'
<1> SUFFICES ASSUME Inv, CutChars PROVE Inv'
  OBVIOUS
<1>1. TypeOK /\ StartsOK /\ CursorOK /\ pc = "chars" /\ ~Short /\ UNCHANGED <<text, starts, tok>>
  BY DEF Inv, CutChars
<1>2. PICK end \in {EndChars} :
        /\ pieces' = With(end)
        /\ IF end = Size
           THEN pc' = Enough(pieces') /\ UNCHANGED from
           ELSE /\ from' = AfterChars(end)
                /\ pc' = IF from' >= Size THEN Enough(pieces') ELSE "chars"
  BY DEF CutChars
<1>3. PICK next : next = AfterChars(end)
  OBVIOUS
<1>4. CutOK(end, next)
  BY <1>1, <1>2, <1>3, CharsCut
<1>5. /\ pieces' \in Seq([from : Nat, to : Nat]) /\ WithinBudget' /\ StartsAtWords'
      /\ \A s \in Stretches : Small(s) => Held(s.from, s.to)' \/ (end # Size /\ next <= s.from)
      /\ end # Size /\ pieces' # <<>> /\ InWord(next) /\ InWord(next - 1) =>
           \A p \in next..pieces'[Len(pieces')].to : InWord(p) \/ p = Size
  BY <1>1, <1>2, <1>4, WindowStep DEF Cutting
<1>6. Size \in Nat /\ Enough(pieces') \in {"refused", "embed"}
  BY <1>1, Letters DEF Enough
<1>7. /\ Size' = Size /\ WordStarts' = WordStarts /\ Stretches' = Stretches
      /\ \A p : InWord(p)' <=> InWord(p)
      /\ \A s : Small(s)' <=> Small(s)
  BY <1>1, Kept
<1>8. CASE end = Size
  <2>1. pc' \in {"refused", "embed"} /\ from' = from
    BY <1>2, <1>6, <1>8
  <2>2. TypeOK' /\ StartsOK' /\ CursorOK' /\ NextStartsAtWord'
    BY <1>1, <1>5, <1>7, <2>1 DEF TypeOK, StartsOK, CursorOK, NextStartsAtWord, Cutting
  <2>3. HeldOrAhead'
    BY <1>5, <1>7, <1>8 DEF HeldOrAhead
  <2> QED BY <1>5, <2>2, <2>3 DEF Inv
<1>9. CASE end # Size
  <2>1. from' = next /\ pc' = IF from' >= Size THEN Enough(pieces') ELSE "chars"
    BY <1>2, <1>3, <1>9
  <2>2. from' \in Nat
    BY <1>4, <1>9, <2>1 DEF CutOK
  <2>3. pc' = "chars" \/ pc' \in {"refused", "embed"}
    BY <1>6, <2>1
  <2>4. TypeOK' /\ StartsOK'
    BY <1>1, <1>5, <1>7, <2>2, <2>3 DEF TypeOK, StartsOK
  <2>5. CursorOK'
    <3>1. pc' = "chars" => from' < Size
      BY <1>6, <2>1, <2>2
    <3> QED BY <1>7, <2>3, <3>1 DEF CursorOK, Cutting
  <2>6. NextStartsAtWord'
    BY <1>5, <1>7, <1>9, <2>1 DEF NextStartsAtWord
  <2>7. HeldOrAhead'
    <3> SUFFICES ASSUME NEW s \in Stretches, Small(s), ~Held(s.from, s.to)', pc' # "refused"
                 PROVE  Cutting' /\ from' <= s.from
      BY <1>7 DEF HeldOrAhead
    <3>1. from' <= s.from /\ s.from < Size /\ s.from \in Nat
      BY <1>1, <1>5, <1>6, <2>1, StretchIs
    <3>2. ~(from' >= Size)
      BY <1>6, <2>2, <3>1
    <3> QED BY <2>1, <3>1, <3>2 DEF Cutting
  <2> QED BY <1>5, <2>4, <2>5, <2>6, <2>7 DEF Inv
<1> QED BY <1>8, <1>9

\* A text with a word has a first one.
LEMMA FirstWord ==
  ASSUME TypeOK, NEW p, InWord(p)
  PROVE  WordStarts # {}
<1> DEFINE S == {q \in 0..(Size - 1) : InWord(q)}
<1>1. p \in S /\ S \in SUBSET Nat /\ Size \in Nat
  BY Letters
<1>2. PICK q \in S : \A r \in S : q <= r
  <2> HIDE DEF S
  <2> QED BY <1>1, Least
<1>3. ~InWord(q - 1)
  <2> SUFFICES ASSUME InWord(q - 1) PROVE FALSE
    OBVIOUS
  <2>1. q - 1 \in S /\ q \in Nat
    BY <1>1, Letters
  <2>2. q <= q - 1
    BY <1>2, <2>1
  <2> QED BY <2>1, <2>2
<1> QED BY <1>2, <1>3 DEF WordStarts

LEMMA WholeStep == Inv /\ Whole => Inv'
<1> SUFFICES ASSUME Inv, Whole PROVE Inv'
  OBVIOUS
<1>1. TypeOK /\ StartsOK /\ CursorOK /\ Cutting /\ Short /\ UNCHANGED <<text, starts, from, tok>>
  BY DEF Inv, Whole, Cutting
<1>2. pieces' = With(Size) /\ pc' \in {"refused", "embed"}
  BY DEF Whole, Enough
<1>3. Size \in Nat /\ from \in Nat /\ (from = 0 \/ from < Size)
  BY <1>1, Letters DEF TypeOK, CursorOK
<1>4. /\ Size' = Size /\ WordStarts' = WordStarts /\ Stretches' = Stretches /\ Window' = Window
      /\ \A p : InWord(p)' <=> InWord(p)
      /\ \A a, b : Extent(a, b)' = Extent(a, b)
      /\ \A s : Small(s)' <=> Small(s)
  BY <1>1, Kept
<1>5. CASE WordStarts = {}
  <2>1. \A p : ~InWord(p)
    BY <1>1, <1>5, FirstWord
  <2>2. pieces' = pieces
    BY <1>2, <2>1 DEF With
  <2>3. Stretches = {}
    BY <1>5 DEF Stretches
  <2>4. TypeOK' /\ StartsOK' /\ CursorOK' /\ NextStartsAtWord' /\ HeldOrAhead'
    BY <1>1, <1>2, <1>4, <2>2, <2>3
       DEF TypeOK, StartsOK, CursorOK, NextStartsAtWord, HeldOrAhead, Cutting
  <2>5. WithinBudget' /\ StartsAtWords'
    BY <1>4, <2>2 DEF Inv, WithinBudget, StartsAtWords
  <2> QED BY <2>4, <2>5 DEF Inv
<1>6. CASE WordStarts # {}
  <2>1. from < Size
    <3>1. PICK p \in 0..(Size - 1) : TRUE
      BY <1>6 DEF WordStarts
    <3> QED BY <1>3, <3>1
  <2>2. Extent(from, Size) <= Window
    <3>1. CASE pc = "tokens"
      <4>1. ByTokens
        BY <1>1, <1>6, <3>1 DEF StartsOK, ByTokens
      <4>2. Len(starts) \in Nat /\ DOMAIN starts = 1..Len(starts) /\ Len(starts) <= ChunkTokens
        BY <1>1, <3>1 DEF TypeOK, Short
      <4>3. TokensIn(from, Size) <= Len(starts) - 1 + 1 /\ TokensIn(from, Size) \in Nat
        <5>1. {k \in DOMAIN starts : starts[k] \in from..(Size - 1)} \subseteq 1..Len(starts)
          BY <4>2
        <5>2. 1 \in Nat /\ 1 <= Len(starts) + 1
          BY <4>2
        <5> QED BY <1>1, <4>2, <5>1, <5>2, TokensInIs
      <4> QED BY <4>1, <4>2, <4>3, ChunkerAssumption DEF Extent, Window
    <3>2. CASE pc = "chars"
      <4>1. ~ByTokens /\ Size <= ChunkChars
        BY <1>1, <3>2 DEF StartsOK, ByTokens, Short
      <4>2. Size - from <= ChunkChars
        BY <1>3, <4>1, ChunkerAssumption
      <4> QED BY <4>1, <4>2 DEF Extent, Window
    <3> QED BY <1>1, <3>1, <3>2 DEF Cutting
  <2>3. CutOK(Size, 0)
    BY <1>3, <2>1, <2>2 DEF CutOK
  <2>4. PICK end : end = Size
    OBVIOUS
  <2>5. /\ pieces' \in Seq([from : Nat, to : Nat]) /\ WithinBudget' /\ StartsAtWords'
        /\ \A s \in Stretches : Small(s) => Held(s.from, s.to)'
    <3>1. CutOK(end, 0) /\ pieces' = With(end)
      BY <1>2, <2>3, <2>4
    <3> QED BY <1>1, <2>4, <3>1, WindowStep
  <2>6. TypeOK' /\ StartsOK' /\ CursorOK' /\ NextStartsAtWord'
    BY <1>1, <1>2, <1>4, <2>5 DEF TypeOK, StartsOK, CursorOK, NextStartsAtWord, Cutting
  <2>7. HeldOrAhead'
    BY <1>4, <2>5 DEF HeldOrAhead
  <2> QED BY <2>5, <2>6, <2>7 DEF Inv
<1> QED BY <1>5, <1>6

LEMMA NextInv == Inv /\ [Next]_vars => Inv'
<1> SUFFICES ASSUME Inv, [Next]_vars PROVE Inv'
  OBVIOUS
<1>1. CASE UNCHANGED vars
  <2>1. UNCHANGED <<text, starts, pc, from, tok, pieces>>
    BY <1>1 DEF vars
  <2>2. TypeOK' /\ StartsOK' /\ CursorOK'
    BY <2>1, Kept DEF Inv, TypeOK, StartsOK, CursorOK, Cutting
  <2>3. WithinBudget' /\ StartsAtWords' /\ NextStartsAtWord'
    BY <2>1, Kept DEF Inv, WithinBudget, StartsAtWords, NextStartsAtWord, Cutting
  <2>4. \A a, b : Held(a, b)' <=> Held(a, b)
    BY <2>1 DEF Held
  <2>5. HeldOrAhead'
    BY <2>1, <2>4, Kept DEF Inv, HeldOrAhead, Cutting
  <2> QED BY <2>2, <2>3, <2>5 DEF Inv
<1>2. CASE Next
  BY <1>2, TokenizeStep, WholeStep, CutTokensStep, CutCharsStep, EmbedStep DEF Next
<1> QED BY <1>1, <1>2

LEMMA Invariance == Spec => []Inv
  BY InitInv, NextInv, PTL DEF Spec

-----------------------------------------------------------------------------
(* What holds of every cut.                                                *)

\* Every piece is a slice of the text, and none is longer than a window
\* (CHUNK_TOKENS, CHUNK_CHARS).
THEOREM AlwaysWithinBudget == Spec => []WithinBudget
  BY Invariance, PTL DEF Inv

\* A piece starts in the middle of a word only where the text is unbroken
\* (word_start).
THEOREM AlwaysAtWords == Spec => []StartsAtWords
  BY Invariance, PTL DEF Inv

\* A word of at most half a window is whole in some piece of a cut that is over
\* (chunk_text, chunk_text_by_tokens).
THEOREM AlwaysWordsWhole == Spec => []WordsWhole
<1>1. Inv => WordsWhole
  BY DEF Inv, HeldOrAhead, WordsWhole, Small, Done, Cutting
<1> QED BY <1>1, Invariance, PTL

\* A fact no longer than the overlap is whole in some piece of a cut that is
\* over (CHUNK_OVERLAP, CHUNK_OVERLAP_TOKENS).
THEOREM AlwaysFactsWhole == Spec => []FactsWhole
<1>1. Inv => FactsWhole
  BY DEF Inv, HeldOrAhead, FactsWhole, Small, Done, Cutting
<1> QED BY <1>1, Invariance, PTL

\* Each window starts after the one before and within the text, whatever the
\* text and its tokens (chunk_text_by_tokens, chunk_text).
THEOREM AlwaysAdvances == Spec => Advances
<1>1. ASSUME Inv, Next, pc' = pc
      PROVE  from < from' /\ from' < Size
  <2>1. TypeOK /\ StartsOK /\ CursorOK /\ Size \in Nat
    BY <1>1, Letters DEF Inv
  <2>2. CASE CutTokens
    <3>1. PICK end \in {EndTokens} :
            IF end = Size
            THEN pc' = Enough(pieces')
            ELSE \E next \in {AfterTokens(end)} :
                   /\ from' = next.from /\ tok' = next.tok
                   /\ pc' = IF from' >= Size \/ tok' >= Len(starts)
                            THEN Enough(pieces') ELSE "tokens"
      BY <2>2 DEF CutTokens
    <3>2. pc = "tokens" /\ ~Short /\ pc' # Enough(pieces')
      BY <1>1, <2>2 DEF CutTokens, Enough
    <3>3. end # Size /\ from' = AfterTokens(end).from /\ ~(from' >= Size)
      BY <3>1, <3>2
    <3>4. from' \in Nat /\ from < from'
      BY <2>1, <3>1, <3>2, <3>3, TokensCut DEF CutOK
    <3> QED BY <2>1, <3>3, <3>4
  <2>3. CASE CutChars
    <3>1. PICK end \in {EndChars} :
            IF end = Size
            THEN pc' = Enough(pieces')
            ELSE /\ from' = AfterChars(end)
                 /\ pc' = IF from' >= Size THEN Enough(pieces') ELSE "chars"
      BY <2>3 DEF CutChars
    <3>2. pc = "chars" /\ ~Short /\ pc' # Enough(pieces')
      BY <1>1, <2>3 DEF CutChars, Enough
    <3>3. end # Size /\ from' = AfterChars(end) /\ ~(from' >= Size)
      BY <3>1, <3>2
    <3>4. from' \in Nat /\ from < from'
      BY <2>1, <3>1, <3>2, <3>3, CharsCut DEF CutOK
    <3> QED BY <2>1, <3>3, <3>4
  <2>4. ~(Tokenize \/ Whole \/ Embed)
    BY <1>1 DEF Tokenize, Whole, Embed, Enough
  <2> QED BY <1>1, <2>2, <2>3, <2>4 DEF Next
<1>2. Inv /\ [Next]_vars => [pc' = pc => from < from' /\ from' < Size]_vars
  BY <1>1
<1> QED BY <1>2, Invariance, PTL DEF Spec, Advances
=============================================================================
