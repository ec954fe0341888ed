---------------------------- MODULE ReindexProofs ----------------------------
(***************************************************************************)
(* What runs of --reindex leave behind, for any number of runs and servers *)
(* with any models, any corpus and bodies of any length.                   *)
(***************************************************************************)
EXTENDS Reindex, FiniteSetTheorems, WellFoundedInduction, TLAPS

Writer == Server \cup Run
Model == {ModelOf[w] : w \in Writer}
Rows(c) == {<<k, c[k]>> : k \in DOMAIN c}

\* Where a run has a memory in hand.
Busy == {"delete", "deleting", "insert", "record"}
Label == Busy \cup Final \cup {"check", "list", "next"}

\* Ids are 1, 2, ..., and each has its row and its chunks.
Tables ==
  \E N \in Nat :
    /\ memory \in [1..N -> [model : Model, forgotten : BOOLEAN]]
    /\ chunk = [i \in 1..N |-> chunk[i]]

\* A run that is at p and holds w, with memories D and chunks ch.  What its
\* DELETE found were all rows of one cut.  What it has deleted is everything
\* there is now, or nothing because another run was there first, and then its
\* first INSERT fails.
RunOK(D, ch, p, w) ==
  /\ DOMAIN w = DOMAIN Idle /\ p \in Label
  /\ w.todo \subseteq D /\ (p = "done" => w.todo = {})
  /\ IF p \in Busy
     THEN w.cur \in D \ w.todo /\ w.n \in 1..MaxPieces
     ELSE w.cur = 0
  /\ p = "deleting" =>
       \E x \in Writer, m \in 1..MaxPieces : w.found = Rows(Pieces(x, m))
  /\ p = "insert" => \E m \in 0..(w.n - 1) : w.put = 0..(m - 1)
  /\ p = "record" => w.put = 0..(w.n - 1)
  /\ p \notin {"insert", "record"} => w.gone = {} /\ w.put = {}
  /\ w.gone # {} => w.gone = Rows(ch[w.cur])
  /\ w.put # {} => w.gone # {}

RunsOK == \A r \in Run : RunOK(DOMAIN memory, chunk, pc[r], work[r])

\* The rows of a memory are deleted by one run at a time.
OneDeletes ==
  \A q, r \in Run :
    q # r /\ work[q].gone # {} /\ work[r].gone # {} => work[q].cur # work[r].cur

Inv ==
  /\ Tables /\ Whole
  /\ DOMAIN pc = Run /\ DOMAIN work = Run
  /\ RunsOK /\ OneDeletes

-----------------------------------------------------------------------------
(* Facts about the parts of a state.                                       *)

\* Min of a set of ids is one of them.
LEMMA MinIn ==
  ASSUME NEW S \in SUBSET Nat, S # {}
  PROVE  Min(S) \in S
<1> DEFINE Less == {ss \in Nat \X Nat : ss[1] < ss[2]}
<1>1. IsWellFoundedOn(Less, Nat)
  BY NatLessThanWellFounded, Zenon DEF OpToRel
<1>2. PICK x \in S : \A y \in S : ~(<<y, x>> \in Less)
  <2> HIDE DEF Less
  <2> QED BY <1>1, WFMin
<1>3. ASSUME NEW y \in S
      PROVE  x <= y
  <2>1. <<y, x>> \notin Less
    BY <1>2
  <2>2. ~(y < x)
    BY <2>1
  <2> QED BY <2>2
<1> QED BY <1>3 DEF Min

\* The fields of a run, as Goto and Idling leave them.
LEMMA Fields ==
  DOMAIN Idle = {"seen", "todo", "listed", "cur", "n", "found", "gone", "put"}
BY DEF Idle

LEMMA IdlingFields ==
  ASSUME NEW r
  PROVE  /\ DOMAIN Idling(r) = DOMAIN Idle
         /\ Idling(r).seen = work[r].seen /\ Idling(r).todo = work[r].todo
         /\ Idling(r).listed = work[r].listed
         /\ Idling(r).cur = 0 /\ Idling(r).gone = {} /\ Idling(r).put = {}
BY DEF Idling, Idle

\* Two cuts have all their rows in common or none.
LEMMA RowsMeet ==
  ASSUME NEW v, NEW w, NEW m \in Nat, NEW n \in Nat,
         Rows(Pieces(v, m)) \cap Rows(Pieces(w, n)) # {}
  PROVE  Rows(Pieces(v, m)) = Rows(Pieces(w, n))
<1>1. PICK k \in 0..(m - 1), l \in 0..(n - 1) : <<k, Piece(v, m)>> = <<l, Piece(w, n)>>
  BY DEF Rows, Pieces
<1>2. Piece(v, m) = Piece(w, n)
  BY <1>1
<1>3. v = w /\ m = n
  BY <1>2 DEF Piece
<1> QED BY <1>3

\* A cut has a row of ord 0.
LEMMA FirstRow ==
  ASSUME NEW w, NEW n \in Nat \ {0}
  PROVE  <<0, Piece(w, n)>> \in Rows(Pieces(w, n))
<1>1. 0 \in 0..(n - 1)
  OBVIOUS
<1>2. DOMAIN Pieces(w, n) = 0..(n - 1) /\ Pieces(w, n)[0] = Piece(w, n)
  BY <1>1 DEF Pieces
<1> QED BY <1>1, <1>2 DEF Rows

\* The ords inserted so far are counted by Insert.
LEMMA CountPut ==
  ASSUME NEW m \in Nat
  PROVE  Cardinality(0..(m - 1)) = m /\ (0..(m - 1)) \cup {m} = 0..m
<1>1. Cardinality(0..(m - 1)) = IF 0 > m - 1 THEN 0 ELSE m - 1 - 0 + 1
  BY FS_Interval, m - 1 \in Int, 0 \in Int
<1> QED BY <1>1

LEMMA RowsNowIs == \A i : RowsNow(i) = Rows(chunk[i])
BY DEF RowsNow, Rows

-----------------------------------------------------------------------------
(* Steps.                                                                  *)

\* A step in which only run r moves.
Moves(r) ==
  /\ DOMAIN pc' = Run /\ DOMAIN work' = Run
  /\ \A q \in Run \ {r} : pc'[q] = pc[q] /\ work'[q] = work[q]

\* A step of run r that leaves the tables alone keeps the invariant if r is
\* well afterwards, and has deleted nothing, or what it had deleted before, or
\* is the only one to have deleted rows of its memory.
LEMMA RunStep ==
  ASSUME Inv, NEW r \in Run, Moves(r), UNCHANGED tables,
         RunOK(DOMAIN memory, chunk, pc'[r], work'[r]),
         \/ work'[r].gone = {}
         \/ work'[r].gone = work[r].gone /\ work'[r].cur = work[r].cur
         \/ work'[r].cur = work[r].cur /\ \A q \in Others(r) : work[q].gone = {}
  PROVE  Inv'
<1>1. memory' = memory /\ chunk' = chunk
  BY DEF tables
<1>2. Tables' /\ Whole'
  BY <1>1 DEF Inv, Tables, Whole
<1>3. RunsOK'
  <2> SUFFICES ASSUME NEW q \in Run
               PROVE  RunOK(DOMAIN memory, chunk, pc'[q], work'[q])
    BY <1>1 DEF RunsOK
  <2>1. CASE q = r
    BY <2>1
  <2>2. CASE q # r
    <3>1. pc'[q] = pc[q] /\ work'[q] = work[q]
      BY <2>2 DEF Moves
    <3> QED BY <3>1 DEF Inv, RunsOK
  <2> QED BY <2>1, <2>2
<1>4. OneDeletes'
  <2> SUFFICES ASSUME NEW q \in Run \ {r}, work'[q].gone # {}, work'[r].gone # {}
               PROVE  work'[q].cur # work'[r].cur
    BY DEF OneDeletes, Moves, Inv
  <2>1. work'[q] = work[q]
    BY DEF Moves
  <2>2. CASE work'[r].gone = work[r].gone /\ work'[r].cur = work[r].cur
    BY <2>1, <2>2 DEF OneDeletes, Inv
  <2>3. CASE work'[r].cur = work[r].cur /\ \A p \in Others(r) : work[p].gone = {}
    BY <2>1, <2>3 DEF Others
  <2> QED BY <2>2, <2>3
<1> QED BY <1>2, <1>3, <1>4 DEF Inv, Moves

\* A run that gives up holds nothing.
LEMMA StopStep ==
  ASSUME Inv, NEW r \in Run, NEW p \in Final, Stop(r, p), UNCHANGED tables,
         p = "done" => work[r].todo = {}
  PROVE  Inv'
<1>1. Moves(r) /\ pc'[r] = p /\ work'[r] = [Idling(r) EXCEPT !.seen = {}]
  BY DEF Stop, Goto, Inv, Moves
<1>2. /\ DOMAIN work'[r] = DOMAIN Idle /\ work'[r].todo = work[r].todo
      /\ work'[r].cur = 0 /\ work'[r].gone = {} /\ work'[r].put = {}
  BY <1>1, IdlingFields, Fields
<1>3. work[r].todo \subseteq DOMAIN memory
  BY DEF Inv, RunsOK, RunOK
<1>4. RunOK(DOMAIN memory, chunk, pc'[r], work'[r])
  BY <1>1, <1>2, <1>3 DEF RunOK, Label, Busy, Final
<1> QED BY <1>1, <1>2, <1>4, RunStep

\* What a run is before its step.
LEMMA Before ==
  ASSUME Inv, NEW r \in Run
  PROVE  /\ RunOK(DOMAIN memory, chunk, pc[r], work[r])
         /\ DOMAIN work[r] = {"seen", "todo", "listed", "cur", "n", "found", "gone", "put"}
BY Fields DEF Inv, RunsOK, RunOK

LEMMA CheckStep ==
  ASSUME Inv, NEW r \in Run, Check(r)
  PROVE  Inv'
<1>1. CASE Foreign(r)
  BY <1>1, StopStep DEF Check, Final
<1>2. CASE ~Foreign(r)
  <2>1. /\ pc[r] = "check" /\ pc'[r] = "list" /\ UNCHANGED tables
        /\ Moves(r) /\ work'[r] = [work[r] EXCEPT !.seen = Corpus]
    BY <1>2 DEF Check, Goto, Moves, Inv
  <2>2. /\ DOMAIN work'[r] = DOMAIN Idle
        /\ work'[r].todo = work[r].todo /\ work'[r].cur = work[r].cur
        /\ work'[r].gone = work[r].gone /\ work'[r].put = work[r].put
    BY <2>1, Before, Fields
  <2>3. RunOK(DOMAIN memory, chunk, pc'[r], work'[r])
    BY <2>1, <2>2, Before DEF RunOK, Label, Busy
  <2> QED BY <2>1, <2>2, <2>3, RunStep
<1> QED BY <1>1, <1>2

LEMMA ListStep ==
  ASSUME Inv, NEW r \in Run, List(r)
  PROVE  Inv'
<1>1. /\ pc[r] = "list" /\ pc'[r] \in {"done", "next"} /\ UNCHANGED tables
      /\ pc'[r] = "done" => Corpus = {}
      /\ Moves(r)
      /\ work'[r] = [work[r] EXCEPT !.todo = Corpus, !.listed = [i \in Corpus |-> chunk[i]]]
  BY DEF List, Goto, Moves, Inv
<1>2. /\ DOMAIN work'[r] = DOMAIN Idle
      /\ work'[r].todo = Corpus /\ work'[r].cur = work[r].cur
      /\ work'[r].gone = work[r].gone /\ work'[r].put = work[r].put
  BY <1>1, Before, Fields
<1>3. RunOK(DOMAIN memory, chunk, pc'[r], work'[r])
  BY <1>1, <1>2, Before DEF RunOK, Label, Busy, Final, Corpus
<1> QED BY <1>1, <1>2, <1>3, RunStep

LEMMA TakeStep ==
  ASSUME Inv, NEW r \in Run, Take(r)
  PROVE  Inv'
<1> DEFINE i == Min(work[r].todo)
<1>1. /\ pc[r] = "next" /\ UNCHANGED tables /\ Moves(r)
      /\ pc'[r] \in {"next", "delete"}
      /\ \/ /\ pc'[r] = "next"
            /\ work'[r] = [Idling(r) EXCEPT !.todo = @ \ {i}]
         \/ \E n \in 1..MaxPieces :
              /\ pc'[r] = "delete"
              /\ work'[r] = [[Idling(r) EXCEPT !.todo = @ \ {i}] EXCEPT !.cur = i, !.n = n]
  BY DEF Take, Goto, Moves, Inv
<1>2. i \in work[r].todo /\ work[r].todo \subseteq DOMAIN memory
  <2>1. work[r].todo # {} /\ work[r].todo \subseteq DOMAIN memory
    BY Before DEF Take, RunOK
  <2>2. DOMAIN memory \subseteq Nat
    BY DEF Inv, Tables
  <2> QED BY <2>1, <2>2, MinIn
<1> HIDE DEF i
<1>3. /\ DOMAIN work'[r] = DOMAIN Idle
      /\ work'[r].todo = work[r].todo \ {i}
      /\ work'[r].gone = {} /\ work'[r].put = {}
      /\ pc'[r] = "next" => work'[r].cur = 0
      /\ pc'[r] = "delete" => work'[r].cur = i /\ work'[r].n \in 1..MaxPieces
  <2> DEFINE w == [Idling(r) EXCEPT !.todo = @ \ {i}]
  <2>1. /\ DOMAIN w = DOMAIN Idle /\ w.todo = work[r].todo \ {i}
        /\ w.gone = {} /\ w.put = {} /\ w.cur = 0
    BY IdlingFields, Fields
  <2> HIDE DEF w
  <2>2. CASE pc'[r] = "next" /\ work'[r] = w
    BY <2>1, <2>2
  <2>3. ASSUME NEW n \in 1..MaxPieces,
               pc'[r] = "delete" /\ work'[r] = [w EXCEPT !.cur = i, !.n = n]
        PROVE  /\ DOMAIN work'[r] = DOMAIN Idle /\ work'[r].todo = w.todo
               /\ work'[r].gone = {} /\ work'[r].put = {}
               /\ work'[r].cur = i /\ work'[r].n = n
    BY <2>1, <2>3, Fields
  <2> QED BY <1>1, <2>1, <2>2, <2>3 DEF w
<1>4. RunOK(DOMAIN memory, chunk, pc'[r], work'[r])
  BY <1>1, <1>2, <1>3 DEF RunOK, Label, Busy
<1> QED BY <1>1, <1>3, <1>4, RunStep

LEMMA FinishStep ==
  ASSUME Inv, NEW r \in Run, Finish(r)
  PROVE  Inv'
BY StopStep DEF Finish, Final

LEMMA FailStep ==
  ASSUME Inv, NEW r \in Run, Fail(r)
  PROVE  Inv'
BY StopStep DEF Fail, GiveUp, Final

\* The chunks of a memory are one cut.
LEMMA OneCut ==
  ASSUME Inv, NEW i \in DOMAIN memory
  PROVE  \E x \in Writer, m \in 1..MaxPieces :
           chunk[i] = Pieces(x, m) /\ memory[i].model = ModelOf[x]
BY DEF Inv, Whole, Writer

LEMMA DeleteStartsStep ==
  ASSUME Inv, NEW r \in Run, DeleteStarts(r)
  PROVE  Inv'
<1>1. /\ pc[r] = "delete" /\ pc'[r] = "deleting" /\ UNCHANGED tables /\ Moves(r)
      /\ work'[r] = [work[r] EXCEPT !.found = Rows(chunk[work[r].cur])]
  BY RowsNowIs DEF DeleteStarts, Goto, Moves, Inv
<1>2. /\ DOMAIN work'[r] = DOMAIN Idle
      /\ work'[r].todo = work[r].todo /\ work'[r].cur = work[r].cur
      /\ work'[r].n = work[r].n
      /\ work'[r].found = Rows(chunk[work[r].cur])
      /\ work'[r].gone = work[r].gone /\ work'[r].put = work[r].put
  BY <1>1, Before, Fields
<1>3. work[r].cur \in DOMAIN memory
  BY <1>1, Before DEF RunOK, Busy
<1>4. \E x \in Writer, m \in 1..MaxPieces : work'[r].found = Rows(Pieces(x, m))
  BY <1>2, <1>3, OneCut
<1>5. RunOK(DOMAIN memory, chunk, pc'[r], work'[r])
  BY <1>1, <1>2, <1>4, Before DEF RunOK, Label, Busy
<1> QED BY <1>1, <1>2, <1>5, RunStep

\* What the DELETE deletes is all there is, and nobody else has deleted it; or
\* it is nothing.
LEMMA DeleteEndsStep ==
  ASSUME Inv, NEW r \in Run, DeleteEnds(r)
  PROVE  Inv'
<1> DEFINE i == work[r].cur
           hit == work[r].found \cap Rows(chunk[i])
<1>1. /\ pc[r] = "deleting" /\ pc'[r] = "insert" /\ UNCHANGED tables /\ Moves(r)
      /\ work'[r] = [work[r] EXCEPT !.gone = hit]
  BY RowsNowIs DEF DeleteEnds, Goto, Moves, Inv
<1>2. i \in DOMAIN memory
  BY <1>1, Before DEF RunOK, Busy
<1>3. PICK x \in Writer, m \in 1..MaxPieces : chunk[i] = Pieces(x, m)
  BY <1>2, OneCut
<1>4. PICK y \in Writer, n \in 1..MaxPieces : work[r].found = Rows(Pieces(y, n))
  BY <1>1, Before DEF RunOK
<1>5. hit # {} => hit = Rows(chunk[i])
  BY <1>3, <1>4, RowsMeet
<1>6. hit # {} => \A q \in Others(r) : work[q].gone = {}
  <2> SUFFICES ASSUME hit # {}, NEW q \in Others(r), work[q].gone # {}
               PROVE  FALSE
    OBVIOUS
  <2>1. q \in Run /\ work[q].cur = i
    BY DEF Others
  <2>2. work[q].gone = Rows(chunk[i])
    BY <2>1, Before DEF RunOK
  <2>3. work[q].gone \cap work[r].found = {}
    BY DEF DeleteEnds
  <2> QED BY <2>2, <2>3
<1> HIDE DEF hit
<1>7. /\ DOMAIN work'[r] = DOMAIN Idle
      /\ work'[r].todo = work[r].todo /\ work'[r].cur = i /\ work'[r].n = work[r].n
      /\ work'[r].gone = hit /\ work'[r].put = work[r].put
  BY <1>1, Before, Fields
<1>8. work[r].put = 0..(0 - 1) /\ work[r].n \in 1..MaxPieces
  <2>1. work[r].put = {} /\ work[r].n \in 1..MaxPieces
    BY <1>1, Before DEF RunOK, Busy
  <2> QED BY <2>1
<1>9. RunOK(DOMAIN memory, chunk, pc'[r], work'[r])
  <2>1. 0 \in 0..(work'[r].n - 1) /\ work'[r].put = 0..(0 - 1)
    BY <1>7, <1>8
  <2>2. work'[r].put = {}
    BY <2>1
  <2> QED BY <1>1, <1>5, <1>7, <2>1, <2>2, Before DEF RunOK, Label, Busy
<1> QED BY <1>1, <1>6, <1>7, <1>9, RunStep

\* A run that has deleted nothing cannot insert the first ord of its memory.
LEMMA FirstInsert ==
  ASSUME Inv, NEW r \in Run, work[r].cur \in DOMAIN memory, ~Taken(r, 0)
  PROVE  work[r].gone # {}
<1>1. PICK x \in Writer, m \in 1..MaxPieces : chunk[work[r].cur] = Pieces(x, m)
  BY OneCut
<1>2. m \in Nat \ {0}
  BY ReindexAssumption DEF ReindexAssumption
<1>3. <<0, Piece(x, m)>> \in RowsNow(work[r].cur)
  BY <1>1, <1>2, FirstRow, RowsNowIs
<1> QED BY <1>3 DEF Taken

LEMMA InsertStep ==
  ASSUME Inv, NEW r \in Run, Insert(r)
  PROVE  Inv'
<1> DEFINE k == Cardinality(work[r].put)
<1>1. pc[r] = "insert" /\ UNCHANGED tables
  BY DEF Insert
<1>2. CASE Taken(r, k)
  BY <1>1, <1>2, StopStep DEF Insert, Final
<1>3. CASE ~Taken(r, k)
  <2>1. PICK m \in 0..(work[r].n - 1) : work[r].put = 0..(m - 1)
    BY <1>1, Before DEF RunOK
  <2>2. work[r].cur \in DOMAIN memory /\ work[r].n \in Nat /\ m \in Nat
    BY <1>1, Before, ReindexAssumption DEF RunOK, Busy, ReindexAssumption
  <2>3. k = m /\ work[r].put \cup {k} = 0..m
    BY <2>1, <2>2, CountPut
  <2> HIDE DEF k
  <2>4. /\ Moves(r) /\ pc'[r] = (IF m + 1 = work[r].n THEN "record" ELSE "insert")
        /\ work'[r] = [work[r] EXCEPT !.put = 0..m]
    <3>1. Goto(r, IF m + 1 = work[r].n THEN "record" ELSE "insert",
               [work[r] EXCEPT !.put = 0..m])
      BY <1>3, <2>3 DEF Insert, k
    <3> QED BY <3>1 DEF Goto, Moves, Inv
  <2>5. /\ DOMAIN work'[r] = DOMAIN Idle
        /\ work'[r].todo = work[r].todo /\ work'[r].cur = work[r].cur
        /\ work'[r].n = work[r].n /\ work'[r].gone = work[r].gone
        /\ work'[r].put = 0..m
    BY <2>4, Before, Fields
  <2>6. work[r].gone # {}
    <3>1. CASE m = 0
      BY <3>1, <1>3, <2>2, <2>3, FirstInsert
    <3>2. CASE m # 0
      <4>1. 0 \in work[r].put
        BY <3>2, <2>1, <2>2
      <4> QED BY <4>1, Before DEF RunOK
    <3> QED BY <3>1, <3>2
  <2>7. IF pc'[r] = "record"
        THEN work'[r].put = 0..(work'[r].n - 1)
        ELSE \E l \in 0..(work'[r].n - 1) : work'[r].put = 0..(l - 1)
    <3>1. CASE m + 1 = work[r].n
      BY <3>1, <2>2, <2>4, <2>5
    <3>2. CASE m + 1 # work[r].n
      <4>1. m + 1 \in 0..(work'[r].n - 1) /\ work'[r].put = 0..((m + 1) - 1)
        BY <3>2, <2>1, <2>2, <2>5
      <4> QED BY <4>1, <3>2, <2>4
    <3> QED BY <3>1, <3>2
  <2>8. RunOK(DOMAIN memory, chunk, pc'[r], work'[r])
    BY <1>1, <2>4, <2>5, <2>6, <2>7, Before DEF RunOK, Label, Busy
  <2> QED BY <1>1, <2>4, <2>5, <2>8, RunStep
<1> QED BY <1>2, <1>3

\* At its COMMIT a run has deleted every chunk its memory has, and puts all the
\* pieces of its own cut in their place.
LEMMA CommitEffect ==
  ASSUME Inv, NEW r \in Run, Commit(r)
  PROVE  LET i == work[r].cur
         IN /\ i \in DOMAIN memory /\ work[r].n \in 1..MaxPieces
            /\ work[r].gone # {}
            /\ chunk' = [chunk EXCEPT ![i] = Pieces(r, work[r].n)]
            /\ memory' = [memory EXCEPT ![i].model = ModelOf[r]]
            /\ pc[r] = "record" /\ pc'[r] = "next"
            /\ Moves(r) /\ work'[r] = Idling(r)
<1> DEFINE i == work[r].cur
           n == work[r].n
<1>1. pc[r] = "record"
  BY DEF Commit
<1>2. i \in DOMAIN memory /\ n \in 1..MaxPieces /\ work[r].put = 0..(n - 1)
  BY <1>1, Before DEF RunOK, Busy
<1>3. 0 \in work[r].put
  BY <1>2, ReindexAssumption DEF ReindexAssumption
<1>4. work[r].gone # {} /\ work[r].gone = RowsNow(i)
  BY <1>3, Before, RowsNowIs DEF RunOK
<1>5. chunk' = [chunk EXCEPT ![i] = Pieces(r, n)]
  <2>1. {row[1] : row \in RowsNow(i) \ work[r].gone} = {}
    BY <1>4
  <2>2. chunk' = [chunk EXCEPT ![i] =
                    [k \in 0..(n - 1) |-> IF k \in 0..(n - 1) THEN Piece(r, n) ELSE @[k]]]
    BY <1>2, <2>1 DEF Commit
  <2> QED BY <2>2 DEF Pieces
<1> QED BY <1>1, <1>2, <1>4, <1>5 DEF Commit, Goto, Moves, Inv

LEMMA CommitStep ==
  ASSUME Inv, NEW r \in Run, Commit(r)
  PROVE  Inv'
<1> DEFINE i == work[r].cur
           n == work[r].n
<1>1. /\ i \in DOMAIN memory /\ n \in 1..MaxPieces /\ work[r].gone # {}
      /\ chunk' = [chunk EXCEPT ![i] = Pieces(r, n)]
      /\ memory' = [memory EXCEPT ![i].model = ModelOf[r]]
      /\ pc'[r] = "next" /\ Moves(r) /\ work'[r] = Idling(r)
  BY CommitEffect
<1>2. PICK N \in Nat : /\ memory \in [1..N -> [model : Model, forgotten : BOOLEAN]]
                       /\ chunk = [j \in 1..N |-> chunk[j]]
  BY DEF Inv, Tables
<1> HIDE DEF i, n
<1>3. /\ DOMAIN memory' = 1..N /\ DOMAIN chunk' = 1..N /\ i \in 1..N
      /\ chunk'[i] = Pieces(r, n)
      /\ \A j \in 1..N \ {i} : chunk'[j] = chunk[j] /\ memory'[j] = memory[j]
  BY <1>1, <1>2
<1>4. ModelOf[r] \in Model /\ r \in Writer
  BY DEF Model, Writer
<1>5. Tables'
  <2>1. memory' \in [1..N -> [model : Model, forgotten : BOOLEAN]]
    BY <1>1, <1>2, <1>4
  <2>2. chunk' = [j \in 1..N |-> chunk'[j]]
    BY <1>1, <1>2
  <2> QED BY <2>1, <2>2 DEF Tables
<1>6. Whole'
  <2> SUFFICES ASSUME NEW j \in 1..N
               PROVE  \E w \in Server \cup Run, m \in 1..MaxPieces :
                        chunk'[j] = Pieces(w, m) /\ memory'[j].model = ModelOf[w]
    BY <1>3 DEF Whole
  <2>1. CASE j = i
    <3>1. memory'[i].model = ModelOf[r]
      BY <1>1, <1>2, <1>3
    <3> QED BY <2>1, <3>1, <1>1, <1>3
  <2>2. CASE j # i
    BY <2>2, <1>2, <1>3 DEF Inv, Whole
  <2> QED BY <2>1, <2>2
<1>7. \A q \in Run \ {r} : work[q].gone # {} => work[q].cur \in 1..N \ {i}
  <2> SUFFICES ASSUME NEW q \in Run \ {r}, work[q].gone # {}
               PROVE  work[q].cur \in 1..N \ {i}
    OBVIOUS
  <2>1. work[q].cur \in 1..N
    BY <1>2, Before DEF RunOK, Busy
  <2>2. work[q].cur # i
    BY <1>1 DEF Inv, OneDeletes, i
  <2> QED BY <2>1, <2>2
<1>8. RunsOK'
  <2> SUFFICES ASSUME NEW q \in Run
               PROVE  RunOK(DOMAIN memory', chunk', pc'[q], work'[q])
    BY DEF RunsOK
  <2>1. DOMAIN memory' = DOMAIN memory
    BY <1>2, <1>3
  <2>2. CASE q = r
    <3>1. work[r].todo \subseteq DOMAIN memory'
      BY <2>1, Before DEF RunOK
    <3> QED BY <2>2, <3>1, <1>1, IdlingFields DEF RunOK, Label, Busy
  <2>3. CASE q # r
    <3>1. pc'[q] = pc[q] /\ work'[q] = work[q]
      BY <2>3, <1>1 DEF Moves
    <3>2. work[q].gone # {} => chunk'[work[q].cur] = chunk[work[q].cur]
      BY <2>3, <1>3, <1>7
    <3>3. RunOK(DOMAIN memory, chunk, pc[q], work[q])
      BY Before
    <3> QED BY <2>1, <3>1, <3>2, <3>3 DEF RunOK
  <2> QED BY <2>2, <2>3
<1>9. OneDeletes'
  <2>1. work'[r].gone = {}
    BY <1>1, IdlingFields
  <2> QED BY <2>1, <1>1 DEF OneDeletes, Inv, Moves
<1> QED BY <1>1, <1>5, <1>6, <1>8, <1>9 DEF Inv, Moves

\* The servers add memories and change no chunks.
LEMMA ServerStep ==
  ASSUME Inv, UNCHANGED <<pc, work>>, Tables', Whole',
         DOMAIN memory \subseteq DOMAIN memory',
         \A i \in DOMAIN memory : chunk'[i] = chunk[i]
  PROVE  Inv'
<1>1. RunsOK'
  <2> SUFFICES ASSUME NEW r \in Run
               PROVE  RunOK(DOMAIN memory', chunk', pc[r], work[r])
    BY DEF RunsOK
  <2>1. RunOK(DOMAIN memory, chunk, pc[r], work[r])
    BY Before
  <2>2. work[r].gone # {} => work[r].cur \in DOMAIN memory
    BY <2>1 DEF RunOK, Busy
  <2> QED BY <2>1, <2>2 DEF RunOK
<1> QED BY <1>1 DEF Inv, OneDeletes

\* A save takes the next id.
LEMMA SaveEffect ==
  ASSUME NEW w \in Server, Save(w), NEW N \in Nat, DOMAIN memory = 1..N
  PROVE  /\ memory' = [i \in 1..(N + 1) |->
                          IF i < N + 1 THEN memory[i]
                          ELSE [model |-> ModelOf[w], forgotten |-> FALSE]]
         /\ \E n \in 1..MaxPieces :
              chunk' = [i \in 1..(N + 1) |-> IF i < N + 1 THEN chunk[i] ELSE Pieces(w, n)]
         /\ UNCHANGED <<pc, work>>
<1>1. Cardinality(1..N) = IF 1 > N THEN 0 ELSE N - 1 + 1
  BY FS_Interval, 1 \in Int, N \in Int
<1>2. Cardinality(DOMAIN memory) + 1 = N + 1
  BY <1>1
<1> QED BY <1>2 DEF Save

LEMMA SaveStep ==
  ASSUME Inv, NEW w \in Server, Save(w)
  PROVE  Inv'
<1>1. PICK N \in Nat : /\ memory \in [1..N -> [model : Model, forgotten : BOOLEAN]]
                       /\ chunk = [j \in 1..N |-> chunk[j]]
  BY DEF Inv, Tables
<1> DEFINE M == N + 1
<1>3. /\ memory' = [i \in 1..M |-> IF i < M THEN memory[i]
                                   ELSE [model |-> ModelOf[w], forgotten |-> FALSE]]
      /\ UNCHANGED <<pc, work>>
  BY <1>1, SaveEffect
<1>4. PICK n \in 1..MaxPieces :
        chunk' = [i \in 1..M |-> IF i < M THEN chunk[i] ELSE Pieces(w, n)]
  BY <1>1, SaveEffect
<1>5. M \in Nat /\ 1..M = (1..N) \cup {M} /\ \A i \in 1..N : i < M
  OBVIOUS
<1> HIDE DEF M
<1>6. Tables'
  <2>1. memory' \in [1..M -> [model : Model, forgotten : BOOLEAN]]
    <3>1. [model |-> ModelOf[w], forgotten |-> FALSE] \in [model : Model, forgotten : BOOLEAN]
      BY DEF Model, Writer
    <3> QED BY <3>1, <1>1, <1>3, <1>5
  <2>2. chunk' = [j \in 1..M |-> chunk'[j]]
    BY <1>4
  <2> QED BY <1>5, <2>1, <2>2 DEF Tables
<1>7. Whole'
  <2> SUFFICES ASSUME NEW j \in 1..M
               PROVE  \E x \in Server \cup Run, m \in 1..MaxPieces :
                        chunk'[j] = Pieces(x, m) /\ memory'[j].model = ModelOf[x]
    BY <1>3 DEF Whole
  <2>1. CASE j = M
    <3>1. ~(M < M)
      BY <1>5
    <3>2. chunk'[M] = Pieces(w, n) /\ memory'[M].model = ModelOf[w]
      BY <2>1, <3>1, <1>3, <1>4
    <3> QED BY <2>1, <3>2
  <2>2. CASE j \in 1..N
    <3>1. chunk'[j] = chunk[j] /\ memory'[j] = memory[j]
      BY <2>2, <1>3, <1>4, <1>5
    <3> QED BY <2>2, <3>1, <1>1 DEF Inv, Whole
  <2> QED BY <2>1, <2>2, <1>5
<1>8. /\ DOMAIN memory \subseteq DOMAIN memory'
      /\ \A i \in DOMAIN memory : chunk'[i] = chunk[i]
  BY <1>1, <1>3, <1>4, <1>5
<1> QED BY <1>3, <1>6, <1>7, <1>8, ServerStep

LEMMA HideStep ==
  ASSUME Inv, NEW i \in DOMAIN memory, Forget(i) \/ Restore(i)
  PROVE  Inv'
<1>1. PICK b \in BOOLEAN : memory' = [memory EXCEPT ![i].forgotten = b]
  BY DEF Forget, Restore
<1>2. chunk' = chunk /\ UNCHANGED <<pc, work>>
  BY DEF Forget, Restore
<1>3. PICK N \in Nat : /\ memory \in [1..N -> [model : Model, forgotten : BOOLEAN]]
                       /\ chunk = [j \in 1..N |-> chunk[j]]
  BY DEF Inv, Tables
<1>4. /\ memory' \in [1..N -> [model : Model, forgotten : BOOLEAN]]
      /\ \A j \in 1..N : memory'[j].model = memory[j].model
  BY <1>1, <1>3
<1>5. Tables'
  BY <1>2, <1>3, <1>4 DEF Tables
<1>6. Whole'
  BY <1>2, <1>3, <1>4 DEF Inv, Whole
<1> QED BY <1>2, <1>3, <1>4, <1>5, <1>6, ServerStep

LEMMA InitOK ==
  ASSUME Init
  PROVE  Inv
<1>1. PICK w \in Server, n \in 1..MaxPieces :
        /\ memory = [i \in 1..First |-> [model |-> ModelOf[w], forgotten |-> FALSE]]
        /\ chunk = [i \in 1..First |-> Pieces(w, n)]
  BY DEF Init
<1>2. Tables
  <2>1. First \in Nat /\ ModelOf[w] \in Model
    BY ReindexAssumption DEF ReindexAssumption, Model, Writer
  <2>2. chunk = [i \in 1..First |-> chunk[i]]
    BY <1>1
  <2>3. memory \in [1..First -> [model : Model, forgotten : BOOLEAN]]
    BY <1>1, <2>1
  <2> QED BY <2>1, <2>2, <2>3 DEF Tables
<1>3. Whole
  BY <1>1 DEF Whole
<1>4. /\ DOMAIN pc = Run /\ DOMAIN work = Run
      /\ \A r \in Run : pc[r] = "check" /\ work[r] = Idle
  BY DEF Init
<1>5. /\ Idle.todo = {} /\ Idle.cur = 0 /\ Idle.gone = {} /\ Idle.put = {}
  BY DEF Idle
<1>6. RunsOK
  BY <1>4, <1>5 DEF RunsOK, RunOK, Label, Busy
<1>7. OneDeletes
  BY <1>4, <1>5 DEF OneDeletes
<1> QED BY <1>2, <1>3, <1>4, <1>6, <1>7 DEF Inv

LEMMA NextOK ==
  ASSUME Inv, [Next]_vars
  PROVE  Inv'
<1>1. ASSUME NEW r \in Run, Step(r)
      PROVE  Inv'
  BY <1>1, CheckStep, ListStep, TakeStep, FinishStep, DeleteStartsStep, DeleteEndsStep,
     InsertStep, CommitStep DEF Step
<1>2. ASSUME NEW r \in Run, Fail(r)
      PROVE  Inv'
  BY <1>2, FailStep
<1>3. ASSUME NEW w \in Server, Save(w)
      PROVE  Inv'
  BY <1>3, SaveStep
<1>4. ASSUME NEW i \in DOMAIN memory, Forget(i) \/ Restore(i)
      PROVE  Inv'
  BY <1>4, HideStep
<1>5. CASE UNCHANGED vars
  BY <1>5 DEF vars, Inv, Tables, Whole, RunsOK, OneDeletes
<1> QED BY <1>1, <1>2, <1>3, <1>4, <1>5 DEF Next

\* The invariant the theorems rest on: besides what is said of the tables it
\* ties what each transaction has deleted and inserted to the chunks there are.
THEOREM Invariant == Spec => []Inv
BY InitOK, NextOK, PTL DEF Spec

\* No interleaving of runs, saves and failures leaves a memory without chunks,
\* with a part of them, with chunks of two cuts, or under a model that is not
\* that of its vectors (replace_chunks).
THEOREM ChunksWhole == Spec => []Whole
<1>1. Inv => Whole
  BY DEF Inv
<1> QED BY <1>1, Invariant, PTL

-----------------------------------------------------------------------------
(* A run that is done has replaced what it listed.  A run writes a memory  *)
(* once, so no chunks come back that it has already replaced.              *)

\* Run r will not write memory i any more.
Past(r, i) ==
  pc[r] \notin {"check", "list"} /\ i \notin work[r].todo /\ work[r].cur # i

\* A run whose pieces c are is past memory i.
PastOf(c, i) == \A q \in Run : c[0].by = q => Past(q, i)

WrittenOnce ==
  /\ \A i \in DOMAIN memory : PastOf(chunk[i], i)
  /\ \A r \in Run :
       /\ DOMAIN work[r].listed \subseteq DOMAIN memory
       /\ \A i \in DOMAIN work[r].listed : PastOf(work[r].listed[i], i)

Replaced ==
  \A r \in Run : \A i \in DOMAIN work[r].listed \ Blank :
    pc[r] \notin {"refused", "failed"} /\ Past(r, i) => chunk[i] # work[r].listed[i]

\* What a step of run r may change of what it has done and has to do.
LEMMA StepShape ==
  ASSUME Inv, NEW r \in Run, Step(r) \/ Fail(r)
  PROVE  /\ Moves(r) /\ (Commit(r) \/ UNCHANGED tables)
         /\ \/ work'[r].seen \in {work[r].seen, {}}
            \/ ~Foreign(r) /\ work'[r].seen = Corpus
         /\ pc[r] \notin Final
         /\ \/ /\ pc[r] = "list" /\ work'[r].todo = Corpus
               /\ work'[r].listed = [i \in Corpus |-> chunk[i]]
            \/ /\ work'[r].listed = work[r].listed
               /\ pc'[r] \in {"check", "list"} => pc[r] \in {"check", "list"}
               /\ pc[r] \in {"check", "list"} => pc'[r] \in {"list", "refused", "failed"}
               /\ work'[r].todo \subseteq work[r].todo
               /\ work[r].todo \ work'[r].todo \subseteq Blank \cup {work'[r].cur}
               /\ work'[r].cur \in {0, work[r].cur} \cup work[r].todo
               /\ \/ work[r].cur \in {0, work'[r].cur}
                  \/ Commit(r) \/ pc'[r] \in {"refused", "failed"}
<1> DEFINE w == work[r]
           v == work'[r]
           Same == /\ v.seen = w.seen /\ v.todo = w.todo
                   /\ v.listed = w.listed /\ v.cur = w.cur
           Left == /\ v.seen \in {w.seen, {}} /\ v.todo = w.todo
                   /\ v.listed = w.listed /\ v.cur = 0
<1>1. /\ DOMAIN pc = Run /\ DOMAIN work = Run
      /\ RunOK(DOMAIN memory, chunk, pc[r], w)
      /\ DOMAIN w = {"seen", "todo", "listed", "cur", "n", "found", "gone", "put"}
  BY Before DEF Inv
<1>2. ASSUME NEW p, Stop(r, p)
      PROVE  Left /\ pc'[r] = p /\ Moves(r)
  BY <1>1, <1>2, IdlingFields, Fields DEF Stop, Goto, Moves
<1>3. CASE Check(r)
  <2>1. CASE Foreign(r)
    BY <1>2, <1>3, <2>1 DEF Check, Final
  <2>2. CASE ~Foreign(r)
    <3>1. /\ pc[r] = "check" /\ pc'[r] = "list" /\ Moves(r) /\ UNCHANGED tables
          /\ v = [w EXCEPT !.seen = Corpus]
      BY <1>1, <1>3, <2>2 DEF Check, Goto, Moves
    <3>2. v.seen = Corpus /\ v.todo = w.todo /\ v.listed = w.listed /\ v.cur = w.cur
      BY <1>1, <3>1
    <3> QED BY <2>2, <3>1, <3>2 DEF Final
  <2> QED BY <2>1, <2>2
<1>4. CASE List(r)
  <2>1. /\ pc[r] = "list" /\ Moves(r) /\ UNCHANGED tables
        /\ v = [w EXCEPT !.todo = Corpus, !.listed = [i \in Corpus |-> chunk[i]]]
    BY <1>1, <1>4 DEF List, Goto, Moves
  <2>2. v.seen = w.seen /\ v.todo = Corpus /\ v.listed = [i \in Corpus |-> chunk[i]]
    BY <1>1, <2>1
  <2> QED BY <2>1, <2>2 DEF Final
<1>5. CASE Take(r)
  <2> DEFINE i == Min(w.todo)
             u == [Idling(r) EXCEPT !.todo = @ \ {i}]
  <2>1. i \in w.todo
    <3>1. w.todo # {} /\ w.todo \subseteq DOMAIN memory
      BY <1>1, <1>5 DEF Take, RunOK
    <3>2. DOMAIN memory \subseteq Nat
      BY DEF Inv, Tables
    <3> QED BY <3>1, <3>2, MinIn
  <2>2. /\ u.seen = w.seen /\ u.todo = w.todo \ {i} /\ u.listed = w.listed /\ u.cur = 0
        /\ DOMAIN u = DOMAIN Idle
    BY IdlingFields, Fields
  <2>3. /\ pc[r] = "next" /\ Moves(r) /\ UNCHANGED tables /\ w.cur = 0
        /\ \/ i \in Blank /\ pc'[r] = "next" /\ v = u
           \/ /\ pc'[r] = "delete"
              /\ \E n \in 1..MaxPieces : v = [u EXCEPT !.cur = i, !.n = n]
    BY <1>1, <1>5 DEF Take, Goto, Moves, RunOK, Busy
  <2> HIDE DEF i, u
  <2>4. CASE i \in Blank /\ pc'[r] = "next" /\ v = u
    BY <2>1, <2>2, <2>3, <2>4 DEF Final
  <2>5. ASSUME NEW n \in 1..MaxPieces, pc'[r] = "delete", v = [u EXCEPT !.cur = i, !.n = n]
        PROVE  v.seen = w.seen /\ v.todo = w.todo \ {i} /\ v.listed = w.listed /\ v.cur = i
    BY <2>2, <2>5, Fields
  <2> QED BY <2>1, <2>3, <2>4, <2>5 DEF Final
<1>6. CASE Finish(r)
  <2>1. /\ pc[r] = "next" /\ pc'[r] = "done" /\ UNCHANGED tables /\ Left /\ Moves(r)
        /\ w.cur = 0
    BY <1>1, <1>2, <1>6 DEF Finish, RunOK, Busy
  <2> QED BY <2>1 DEF Final
<1>7. CASE DeleteStarts(r)
  <2>1. /\ pc[r] = "delete" /\ pc'[r] = "deleting" /\ UNCHANGED tables /\ Moves(r)
        /\ v = [w EXCEPT !.found = RowsNow(w.cur)]
    BY <1>1, <1>7 DEF DeleteStarts, Goto, Moves
  <2>2. Same
    BY <1>1, <2>1
  <2> QED BY <2>1, <2>2 DEF Final
<1>8. CASE DeleteEnds(r)
  <2>1. /\ pc[r] = "deleting" /\ pc'[r] = "insert" /\ UNCHANGED tables /\ Moves(r)
        /\ v = [w EXCEPT !.gone = w.found \cap RowsNow(w.cur)]
    BY <1>1, <1>8 DEF DeleteEnds, Goto, Moves
  <2>2. Same
    BY <1>1, <2>1
  <2> QED BY <2>1, <2>2 DEF Final
<1>9. CASE Insert(r)
  <2>1. pc[r] = "insert" /\ UNCHANGED tables
    BY <1>9 DEF Insert
  <2>2. CASE Taken(r, Cardinality(w.put))
    BY <1>2, <1>9, <2>1, <2>2 DEF Insert, Final
  <2>3. CASE ~Taken(r, Cardinality(w.put))
    <3>1. /\ pc'[r] \in {"insert", "record"} /\ Moves(r)
          /\ v = [w EXCEPT !.put = @ \cup {Cardinality(w.put)}]
      BY <1>1, <1>9, <2>3 DEF Insert, Goto, Moves
    <3>2. Same
      BY <1>1, <3>1
    <3> QED BY <2>1, <3>1, <3>2 DEF Final
  <2> QED BY <2>2, <2>3
<1>10. CASE Commit(r)
  <2>1. pc[r] = "record" /\ pc'[r] = "next" /\ Moves(r) /\ v = Idling(r)
    BY <1>10, CommitEffect
  <2>2. Left
    BY <2>1, IdlingFields
  <2> QED BY <1>10, <2>1, <2>2 DEF Final
<1>11. CASE Fail(r)
  BY <1>2, <1>11 DEF Fail, GiveUp, Final
<1> QED BY <1>3, <1>4, <1>5, <1>6, <1>7, <1>8, <1>9, <1>10, <1>11 DEF Step

\* The writer of the chunks of a memory can be read off the first of them.
LEMMA WriterOf ==
  ASSUME NEW w, NEW n \in 1..MaxPieces
  PROVE  Pieces(w, n)[0].by = w
<1>1. 0 \in 0..(n - 1)
  BY ReindexAssumption DEF ReindexAssumption
<1>2. Pieces(w, n)[0] = Piece(w, n)
  BY <1>1 DEF Pieces
<1> QED BY <1>2 DEF Piece

\* A step of run r moves only its own Past, and only forwards.
LEMMA PastStays ==
  ASSUME Inv, NEW r \in Run, Step(r) \/ Fail(r),
         NEW q \in Run, NEW i \in DOMAIN memory, Past(q, i)
  PROVE  Past(q, i)'
<1>1. CASE q = r
  <2>1. 0 \notin DOMAIN memory
    BY DEF Inv, Tables
  <2> QED BY <1>1, <2>1, StepShape DEF Past
<1>2. CASE q # r
  BY <1>2, StepShape DEF Past, Moves
<1> QED BY <1>1, <1>2

LEMMA IdsStay ==
  ASSUME Inv, NEW r \in Run, Step(r) \/ Fail(r)
  PROVE  DOMAIN memory' = DOMAIN memory
<1>1. CASE Commit(r)
  BY <1>1, CommitEffect
<1>2. CASE UNCHANGED tables
  BY <1>2 DEF tables
<1> QED BY <1>1, <1>2, StepShape

LEMMA WrittenOnceStep ==
  ASSUME Inv, WrittenOnce, NEW r \in Run, Step(r) \/ Fail(r)
  PROVE  WrittenOnce'
<1>1. DOMAIN memory' = DOMAIN memory
  BY IdsStay
<1>2. \A c, i : i \in DOMAIN memory /\ PastOf(c, i) => \A q \in Run : c[0].by = q => Past(q, i)'
  BY PastStays DEF PastOf
<1>3. ASSUME NEW i \in DOMAIN memory
      PROVE  \A q \in Run : chunk'[i][0].by = q => Past(q, i)'
  <2>1. CASE UNCHANGED tables
    BY <1>2, <2>1 DEF WrittenOnce, tables
  <2>2. CASE Commit(r) /\ i # work[r].cur
    <3>1. chunk'[i] = chunk[i]
      <4>1. i \in DOMAIN chunk
        BY DEF Inv, Tables
      <4> QED BY <2>2, <4>1, CommitEffect
    <3> QED BY <1>2, <3>1 DEF WrittenOnce
  <2>3. CASE Commit(r) /\ i = work[r].cur
    <3>1. /\ chunk' = [chunk EXCEPT ![i] = Pieces(r, work[r].n)]
          /\ work[r].n \in 1..MaxPieces
          /\ pc[r] = "record" /\ pc'[r] = "next" /\ work'[r] = Idling(r)
      BY <2>3, CommitEffect
    <3>2. i \in DOMAIN chunk /\ i # 0
      BY DEF Inv, Tables
    <3>3. chunk'[i][0].by = r
      BY <3>1, <3>2, WriterOf
    <3>4. i \notin work[r].todo
      BY <2>3, <3>1, Before DEF RunOK, Busy
    <3>5. Past(r, i)'
      BY <3>1, <3>2, <3>4, IdlingFields DEF Past
    <3> QED BY <3>3, <3>5
  <2> QED BY <2>1, <2>2, <2>3, StepShape
<1>4. ASSUME NEW q \in Run
      PROVE  /\ DOMAIN work'[q].listed \subseteq DOMAIN memory
             /\ \A i \in DOMAIN work'[q].listed : PastOf(work'[q].listed[i], i)
  <2>1. CASE work'[q].listed = work[q].listed
    BY <2>1 DEF WrittenOnce
  <2>2. CASE work'[q].listed = [i \in Corpus |-> chunk[i]]
    BY <2>2 DEF WrittenOnce, Corpus
  <2> QED BY <2>1, <2>2, StepShape DEF Moves
<1>5. ASSUME NEW q \in Run, NEW i \in DOMAIN work'[q].listed
      PROVE  \A p \in Run : work'[q].listed[i][0].by = p => Past(p, i)'
  BY <1>2, <1>4
<1> QED BY <1>1, <1>3, <1>4, <1>5 DEF WrittenOnce, PastOf

LEMMA ReplacedStep ==
  ASSUME Inv, WrittenOnce, Replaced, NEW r \in Run, Step(r) \/ Fail(r)
  PROVE  Replaced'
<1> SUFFICES ASSUME NEW q \in Run, NEW i \in DOMAIN work'[q].listed \ Blank,
                    pc'[q] \notin {"refused", "failed"}, Past(q, i)'
             PROVE  chunk'[i] # work'[q].listed[i]
  BY DEF Replaced
\* A list just made is still to be done.
<1>1. work'[q].listed = work[q].listed
  <2>1. CASE q # r
    BY <2>1, StepShape DEF Moves
  <2>2. CASE q = r /\ work'[r].todo = Corpus /\ work'[r].listed = [j \in Corpus |-> chunk[j]]
    BY <2>2 DEF Past
  <2> QED BY <2>1, <2>2, StepShape
<1>2. i \in DOMAIN memory
  BY <1>1 DEF WrittenOnce
\* What is written now was not written when the list was made.
<1>3. CASE Commit(r) /\ i = work[r].cur
  <2>1. /\ chunk' = [chunk EXCEPT ![i] = Pieces(r, work[r].n)]
        /\ work[r].n \in 1..MaxPieces
    BY <1>3, CommitEffect
  <2>2. i \in DOMAIN chunk
    BY <1>2 DEF Inv, Tables
  <2>3. chunk'[i][0].by = r
    BY <2>1, <2>2, WriterOf
  <2>4. ~Past(r, i)
    BY <1>3 DEF Past
  <2>5. work[q].listed[i][0].by # r
    BY <1>1, <2>4 DEF WrittenOnce, PastOf
  <2> QED BY <1>1, <2>3, <2>5
<1>4. CASE ~(Commit(r) /\ i = work[r].cur)
  <2>1. chunk'[i] = chunk[i]
    <3>1. CASE Commit(r)
      <4>1. i \in DOMAIN chunk
        BY <1>2 DEF Inv, Tables
      <4> QED BY <1>4, <3>1, <4>1, CommitEffect
    <3>2. CASE UNCHANGED tables
      BY <3>2 DEF tables
    <3> QED BY <3>1, <3>2, StepShape
  <2>2. pc[q] \notin {"refused", "failed"} /\ Past(q, i)
    <3>1. CASE q # r
      <4>1. pc'[q] = pc[q] /\ work'[q] = work[q]
        BY <3>1, StepShape DEF Moves
      <4> QED BY <4>1 DEF Past
    <3>2. CASE q = r
      <4>1. i # 0
        BY <1>2 DEF Inv, Tables
      <4>2. i \notin work'[r].todo /\ i # work'[r].cur /\ i \notin Blank
        BY <3>2 DEF Past
      <4>3. ~(work'[r].todo = Corpus /\ work'[r].listed = [j \in Corpus |-> chunk[j]])
        BY <3>2, <4>2
      <4> QED BY <1>4, <3>2, <4>1, <4>2, <4>3, StepShape DEF Past, Final
    <3> QED BY <3>1, <3>2
  <2> QED BY <1>1, <2>1, <2>2 DEF Replaced
<1> QED BY <1>3, <1>4

\* The servers add chunks that are not of a run, and lists are left alone.
LEMMA ListsStay ==
  ASSUME Inv, WrittenOnce, Replaced,
         \/ \E w \in Server : Save(w)
         \/ \E i \in DOMAIN memory : Forget(i) \/ Restore(i)
         \/ UNCHANGED vars
  PROVE  WrittenOnce' /\ Replaced'
<1>1. UNCHANGED <<pc, work>>
  BY DEF Save, Forget, Restore, vars
<1>2. PICK N \in Nat : DOMAIN memory = 1..N
  BY DEF Inv, Tables
<1>3. ASSUME NEW w \in Server, Save(w)
      PROVE  /\ DOMAIN memory' = 1..(N + 1)
             /\ \A i \in 1..N : chunk'[i] = chunk[i]
             /\ \A q \in Run : chunk'[N + 1][0].by # q
  <2>1. PICK n \in 1..MaxPieces :
          chunk' = [i \in 1..(N + 1) |-> IF i < N + 1 THEN chunk[i] ELSE Pieces(w, n)]
    BY <1>2, <1>3, SaveEffect
  <2>2. DOMAIN memory' = 1..(N + 1)
    BY <1>2, <1>3, SaveEffect
  <2>3. chunk'[N + 1][0].by = w
    BY <2>1, WriterOf
  <2> QED BY <2>1, <2>2, <2>3, ReindexAssumption DEF ReindexAssumption
<1>4. CASE \E i \in DOMAIN memory : Forget(i) \/ Restore(i)
  BY <1>1, <1>4 DEF Forget, Restore, WrittenOnce, Replaced, PastOf, Past
<1>5. CASE UNCHANGED vars
  BY <1>5 DEF vars, WrittenOnce, Replaced, PastOf, Past
<1>6. ASSUME NEW w \in Server, Save(w)
      PROVE  WrittenOnce' /\ Replaced'
  <2>1. /\ DOMAIN memory' = 1..(N + 1)
        /\ \A i \in 1..N : chunk'[i] = chunk[i]
        /\ \A q \in Run : chunk'[N + 1][0].by # q
    BY <1>3, <1>6
  <2>2. 1..(N + 1) = (1..N) \cup {N + 1}
    OBVIOUS
  <2>3. WrittenOnce'
    BY <1>1, <1>2, <2>1, <2>2 DEF WrittenOnce, PastOf, Past
  <2>4. Replaced'
    BY <1>1, <1>2, <2>1 DEF Replaced, WrittenOnce, Past
  <2> QED BY <2>3, <2>4
<1> QED BY <1>4, <1>5, <1>6

LEMMA NothingListed ==
  ASSUME Init
  PROVE  WrittenOnce /\ Replaced
<1>1. \A r \in Run : DOMAIN work[r].listed = {} /\ pc[r] = "check"
  BY DEF Init, Idle
<1>2. PICK w \in Server, n \in 1..MaxPieces :
        chunk = [i \in 1..First |-> Pieces(w, n)] /\ DOMAIN memory = 1..First
  BY DEF Init
<1>3. \A i \in DOMAIN memory : chunk[i][0].by \notin Run
  BY <1>2, WriterOf, ReindexAssumption DEF ReindexAssumption
<1> QED BY <1>1, <1>3 DEF WrittenOnce, Replaced, PastOf

\* A run that says it is done has replaced the chunks of every memory it listed,
\* whatever other runs have done to them in the meantime (reindex.rs).
THEOREM DoneReplacedAll == Spec => []NothingLeftBehind
<1>1. Init => Inv /\ WrittenOnce /\ Replaced
  BY InitOK, NothingListed
<1>2. Inv /\ WrittenOnce /\ Replaced /\ [Next]_vars
        => (Inv /\ WrittenOnce /\ Replaced)'
  <2>1. ASSUME Inv, WrittenOnce, Replaced, [Next]_vars
        PROVE  (Inv /\ WrittenOnce /\ Replaced)'
    <3>1. Inv'
      BY <2>1, NextOK
    <3>2. \/ \E r \in Run : Step(r) \/ Fail(r)
          \/ \E w \in Server : Save(w)
          \/ \E i \in DOMAIN memory : Forget(i) \/ Restore(i)
          \/ UNCHANGED vars
      BY <2>1 DEF Next
    <3> QED BY <2>1, <3>1, <3>2, WrittenOnceStep, ReplacedStep, ListsStay
  <2> QED BY <2>1
<1>3. Inv /\ WrittenOnce /\ Replaced => NothingLeftBehind
  <2> SUFFICES ASSUME Inv, WrittenOnce, Replaced, NEW r \in Run, pc[r] = "done",
                      NEW i \in DOMAIN work[r].listed \ Blank
               PROVE  chunk[i] # work[r].listed[i]
    BY DEF NothingLeftBehind
  <2>1. i # 0
    BY DEF WrittenOnce, Inv, Tables
  <2>2. i \notin work[r].todo /\ work[r].cur = 0
    BY Before DEF RunOK, Busy
  <2> QED BY <2>1, <2>2 DEF Past, Replaced
<1> QED BY <1>1, <1>2, <1>3, PTL DEF Spec

-----------------------------------------------------------------------------
(* The model check.                                                        *)

RunsAgree == \A q, r \in Run : ModelOf[q] = ModelOf[r]

\* What a run saw in the corpus keeps the run's model.
SeenStays ==
  \A r \in Run : \A i \in work[r].seen :
    i \in DOMAIN memory /\ memory[i].model = ModelOf[r]

\* With runs of one model, whoever writes a memory that was seen leaves it its
\* model.
LEMMA SeenStep ==
  ASSUME RunsAgree, Inv, SeenStays, NEW r \in Run, Step(r) \/ Fail(r)
  PROVE  SeenStays'
<1> SUFFICES ASSUME NEW q \in Run, NEW i \in work'[q].seen
             PROVE  i \in DOMAIN memory' /\ memory'[i].model = ModelOf[q]
  BY DEF SeenStays
<1>1. i \in DOMAIN memory /\ memory[i].model = ModelOf[q]
  <2>1. CASE i \in work[q].seen
    BY <2>1 DEF SeenStays
  <2>2. CASE q = r /\ ~Foreign(r) /\ i \in Corpus
    BY <2>2 DEF Foreign, Corpus
  <2> QED BY <2>1, <2>2, StepShape DEF Moves
<1>2. memory'[i].model = ModelOf[q]
  <2>1. CASE UNCHANGED tables
    BY <1>1, <2>1 DEF tables
  <2>2. CASE Commit(r)
    <3>1. memory' = [memory EXCEPT ![work[r].cur].model = ModelOf[r]]
      BY <2>2, CommitEffect
    <3>2. PICK N \in Nat : memory \in [1..N -> [model : Model, forgotten : BOOLEAN]]
      BY DEF Inv, Tables
    <3> QED BY <1>1, <3>1, <3>2 DEF RunsAgree
  <2> QED BY <2>1, <2>2, StepShape
<1> QED BY <1>1, <1>2, IdsStay

LEMMA SeenStaysBeside ==
  ASSUME Inv, SeenStays,
         \/ \E w \in Server : Save(w)
         \/ \E i \in DOMAIN memory : Forget(i) \/ Restore(i)
         \/ UNCHANGED vars
  PROVE  SeenStays'
<1>1. UNCHANGED work
  BY DEF Save, Forget, Restore, vars
<1>2. PICK N \in Nat : memory \in [1..N -> [model : Model, forgotten : BOOLEAN]]
  BY DEF Inv, Tables
<1>3. \A i \in DOMAIN memory : i \in DOMAIN memory' /\ memory'[i].model = memory[i].model
  <2>1. ASSUME NEW w \in Server, Save(w), NEW i \in 1..N
        PROVE  i \in DOMAIN memory' /\ memory'[i] = memory[i]
    <3>1. memory' = [j \in 1..(N + 1) |-> IF j < N + 1 THEN memory[j]
                                          ELSE [model |-> ModelOf[w], forgotten |-> FALSE]]
      BY <1>2, <2>1, SaveEffect
    <3> QED BY <3>1
  <2>2. ASSUME NEW j \in DOMAIN memory, Forget(j) \/ Restore(j)
        PROVE  \A i \in DOMAIN memory : i \in DOMAIN memory' /\ memory'[i].model = memory[i].model
    <3>1. PICK b \in BOOLEAN : memory' = [memory EXCEPT ![j].forgotten = b]
      BY <2>2 DEF Forget, Restore
    <3> QED BY <1>2, <3>1
  <2>3. CASE UNCHANGED vars
    BY <2>3 DEF vars
  <2> QED BY <1>2, <2>1, <2>2, <2>3
<1> QED BY <1>1, <1>3 DEF SeenStays

\* With one CTXDB_EMBED_MODEL for all runs, a run converts no memory that was in
\* the corpus when it checked: only newcomers can be of another model.  (Runs of
\* two models can convert each other's, if one checks an empty corpus.)
THEOREM SeenNotConverted ==
  ASSUME RunsAgree
  PROVE  Spec => OnlyNewcomersConverted
<1>1. Init => Inv /\ SeenStays
  <2> SUFFICES ASSUME Init
               PROVE  SeenStays
    BY InitOK
  <2>1. \A r \in Run : work[r].seen = {}
    BY DEF Init, Idle
  <2> QED BY <2>1 DEF SeenStays
<1>2. Inv /\ SeenStays /\ [Next]_vars => (Inv /\ SeenStays)'
  <2>1. ASSUME Inv, SeenStays, [Next]_vars
        PROVE  (Inv /\ SeenStays)'
    <3>1. Inv'
      BY <2>1, NextOK
    <3>2. \/ \E r \in Run : Step(r) \/ Fail(r)
          \/ \E w \in Server : Save(w)
          \/ \E i \in DOMAIN memory : Forget(i) \/ Restore(i)
          \/ UNCHANGED vars
      BY <2>1 DEF Next
    <3> QED BY <2>1, <3>1, <3>2, RunsAgree, SeenStep, SeenStaysBeside
  <2> QED BY <2>1
<1>3. Inv /\ SeenStays /\ [Next]_vars =>
        [\A r \in Run : pc[r] = "record" /\ pc'[r] = "next" =>
           LET i == work[r].cur
           IN memory[i].model # memory'[i].model => i \notin work[r].seen]_vars
  <2> SUFFICES ASSUME Inv, SeenStays, [Next]_vars, NEW r \in Run,
                      pc[r] = "record", pc'[r] = "next",
                      work[r].cur \in work[r].seen
               PROVE  memory[work[r].cur].model = memory'[work[r].cur].model
    OBVIOUS
  <2>1. PICK q \in Run : Step(q) \/ Fail(q)
    BY DEF Next, Save, Forget, Restore, vars
  <2>2. SeenStays'
    BY <2>1, RunsAgree, SeenStep
  <2>3. q = r
    BY <2>1, StepShape DEF Moves
  <2>4. Commit(r)
    BY <2>1, <2>3 DEF Step, Check, List, Take, Finish, DeleteStarts, DeleteEnds, Insert,
       Fail, GiveUp, Stop, Goto, Inv
  <2>5. memory' = [memory EXCEPT ![work[r].cur].model = ModelOf[r]]
    BY <2>4, CommitEffect
  <2>6. PICK N \in Nat : memory \in [1..N -> [model : Model, forgotten : BOOLEAN]]
    BY DEF Inv, Tables
  <2>7. work[r].cur \in DOMAIN memory /\ memory[work[r].cur].model = ModelOf[r]
    BY DEF SeenStays
  <2> QED BY <2>5, <2>6, <2>7
<1> QED BY <1>1, <1>2, <1>3, PTL DEF Spec, OnlyNewcomersConverted
=============================================================================
