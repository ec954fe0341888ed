------------------------------- MODULE Reindex -------------------------------
(***************************************************************************)
(* The chunks of memories, and the runs of --reindex that replace them     *)
(* (reindex.rs; db.rs, replace_chunks), several at a time, beside servers  *)
(* that save and forget.  Statements run at READ COMMITTED: a DELETE finds *)
(* the rows committed when it starts and waits for those that another      *)
(* transaction is deleting; it never sees what that transaction put in     *)
(* their place, which UNIQUE (memory_id, ord) then refuses to duplicate.   *)
(*                                                                         *)
(* A chunk is the writer it comes from and the number of pieces that       *)
(* writer cut the body into, which depends on the embedding server's       *)
(* tokenizer and so may differ from one call to the next.  A failure of    *)
(* the embedding server, of the database or of the process ends a run at   *)
(* whatever statement it has reached.  A dry run writes nothing.           *)
(***************************************************************************)
EXTENDS Naturals, FiniteSets, FiniteSetsExt

CONSTANTS
  Server,     \* processes that save
  Run,        \* runs of --reindex
  ModelOf,    \* CTXDB_EMBED_MODEL of each
  First,      \* memories saved before the runs start
  Blank,      \* those of them with nothing but white space in the body
  MaxId,      \* bound: memories
  MaxPieces,  \* bound: pieces a body is cut into
  MayForget   \* bound: memories that may be forgotten and restored

ASSUME ReindexAssumption ==
  /\ Server \cap Run = {} /\ DOMAIN ModelOf = Server \cup Run
  /\ First \in Nat /\ MaxId \in Nat /\ First <= MaxId /\ Blank \subseteq 1..First
  /\ MaxPieces \in Nat \ {0}

VARIABLES
  memory,   \* id -> embed_model and forgotten_at IS NOT NULL
  chunk,    \* id -> ord -> chunk, as committed
  pc,       \* the statement each run is at
  work      \* what it holds

vars == <<memory, chunk, pc, work>>
tables == <<memory, chunk>>

Corpus == {i \in DOMAIN memory : ~memory[i].forgotten}

Piece(w, n) == [by |-> w, of |-> n]
Pieces(w, n) == [k \in 0..(n - 1) |-> Piece(w, n)]

Idle == [seen |-> {},      \* history: memories in the corpus when it was checked
         todo |-> {},      \* memories not reindexed yet
         listed |-> <<>>,  \* history: the chunks they had when listed
         cur |-> 0,        \* the memory being reindexed
         n |-> 0,          \* pieces its body was cut into
         found |-> {},     \* rows the DELETE found
         gone |-> {},      \* rows it deleted
         put |-> {}]       \* ords inserted

\* Every memory comes from a save, which cuts the body and embeds every piece.
Init ==
  /\ \E w \in Server, n \in 1..MaxPieces :
       /\ memory = [i \in 1..First |-> [model |-> ModelOf[w], forgotten |-> FALSE]]
       /\ chunk = [i \in 1..First |-> Pieces(w, n)]
  /\ pc = [r \in Run |-> "check"]
  /\ work = [r \in Run |-> Idle]

-----------------------------------------------------------------------------
(* The servers.                                                            *)

Save(w) ==
  LET id == Cardinality(DOMAIN memory) + 1
  IN /\ id <= MaxId
     /\ memory' = [i \in 1..id |-> IF i < id THEN memory[i]
                                   ELSE [model |-> ModelOf[w], forgotten |-> FALSE]]
     /\ \E n \in 1..MaxPieces :
          chunk' = [i \in 1..id |-> IF i < id THEN chunk[i] ELSE Pieces(w, n)]
     /\ UNCHANGED <<pc, work>>

Forget(i) ==
  /\ i \in Corpus \cap MayForget
  /\ memory' = [memory EXCEPT ![i].forgotten = TRUE]
  /\ UNCHANGED <<chunk, pc, work>>

Restore(i) ==
  /\ i \in DOMAIN memory \cap MayForget /\ memory[i].forgotten
  /\ memory' = [memory EXCEPT ![i].forgotten = FALSE]
  /\ UNCHANGED <<chunk, pc, work>>

-----------------------------------------------------------------------------
(* A run.                                                                  *)

Goto(r, label, w) == pc' = [pc EXCEPT ![r] = label] /\ work' = [work EXCEPT ![r] = w]

\* The transaction of the current memory is over.
Idling(r) ==
  [Idle EXCEPT !.seen = work[r].seen, !.todo = work[r].todo, !.listed = work[r].listed]

\* Variant: the connection keeps its transaction when the run gives up.
StopLeaky(r, label) == Goto(r, label, work[r])

\* The run ends; a transaction it had open is rolled back.
Stop(r, label) == Goto(r, label, [Idling(r) EXCEPT !.seen = {}])

\* Variant: refused only when no memory is of the run's model.
ForeignIfAll(r) == \A i \in Corpus : memory[i].model # ModelOf[r]

\* embed_models_in_use.
Foreign(r) == \E i \in Corpus : memory[i].model # ModelOf[r]

Check(r) ==
  /\ pc[r] = "check"
  /\ IF Foreign(r)
     THEN Stop(r, "refused")
     ELSE Goto(r, "list", [work[r] EXCEPT !.seen = Corpus])
  /\ UNCHANGED tables

\* rows_to_reindex; then the embedding server must answer a ping.
List(r) ==
  /\ pc[r] = "list"
  /\ Goto(r, IF Corpus = {} THEN "done" ELSE "next",
          [work[r] EXCEPT !.todo = Corpus, !.listed = [i \in Corpus |-> chunk[i]]])
  /\ UNCHANGED tables

\* The next memory in id order is cut and embedded.  A blank one is left alone.
Take(r) ==
  /\ pc[r] = "next" /\ work[r].todo # {}
  /\ LET i == Min(work[r].todo)
         w == [Idling(r) EXCEPT !.todo = @ \ {i}]
     IN IF i \in Blank
        THEN Goto(r, "next", w)
        ELSE \E n \in 1..MaxPieces : Goto(r, "delete", [w EXCEPT !.cur = i, !.n = n])
  /\ UNCHANGED tables

Finish(r) ==
  /\ pc[r] = "next" /\ work[r].todo = {}
  /\ Stop(r, "done")
  /\ UNCHANGED tables

RowsNow(i) == {<<k, chunk[i][k]>> : k \in DOMAIN chunk[i]}
Others(r) == {q \in Run \ {r} : work[q].cur = work[r].cur}

\* BEGIN; DELETE starts.
DeleteStarts(r) ==
  /\ pc[r] = "delete"
  /\ Goto(r, "deleting", [work[r] EXCEPT !.found = RowsNow(work[r].cur)])
  /\ UNCHANGED tables

\* DELETE ends: rows another transaction deleted meanwhile are passed over.
DeleteEnds(r) ==
  /\ pc[r] = "deleting"
  /\ \A q \in Others(r) : work[q].gone \cap work[r].found = {}
  /\ Goto(r, "insert", [work[r] EXCEPT !.gone = work[r].found \cap RowsNow(work[r].cur)])
  /\ UNCHANGED tables

\* Variant: ON CONFLICT DO UPDATE.
NeverTaken(r, k) == FALSE

\* UNIQUE (memory_id, ord): a row committed, and not deleted by this run.
Taken(r, k) ==
  \E row \in RowsNow(work[r].cur) \ work[r].gone : row[1] = k

\* The check waits for a transaction that is inserting or deleting such a row.
Undecided(r, k) ==
  \E q \in Others(r) : k \in work[q].put \/ \E row \in work[q].gone : row[1] = k

Insert(r) ==
  LET k == Cardinality(work[r].put)
      w == [work[r] EXCEPT !.put = @ \cup {k}]
  IN /\ pc[r] = "insert"
     /\ ~Undecided(r, k)
     /\ IF Taken(r, k)
        THEN Stop(r, "failed")
        ELSE Goto(r, IF k + 1 = work[r].n THEN "record" ELSE "insert", w)
     /\ UNCHANGED tables

\* UPDATE memory SET embed_model; COMMIT.
Commit(r) ==
  LET i == work[r].cur
      put == work[r].put
      kept == {row[1] : row \in RowsNow(i) \ work[r].gone}
  IN /\ pc[r] = "record"
     /\ chunk' = [chunk EXCEPT ![i] =
          [k \in put \cup kept |-> IF k \in put THEN Piece(r, work[r].n) ELSE @[k]]]
     /\ memory' = [memory EXCEPT ![i].model = ModelOf[r]]
     /\ Goto(r, "next", Idling(r))

Final == {"done", "refused", "failed"}

\* Variant: a memory that could not be embedded is passed over.
GiveUpMemory(r) == Goto(r, IF pc[r] \in {"check", "list"} THEN "failed" ELSE "next", Idling(r))

\* An error ends the run.
GiveUp(r) == Stop(r, "failed")

Fail(r) ==
  /\ pc[r] \notin Final
  /\ GiveUp(r)
  /\ UNCHANGED tables

Step(r) ==
  \/ Check(r) \/ List(r) \/ Take(r) \/ Finish(r)
  \/ DeleteStarts(r) \/ DeleteEnds(r) \/ Insert(r) \/ Commit(r)

Next ==
  \/ \E r \in Run : Step(r) \/ Fail(r)
  \/ \E w \in Server : Save(w)
  \/ \E i \in DOMAIN memory : Forget(i) \/ Restore(i)

Spec == Init /\ [][Next]_vars

\* The embedding server answers within its 120 s or the call fails; PostgreSQL
\* completes a statement that waits for nobody.
FairSpec == Spec /\ \A r \in Run : WF_vars(Step(r))

-----------------------------------------------------------------------------
(* Correctness.                                                            *)

\* A memory's chunks are all the pieces of one cut of its body, by one writer,
\* and embed_model names the model of that writer: however runs overlap and
\* wherever they stop, no memory is left without chunks, with some of them, or
\* with vectors its row does not own up to (replace_chunks).
Whole ==
  \A i \in DOMAIN memory :
    \E w \in Server \cup Run, n \in 1..MaxPieces :
      chunk[i] = Pieces(w, n) /\ memory[i].model = ModelOf[w]

\* A run that says it is done has left no memory it listed on the chunks it had
\* then: "a reindex that quietly half-finishes is worse than one that stops and
\* says so" (reindex.rs).
NothingLeftBehind ==
  \A r \in Run : pc[r] = "done" =>
    \A i \in DOMAIN work[r].listed \ Blank : chunk[i] # work[r].listed[i]

\* Every run ends: runs that meet on a memory do not wait for ever.
RunsEnd == \A r \in Run : <>(pc[r] \in Final)

\* "It refuses to start if the corpus holds a model other than
\* CTXDB_EMBED_MODEL" (README.md, --reindex): a run turns a memory of another
\* model into one of its own only if that memory was saved or restored after the
\* run had checked.
OnlyNewcomersConverted ==
  [][\A r \in Run : pc[r] = "record" /\ pc'[r] = "next" =>
       LET i == work[r].cur
       IN memory[i].model # memory'[i].model => i \notin work[r].seen]_vars
=============================================================================
