-------------------------------- MODULE Ingest --------------------------------
(***************************************************************************)
(* Hooks that store the summary of a compaction (ingest.rs, --ingest).     *)
(*                                                                         *)
(* A hook is a process of its own, started by the client after a           *)
(* compaction or again by hand.  It takes the summary from its payload or, *)
(* later, from the transcript; looks for an unforgotten memory of its      *)
(* project with that body; and if there is none, embeds the summary and    *)
(* saves it.  The look and the save are separate transactions, with calls  *)
(* to the embedding server in between.  A failure, or the client's timeout *)
(* (60 s, README.md), ends a hook anywhere; one killed while it waits for  *)
(* its COMMIT may have stored the memory all the same.                     *)
(*                                                                         *)
(* Summaries are numbered in the order they are written.  The same summary *)
(* reaches a hook in two shapes: as the compaction wrote it, and wrapped   *)
(* in prose in the transcript of a session that continues another.         *)
(***************************************************************************)
EXTENDS Naturals, SequencesExt

CONSTANTS
  Hook,          \* hook processes
  Session,       \* sessions of the client
  DirOf,         \* session -> the project it runs in
  Absent,        \* no entry, no body
  MaxSummaries,  \* bound: compactions
  MaxMemories    \* bound: memories

ASSUME IngestAssumption ==
  /\ DOMAIN DirOf = Session
  /\ MaxSummaries \in Nat /\ MaxMemories \in Nat

Project == {DirOf[s] : s \in Session}

VARIABLES
  transcript,  \* session -> its summary entries, oldest first
  written,     \* number of summaries written so far
  memory,      \* id -> what hooks have saved, as committed
  pc,          \* the step each hook is at
  job          \* what it holds

ingestVars == <<transcript, written, memory, pc, job>>

\* A "stub" is shorter than MIN_SUMMARY_CHARS once stripped; message_text finds
\* no text in a "blank".
Entry == [number : 1..MaxSummaries,
          shape : {"raw", "continued"},
          kind : {"summary", "stub", "blank"}]

Body == [number : 1..MaxSummaries, headed : BOOLEAN]

\* Of a raw entry the text between the tags stays; of a continued one, the text
\* from "Summary:" on, that word included.
Strip(e) == [number |-> e.number, headed |-> e.shape = "continued"]

\* The entries message_text finds text in.
WithText(t) == {k \in DOMAIN t : t[k].kind # "blank"}

\* Variant: the first entry wins.
FirstWithText(t) == IF WithText(t) = {} THEN Absent ELSE t[Min(WithText(t))]

\* Entries are tried from the last one back until one has text.
LastWithText(t) == IF WithText(t) = {} THEN Absent ELSE t[Max(WithText(t))]

\* The name of the directory in the payload, unless it has none or
\* CTXDB_NAMESPACE is set; then what the process started with.
Namespace(cwd, own, pinned) == IF pinned \/ cwd = Absent THEN own ELSE cwd

\* Variant: what has been superseded does not count.
StoredAndCurrent(ns, body) ==
  {i \in DOMAIN memory :
     memory[i].ns = ns /\ memory[i].body = body /\ ~memory[i].forgotten /\ ~memory[i].retired}

\* Variant: in whatever project.
StoredAnywhere(ns, body) ==
  {i \in DOMAIN memory : memory[i].body = body /\ ~memory[i].forgotten}

\* find_by_body, which does not look at superseded_by.
Stored(ns, body) ==
  {i \in DOMAIN memory : memory[i].ns = ns /\ memory[i].body = body /\ ~memory[i].forgotten}

Idle == [session |-> Absent, given |-> Absent, ns |-> Absent, body |-> Absent,
         told |-> FALSE,  \* history: the payload decides the project
         due |-> 0,       \* history: the summary that was last when it started
         before |-> {}]   \* history: the memories there were then

IngestInit ==
  /\ transcript = [s \in Session |-> <<>>]
  /\ written = 0
  /\ memory = <<>>
  /\ pc = [h \in Hook |-> "idle"]
  /\ job = [h \in Hook |-> Idle]

-----------------------------------------------------------------------------
(* The client's sessions, and calls on what has been stored.               *)

Compact(s, kind) ==
  /\ written < MaxSummaries
  /\ written' = written + 1
  /\ transcript' = [transcript EXCEPT
       ![s] = Append(@, [number |-> written + 1, shape |-> "raw", kind |-> kind])]
  /\ UNCHANGED <<memory, pc, job>>

\* A session starts from the last summary of another of the same project.
Continue(s, from) ==
  /\ DirOf[s] = DirOf[from] /\ transcript[s] = <<>> /\ transcript[from] # <<>>
  /\ transcript' = [transcript EXCEPT
       ![s] = <<[Last(transcript[from]) EXCEPT !.shape = "continued"]>>]
  /\ UNCHANGED <<written, memory, pc, job>>

Mark(i, row) ==
  /\ row # memory[i]
  /\ memory' = [memory EXCEPT ![i] = row]
  /\ UNCHANGED <<transcript, written, pc, job>>

Forget(i) == Mark(i, [memory[i] EXCEPT !.forgotten = TRUE, !.kept = FALSE])
Restore(i) == Mark(i, [memory[i] EXCEPT !.forgotten = FALSE])

\* A save consolidates the memory into another.
Retire(i) == ~memory[i].forgotten /\ Mark(i, [memory[i] EXCEPT !.retired = TRUE])

-----------------------------------------------------------------------------
(* A hook.                                                                 *)

Goto(h, label, j) == pc' = [pc EXCEPT ![h] = label] /\ job' = [job EXCEPT ![h] = j]

End(h, label) == Goto(h, label, Idle)

Newest(t) == Max({0} \cup {t[k].number : k \in WithText(t)})

\* The client starts it with a payload that may lack cwd, and may carry the
\* summary; own is the directory it starts in, or CTXDB_NAMESPACE if pinned.
Start(h, s, own) ==
  /\ pc[h] = "idle" /\ transcript[s] # <<>>
  /\ \E cwd \in {DirOf[s], Absent}, pinned \in BOOLEAN,
        given \in {LastWithText(transcript[s]), Absent} :
       Goto(h, "take",
            [Idle EXCEPT !.session = s, !.given = given,
                         !.ns = Namespace(cwd, own, pinned),
                         !.told = cwd # Absent /\ ~pinned,
                         !.due = Newest(transcript[s]),
                         !.before = DOMAIN memory])
  /\ UNCHANGED <<transcript, written, memory>>

\* summary_text, strip_preamble and the test of the length.
Take(h) ==
  LET j == job[h]
      e == IF j.given # Absent THEN j.given ELSE LastWithText(transcript[j.session])
  IN /\ pc[h] = "take"
     /\ IF e = Absent \/ e.kind = "stub"
        THEN End(h, "skipped")
        ELSE Goto(h, "look", [j EXCEPT !.given = Absent, !.body = Strip(e)])
     /\ UNCHANGED <<transcript, written, memory>>

Look(h) ==
  /\ pc[h] = "look"
  /\ IF Stored(job[h].ns, job[h].body) # {}
     THEN End(h, "present")
     ELSE Goto(h, "save", job[h])
  /\ UNCHANGED <<transcript, written, memory>>

\* The summary is cut and embedded, then saved in one transaction, whose end the
\* hook may not live to hear of.
Save(h) ==
  /\ pc[h] = "save" /\ Len(memory) < MaxMemories
  /\ memory' = Append(memory,
       [ns |-> job[h].ns, body |-> job[h].body, forgotten |-> FALSE, retired |-> FALSE,
        kept |-> TRUE,              \* history: it was never forgotten
        before |-> job[h].before])  \* history: of the hook
  /\ \E label \in {"stored", "failed"} : End(h, label)
  /\ UNCHANGED <<transcript, written>>

Fail(h) ==
  /\ pc[h] \in {"take", "look", "save"}
  /\ End(h, "failed")
  /\ UNCHANGED <<transcript, written, memory>>

IngestNext ==
  \/ \E h \in Hook :
       \/ \E s \in Session, own \in Project : Start(h, s, own)
       \/ Take(h) \/ Look(h) \/ Save(h) \/ Fail(h)
  \/ \E s \in Session, kind \in {"summary", "stub", "blank"} : Compact(s, kind)
  \/ \E s, from \in Session : Continue(s, from)
  \/ \E i \in DOMAIN memory : Forget(i) \/ Restore(i) \/ Retire(i)

IngestSpec == IngestInit /\ [][IngestNext]_ingestVars

-----------------------------------------------------------------------------
(* Correctness.                                                            *)

\* A hook started when a memory with its body is in its project adds no other,
\* unless someone has forgotten that memory: "Re-running the hook on the
\* same summary is a no-op" (README.md).  That covers a hook run again after one
\* that was killed too late, and after the memory was superseded.  Only hooks
\* that overlap, or see a summary in two shapes, store it twice.
RerunIsNoOp ==
  \A i, j \in DOMAIN memory :
    /\ i # j
    /\ memory[i].ns = memory[j].ns /\ memory[i].body = memory[j].body
    /\ memory[i].kept
    => i \notin memory[j].before

\* A hook that ends well leaves a summary of its session, no older than the last
\* one when it started, unforgotten, in the project its payload named: "a
\* session that compacted twice must ingest the summary just written, not the
\* first one" (ingest.rs).
EndsWell(h) == pc[h] \notin {"stored", "present"} /\ pc'[h] \in {"stored", "present"}

Recorded ==
  [][\A h \in Hook : EndsWell(h) =>
       \E i \in DOMAIN memory' :
         /\ ~memory'[i].forgotten
         /\ memory'[i].ns = (IF job[h].told THEN DirOf[job[h].session] ELSE job[h].ns)
         /\ memory'[i].body \in {Strip(e) : e \in ToSet(transcript[job[h].session])}
         /\ memory'[i].body.number >= job[h].due]_ingestVars
=============================================================================
