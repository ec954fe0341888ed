# Verification of context-database-mcp

TLA+ models of the memory store, its graph and search expansion, the chunker,
the maintenance jobs that reindex, ingest and report, and the guard in front of
the protocol library, checked with TLC; and proofs, checked with TLAPS, of every
safety property those checks are about: invariants, action properties and the
three refinements.
Line numbers refer to the repository at the commit these files sit beside.

## 1. The system

One process per MCP client (`main.rs`) serves tools that save, search, link and
forget memories in a PostgreSQL database that all processes share. The same
binary, started with an argument, runs maintenance jobs against the same
database. There is no other coordination between processes: what they must not
do to each other's data is decided by SQL.

| Part | State | Operations | Hard because |
|---|---|---|---|
| store (`db.rs`, `migrations/`) | tables `memory`, `memory_edge`, `memory_chunk` | save, link, forget, forget_edge, restore | several processes; statements of one call interleave with other calls (READ COMMITTED); crashes, deadlocks; the caller may name any id |
| graph (`graph.rs`, `load_graph`) | none: built from the tables on every call | build, resolve, links, linked, dropped, related | supersede chains move edges; merges create self-edges and duplicates and can be undone |
| search (`db::search`, `expand`, `context_search`) | none | search, expansion by edges, merge of both | bounded list; graph read later than the hits; unsigned arithmetic |
| embedder and chunker (`embed.rs`) | none | tokenize, cut, embed | remote calls that fail; windows that step back by an overlap and forward to a word |
| reindex (`reindex.rs`, `replace_chunks`) | `memory_chunk`, `embed_model` | check, list, replace | several runs at once, interrupted anywhere |
| ingest (`ingest.rs`) | none | take the newest summary, look it up, save it | two hooks at once; killed hooks run again; sessions that continue others |
| consolidate, edges (`consolidate.rs`, `edges.rs`) | none | reports on memories close to each other, and on edges | union-find over pairs in any order; several reads for one report; advice that later calls make wrong |
| admin (`admin.rs`) | none | restore, pin, save, link by hand | the same calls as the tools |
| probe guard (`probe.rs`) | `initialized` | answer a refused `server/discover` | order of the first messages |

What makes each part correct, and what can go wrong that a test would hardly
reach, is listed with its line under `hazards` in `PROJECT.json`; each hazard
names the properties that would catch it, or says why none does yet.

## 2. The modules

| Module | Models | Composes |
|---|---|---|
| `Schema` | the tables as values, and one operator per WHERE clause | |
| `StorePromise` | the transactions the store may commit: the abstract specification | `Schema` |
| `MemoryStore` | the writing calls, one at a time | `Schema`; implements `StorePromise` |
| `MemoryGraph` | `Graph::build`, `resolve`, `dropped` on the tables | `MemoryStore` |
| `StoreTx` | the same calls statement by statement, several sessions | `Schema`; implements `StorePromise` |
| `GraphWalk` | `Graph::related`, link by link | |
| `SearchExpand` | `graph::expand`, `ContextDb::expanded` and the merge in `context_search` | |
| `Chunker` | both ways of cutting a body, from the tokenizer's answer to the vectors | |
| `Overlap` | `consolidate::clusters` and its report, `edges::suggest` | |
| `Reindex` | runs of `--reindex` statement by statement, beside saves, forgets and restores | |
| `Ingest` | hooks that store compaction summaries, beside sessions and calls on what they stored | |
| `McpSession` | what a client may expect of a session: the abstract specification | |
| `Probe` | the guard between a client and rmcp | implements `McpSession` |
| `StorePromiseProofs`, `StoreTxProofs`, `ReindexProofs`, `OverlapProofs`, `ChunkerProofs` | theorems about the module of that name | |
| `MemoryStoreProofs` | theorems about `MemoryStore` and `MemoryGraph` | |
| `GraphWalkProofs` | theorems about `GraphWalk` and `SearchExpand` | |
| `ClientProofs` | theorems about `Probe` and `Ingest` | |
| `MC*` | small instances for TLC | |

### State and actions

*Tables.* `memory` and `edge` are functions from the ids present to rows. Rows
keep the columns that decide who sees what: client, namespace, `superseded_by`,
whether `forgotten_at` is set, whether `expires_at` has passed. Titles, bodies,
tags, times and access counters are left out. NULL is `None`, which is 0.

*MemoryStore.* One action per call: `Save`, `SaveFails` (the foreign key of
`supersedes_id`), `Link`, `Forget`, `ForgetEdge`, `Restore`; `Expire` is time
passing an `expires_at`, a column no call sets. Calls that are refused change
nothing and are not actions. A save does its INSERT, its UPDATE and its links in
that order (`AfterInsert`, `AfterSave`, `InsertEdges`).

*StoreTx.* A session is a connection with at most one call under way. `pc` is
the statement it runs next, `tx` what its transaction wrote and so locks. A save
is `Insert`, `RetireScan` (the UPDATE takes its snapshot), `RetireRow` for each
row (waiting for a locked row, then applying the WHERE clause again),
`RetireDone`, and for each link `Resolve` once per SELECT of `resolve_head`,
`PutEdge`, maybe `ReadExisting` (the SELECT of the edge in the way, by the key
`Sought`); then `Commit`. A restore is `Lock`
(`SELECT ... FOR UPDATE`), `Unhide`, `Commit`. `Crash` can strike before any
statement; a COMMIT whose answer is lost is `Commit`. `DeadlockAbort` is
PostgreSQL ending one transaction of a circle. `age` is a history variable, the
order in which memories were committed: ids are handed out before that and do
not give it.

*Reindex.* Chunks carry their writer and the number of pieces it cut. A run is
`Check`, `List`, and for each memory `Take` (cut and embed), `DeleteStarts`,
`DeleteEnds`, `Insert` per chunk, `Commit`; `Fail` can end it anywhere. The
DELETE and the INSERTs follow PostgreSQL's rules for rows that another
transaction is deleting or inserting. `Save`, `Forget` and `Restore` are the
servers'. `seen` is history: the memories a run's check has looked at.

*Chunker.* A text is a sequence of characters, told apart as far as the cut does
(of a word, ending a sentence, blank, newline). `Tokenize` is the server's answer
to `/tokenize`: offsets of tokens, which split words wherever `Splits` says, no such
route (then characters are counted), or a failure. `Whole` keeps a body that fits, `CutTokens` and
`CutChars` each cut one window, `Embed` is the call that gives all vectors or
none.

*Overlap.* `TakePair`, `Climb`, `Compress`, `FirstFound`, `Unite` are the loop of
`clusters` with both loops of `find`, one action per iteration, the pairs in any
order; `TakeMember`, `MemberFound` group the ids, in any order. `Report` reads and
prints one cluster. `LoadGraph`, `ReadNear` and `Suggest` are `suggest` and the
statements it reads in. `Hide` and `Link` are other processes, which act when a
report waits for a statement. The ten candidates that `--edges` prints of those it
found are not told apart: all count as suggested.

*Probe.* A client has a plan of messages (`Speak`, `Hangup`); an eager one does
not wait for answers. `Refuse`, `RefuseFails`, `Pass` and `EndOfInput` are what
one call of the guard's `receive` does with a message or the end of input;
`Handle` is rmcp, with the latch that `probe.rs` describes.

*Ingest.* A hook is `Start` (payload, project), `Take` (`summary_text`,
`strip_preamble`, the length), `Look` (`find_by_body`), `Save` (chunk, embed and
`db::save`, whose commit a killed hook may not hear of); `Fail` can end it
anywhere. A summary is its number, its shape and whether it has enough text.
`Compact` and `Continue` are the client's sessions; `Forget`, `Restore` and
`Retire` are calls on what the hooks have stored. `told`, `due`, `before` and
`kept` are history.

*GraphWalk.* `Pop` takes a memory from the queue, and `Skip`, `Hit` and `Cut` are
one iteration of the loop over its links; `Finish` finds the queue empty.

*SearchExpand.* `Consider` is one iteration of the loop over the hits, with all
links of that hit; `best` is the map of the same name. `Filter` sorts, filters and
cuts, `Merge` puts both lists together into `result`, the list the caller gets;
`ExpandFails` is an error on the way, which leaves the direct hits.

### What PostgreSQL is taken to do

READ COMMITTED, the default: a statement sees what was committed when it
started, and its own transaction's writes. An UPDATE or a FOR UPDATE waits for a
locked row and then looks at it again. `ON CONFLICT DO NOTHING` and unique
checks wait for a transaction that has inserted the key. A sequence value is not
given back; the one an INSERT uses up without inserting is left out, since of edge ids
only their order is read. The two UPDATEs of a restore are one step: its row is locked. The locks of foreign key checks only ever delay a FOR UPDATE; they
are left out. These definitions are marked external in the map.

`GraphWalk` and `SearchExpand` are extended by one proof module, as are `Probe` and
`Ingest`; therefore the second of each names its specification `ExpandSpec`,
`IngestSpec`.

Definitions introduced by "Variant" are not used by any module. Each is a wrong
form of the definition below it, and shows that the property it is paired with in
`PROJECT.json` notices the difference.

## 3. The runs

| Run | Instance | Shows |
|---|---|---|
| `store` | 2 clients x 2 projects, 3 memories, 2 edges, `MaxChain` 2, one symmetric and one directed relation; saves that retire none, one, two, or their own id | calls in any order keep chains acyclic, at home, and history intact, and implement `StorePromise`; the graph shows every relation once, a merge moves edges unless a chain is at its limit, a detach moves them back; chains up to the limit resolve |
| `graph_duplicates` | the same, `MaxChain` 3 | *violated*: an edge reported as "safe to forget" is not |
| `tx_retire` | 2 sessions of one project, 4 memories, 2 edges; saves retiring overlapping sets in both orders, one of them not committed yet, a detach, a link | commits are what `StorePromise` allows; what a save or restore reports is true; every call returns |
| `tx_link` | 2 sessions of two projects, 3 memories, 3 edges; links both ways round, saves that retire an end or link to what they retire, forgets of memories and edges, restores | no edge to a memory the same save retires; a link is dropped for want of an edge only after a forget; commits are what `StorePromise` allows and stay in the caller's project |
| `walk` | all 256 graphs on 8 candidate edges over 5 memories; limit 3, depth 3 (asked 0, 1, 2, 9) | hops are distances; complete, or cut and said so; ends |
| `expand` | 5 memories, two scores, all 64 graphs between two of them and the other three, all rankings; limits 1 to 3, slots 0, 1 and 3; filters that pass all, or hide one on each side | limit kept, hits before neighbours, few hits lost and none when the expansion fails, best neighbours shown, in order |
| `chunker` | texts of up to three words of four lengths with three kinds of breaks, and a last one that ends the text; windows of 8 tokens (overlap 2) or 10 characters (overlap 4); tokens of one character, of two, or of unequal lengths | every window advances and fits; words of half a window and facts of an overlap are whole in some piece |
| `chunker_loses` | the same | *violated*: a word longer than a window is lost in part |
| `overlap` | 4 memories, up to 4 close pairs at two distances, a summary among them, one that may be hidden, one pair that may be linked | clusters are the connected components in every order; what a report says to merge it lists, unless hidden meanwhile; the two reports divide the pairs; both end |
| `reindex` | 2 runs, 2 servers with different models, 3 memories (one blank, one that may be forgotten and restored), 2 pieces | every memory has all chunks of one cut; a completed run has replaced all it listed; only newcomers are converted; both end |
| `ingest` | 2 hooks, 2 sessions of one project and 1 of another, 2 summaries, 2 memories | a hook run again stores nothing new; one that ends well leaves the newest summary in its project |
| `probe` | openings with up to two refused probes, then `initialize` or requests that name a version; a probe after `initialize`; eager clients and clients that wait | guard and rmcp are a session as in `McpSession`; the client's plan is carried out; a session whose client left ends |

*Why the bounds are enough to be interesting.* Three memories give a chain of
two, a merge of two, a detach in the middle of a chain, and an id that is named
before it exists; with `MaxChain` 2 they also make a chain one row longer than
the limit, so that both sides of it are met. Two edges give every conflict, duplicate and self-edge. Two
sessions suffice for a circle of waits, since every wait is on one row or key;
the fourth memory is needed for it, two to retire and two that retire them. Its
restores all detach, to keep the instance small; of the others the theorem
`RestoresReportTrue` speaks. The
walk's limit of 3 is reached in graphs of 5, with memories left out at the same
and at a greater distance. Two hits with different scores and three neighbours leave
neighbours out of a list of three, and for a slot, that differ in score and in id. Four words are a window, one that overlaps it, and
one that starts in the middle of either; the lengths lie on both sides of the
overlap, of half a window and of a window. Four memories are two pairs to be
united by a third, in any order, with a chain for `find` to compress. Two hooks
overlap in every way and run one after the other in every way, the second after
the first was killed with and without its memory stored. Deadlock is checked
wherever every state should have a successor; the other configurations switch it
off because their counters (ids handed out, a call that has returned) can run
out.

*Fairness.* `StoreTx.FairSpec` assumes strong fairness of each session's next
statement and weak fairness of the deadlock detector: PostgreSQL queues those
who wait for a row, so one who waits is served when the holder ends, and it
looks for circles after `deadlock_timeout`. No fairness makes a client call
anything, and none makes anything crash. `Reindex.FairSpec` assumes that a run's
next statement is carried out or fails: the HTTP client has a timeout of 120 s
(`embed.rs:50`). `GraphWalk.Spec` assumes that a function called runs on, and
`Overlap.Spec` also that its queries are answered. `Probe.Spec` assumes that the
client says what it means to, unless it goes away, and that the process runs on;
nothing makes it go away.

## 4. What disagrees

Two runs are expected to find a violation; the code and the words that disagree
are quoted under `findings` in `PROJECT.json`.

1. **Duplicates.** `--edges` says of a duplicate that it is "safe to forget".
   If the older edge owes its place to a merge, undoing the merge takes it away
   and the relation is lost.
2. **Unbroken text.** A window without a break is followed by the next word, and
   the rest of the run it cut is in no chunk, which a test of `embed.rs` says
   cannot happen.

What else was noticed while modelling, and why no run is spent on it:

- `graph.rs:25-28` says that `MAX_CHAIN` bounds a hand-edited database only.
  Enough ordinary corrections of one memory build a longer chain, and then edges
  to its oldest versions are not found. The same goes for a merge: it moves the
  edges of a memory onto the new one, but not those of a version whose chain has
  `MAX_CHAIN` rows already. `ChainsUpToTheLimitResolve` and `MergeMovesEdges` show
  that nothing is lost before.
- Between the INSERT that finds an edge and the SELECT that names it
  (`db.rs:328`) the edge can be forgotten, and the call fails. `OnlyAForgetFailsALink`
  shows that this is the only way.
- `README.md:361` says `--reindex` refuses a corpus that holds another model. The
  check and the listing are separate statements, so memories saved or restored in
  between are converted. `OnlyNewcomersConverted` shows that no others are, when
  the runs at work have one model: runs of two models may convert each other's.
- The call printed by `--consolidate` may name a memory that is not listed above
  it, if that was retired or forgotten between the two reads (`consolidate.rs:147`).
  `ListedOrHidden` shows that this is the only way.

## 5. The proofs

`StorePromiseProofs` proves, for every set of clients, projects and relations
and tables of any size, from `SchemaAssumption` alone where an assumption is
needed at all:

- `TypeCorrect`: the tables keep their shape.
- `Chains`: a `superseded_by` leads to a memory of the same client and project
  that was committed later. Hence chains cannot loop. The invariant is inductive
  together with the type invariant: a save points old rows at a row younger than
  all, and no other transaction sets the column.
- `EdgesCorrect`, `EdgesUnique`: edges join two memories of one client in stored
  order, and no fact has two live edges. `RowsStay` carries the first over steps
  that change rows: no row leaves its client.
- `History`: no step re-points a retired memory, moves a row, or revives an edge.

`MemoryStoreProofs` proves that `MemoryStore` implements `StorePromise`
(`Refinement`), with the id of a memory as its age. The inductive invariant is
`TypeOK`, which says that the ids in the tables are below the sequences: without
it the id a save takes might be in use. `SaveStep`, `LinkStep`, `MarkStep` and
`ForgetEdgeStep` map each call to a step; `KeyProper` and `InsertProper` show
that what `insert_edge` accepts is proper. The safety theorems of the abstract
store then carry over (`SafeChains`, `ScopedChains`, `SafeEdges`, `UniqueEdges`,
`SafeHistory`).

`StoreTxProofs` proves that `StoreTx` implements `StorePromise` (`Refinement`)
and, with it, every safety property its runs check, for any number of sessions,
any scopes they serve and any calls they make. The inductive invariant ties what
a transaction holds to the tables it has not written yet:

- `Tables`: rows and edges have their types, their ids are below the sequences,
  and the ages have a bound, so that a commit has an age above all.
- `TxHeld`, of each session: `CallHeld` and `RowsHeld` say at each statement what
  has been written (a save: its own row and rows that are retirable *as they are
  committed*; a restore: the row as it was read), `LinksHeld` that resolved ends
  are rows of the client that the transaction sees and did not retire,
  `EdgesHeld` that its edges are proper next to its rows, `FoundHeld` that the
  edge that stopped an INSERT is still there, if maybe forgotten.
- `Apart`, `KeysApart`, `IdsApart`: rows, keys and ids in flight are held by one
  transaction only. This is what the row locks and the unique index give, and
  what makes `RowsHeld` survive the commits of others.

A step of a session that commits nothing is `OwnStep`; a commit is `CommitStep`,
by `RowsStay`, which says that rows held by others are as they were and that no
row changes its project. `HeldStays` carries a transaction over the commit of
another. `CommitPromise` maps each commit to a step. The theorems about chains
and edges then carry over (`SafeTables`).

`ReindexProofs` proves `Whole` from an inductive invariant (`Invariant`) that ties
the rows a run has deleted and inserted to the chunks there are: what it deleted
is everything there is, or nothing, and then its first INSERT fails (`RunOK`);
and one memory's rows are deleted by one run at a time (`OneDeletes`).
`NothingLeftBehind` follows with two facts about a step: chunks that were
replaced are never written again by the writer they had, and a memory a run is
done with has other chunks than those listed (`WrittenOnceStep`, `ReplacedStep`).
`OnlyNewcomersConverted` needs that the runs have one model (`SeenNotConverted`).

`OverlapProofs` proves the three safety properties of `Overlap`, for any number of
memories, any distances and any order of pairs and ids. The invariant gives every
id of the union-find a root (`Tree`): an id has the root of its parent, roots are
their own parents, the two ids of a pair dealt with have one root, and no set that
the pairs do not leave tells an id from its root. The last is what the ids of one
root need to be no more than a component, the one before what they need to be no
less (`FibresAreComponents`). A find leaves roots as they are, in both its loops;
only `Unite` changes them. `ComponentIs` shows that the reference definition, a
recursive function, is the least set that the pairs do not leave, by an induction
over the numbers in the form of a least counterexample (`Induction`).
`AlwaysOneReport` rests on what each report has read while nothing is hidden
(`Reads`).

The second part of `MemoryStoreProofs` is about the graph that is read from the
tables. `Walks` unfolds `resolve`, which is a recursive function in the model, into
a sequence of at most `MaxChain` rows, and `ChainInduction` is induction along a
chain, which `ChainsAreOK` allows since chains climb and stay at home (two of the
theorems above). `UpToTheLimit` is then what resolving finds of each row, from
which `AlwaysResolves` follows. For `AlwaysMoved`, `SaveMovesHeads` says what a save
does to what ids resolve to: those that resolved to a row it retires now resolve
to the new row, unless their chain is at its limit, and all others to what they
did. An earlier form of the property had no such exception and no proof; with
`MaxChain` 2 TLC finds a counterexample, and section 4 says what it means.
`AlwaysMovedBack` compares no two states: a row that is live again is the head of
itself (`HeadOfItself`).

`GraphWalkProofs` proves that the walk finds what is in reach, at its distance, for
any finite graph. The inductive invariant is that of breadth-first search: the
queue is in order of distance and spans two of them (`QueueOK`); all that is as
near as the memory being expanded is known (`CurOK`); and a known memory waits to
be expanded, or its neighbours are known, but for those the list at hand leads to
(`Expanded`). The queue moves on to a farther memory only when nothing nearer waits
(`NextLevel`), and then the next ball is known too. The reference definition,
balls given by a recursive function, is unfolded by `Balls`. That a walk which was
cut left out nothing nearer needs that the memories are finitely many, which
`WalkAssumption` says: the graph is made of a list of rows.

Its second part is about `SearchExpand`. What `best` holds of a memory is the best
of the hits looked at so far that link to it (`BestOK`). `SortedIs` shows that a
sorted list, given by how many are before each, is one: every element once, in
order; the ranks are an injection into as many numbers and so all of them are
taken. Hence what `Filter` keeps are the first few of those let through (`IsTop`).
`ResultOK` ties the list returned to both, `Places` says how many hits stay and how
many neighbours come, and `MergedIs` where in the list each of them stands.
`BeforeOutranks` turns the order of the code, by the score found, into that of the
property, which speaks of the hits and the graph alone.

`ChunkerProofs` proves the four invariants and `Advances`, for any text, any
tokens in order of which every word starts one, and any windows more than twice as
long as their overlaps (`ChunkerAssumption`). The invariant says that every word of
half a window, and every fact of an overlap, is whole in a piece or still ahead of
the next window (`HeldOrAhead`), and that a window starts inside a word only where
what follows is unbroken (`NextStartsAtWord`). `FindBreakIs` and `WordStartIs` say
where the two helpers can stop. `CharsCut` and `TokensCut` show that both ways of
cutting keep one contract, `CutOK`, about a window and the next (with
`NothingSkipped`: no word lies between a place and the word start found from it),
and `WindowStep` that a window which keeps it preserves the invariant.
A by-product: with the chunk sizes `embed.rs` accepts, the guard that moves a
window of tokens forward when the step back would undo it is never taken.

`ClientProofs` proves that the guard and rmcp implement `McpSession`
(`Refinement`). The invariant is that what is on the way to rmcp cannot hurt
(`Harmless`): every request names a version, or the latch is off and the first
message rmcp sees will be `initialize` (`Unlatched`), as the client's plan starts
with probes that the guard refuses. That the client opens in one of the two ways
the guard's comment names is `Opening`, an assumption on `Plans`: a client that
opens with a plain request does meet the latch, and of it nothing is claimed.

Of `Ingest` it proves `RerunIsNoOp` from `HookOK`, that a hook which goes on to save
has found no kept memory with its body among those that were there when it
started; and `Recorded` from `HoldsOK`, that the payload and the body a hook holds
come from its session and are no older than what was last there when it started,
which stays true as transcripts grow in order (`Transcripts`).

*Only model-checked:* what is about liveness, which is outside the prover's reach,
as is ENABLED: `CallsReturn` of `StoreTx`, `RunsEnd` of `Reindex`, `Returns` of
`GraphWalk`, `ReportsEnd` of `Overlap`, `PlanCarriedOut` and `SessionEnds` of
`Probe`. All other properties of the passing runs are theorems.

## 6. What is not modelled

- The ranking of a search, computed inside one SQL statement over distances and
  text ranks. `SearchExpand` takes any ranking; the distances of `Overlap` are any.
- Read-only queries and their formatting; access counters; pinning, which only
  orders what a session start prints.
- The content of bodies, beyond where their words and sentences end (`Chunker`)
  and which summary they are, in which shape (`Ingest`).
- A graph read while others commit: `load_graph` reads edges and rows in two
  statements. The code promises nothing of a graph no single state contains, and
  the next call reads again.
- rmcp itself, beyond the latch; openings other than those the guard's comment
  names, which "pass through untouched" to that latch.
- A tokenizer whose tokens carry no offsets: any body is then one chunk.
- The pool of four connections, which is inside sqlx: no call holds a connection
  while it asks for another.
- Startup, arguments and the namespace; migrations of an existing database;
  packaging; the evaluation script.

## 7. Plan

Done since the first plan: all modules above, and a proof of every safety property.
Left:

1. The measures behind the liveness properties, as far as they are safety: that
   each step of a walk, of a cut or of a report makes some number smaller
   (`Advances` is the one for the chunker).
2. Shorter proofs: the facts about least numbers and induction that several
   modules share.
