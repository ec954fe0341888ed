------------------------------ MODULE StoreTx ------------------------------
(***************************************************************************)
(* The writing calls of db.rs statement by statement: several sessions,    *)
(* each a connection running one call at a time, against PostgreSQL at its *)
(* default isolation, READ COMMITTED.                                      *)
(*                                                                         *)
(*  - A statement sees what was committed when it starts and what its own  *)
(*    transaction wrote.                                                   *)
(*  - An UPDATE, or SELECT ... FOR UPDATE, waits for a row another         *)
(*    transaction wrote or locked, then applies its WHERE clause again, to *)
(*    the row as it now is.                                                *)
(*  - INSERT ... ON CONFLICT waits for a transaction that has inserted the *)
(*    same key.  A sequence value, once taken, is not given back; the one  *)
(*    it takes to insert nothing is left out, as only the order of the ids *)
(*    of edges is read.                                                    *)
(*  - A transaction that waits in a circle with others is aborted.         *)
(*                                                                         *)
(* A foreign key check locks the row it points to against FOR UPDATE only, *)
(* which delays Lock or is delayed by it and nothing else; it is left out. *)
(***************************************************************************)
EXTENDS Schema, FiniteSets, FiniteSetsExt, Sequences

CONSTANTS
  Session,   \* connections
  ScopeOf,   \* the scope each serves
  Calls,     \* bound: the calls that may be made
  MaxId,     \* bound: ids of memory handed out
  MaxEdge    \* bound: ids of memory_edge handed out

\* A call: what it writes to (id), whom a save supersedes, the links it asks
\* for (src None: the memory being saved), and restore's detach.
CallType == [op : {"save", "link", "forget", "forgetEdge", "restore"},
             id : Nat, ask : SUBSET Id, detach : BOOLEAN,
             links : Seq([src : Nat, rel : Rel, dst : Id])]

ASSUME TxAssumption ==
  /\ ScopeOf \in [Session -> Scope]
  /\ IsFiniteSet(Session) /\ Calls \subseteq CallType
  /\ \A c \in Calls : IsFiniteSet(c.ask)
  /\ MaxId \in Nat /\ MaxEdge \in Nat

VARIABLES
  memory, edge,      \* the tables, as committed
  age,               \* history: the order in which memories were committed
  nextId, nextEdge,  \* the id sequences
  pc,                \* the statement each session runs next
  tx                 \* what its transaction holds

vars == <<memory, edge, age, nextId, nextEdge, pc, tx>>
tables == <<memory, edge, age>>
sequences == <<nextId, nextEdge>>

NoCall == [op |-> "link", id |-> None, ask |-> {}, detach |-> FALSE, links |-> <<>>]

NoTx == [call |-> NoCall,
         id |-> None,           \* the memory being saved
         rows |-> EmptyTable,   \* rows written, and so locked
         edges |-> EmptyTable,  \* edges written
         todo |-> {},           \* rows the UPDATE of a save has yet to visit
         retired |-> {},        \* rows it retired
         links |-> <<>>,        \* links not yet made
         heads |-> <<>>,        \* ends of the first of them resolved so far
         cur |-> None,          \* the row resolve_head reads next
         hop |-> 0,             \* rows it has read
         read |-> EmptyTable]   \* restore: the row as FOR UPDATE read it

Init ==
  /\ memory = EmptyTable /\ edge = EmptyTable /\ age = EmptyTable
  /\ nextId = 1 /\ nextEdge = 1
  /\ pc = [s \in Session |-> "idle"]
  /\ tx = [s \in Session |-> NoTx]

-----------------------------------------------------------------------------
(* What a statement sees, and what it waits for.                           *)

Over(new, old) ==
  [i \in DOMAIN new \cup DOMAIN old |-> IF i \in DOMAIN new THEN new[i] ELSE old[i]]

Rows(s) == Over(tx[s].rows, memory)
Edges(s) == Over(tx[s].edges, edge)

Locked(s, i) == \E t \in Session \ {s} : i \in DOMAIN tx[t].rows

Goto(s, label, t) == pc' = [pc EXCEPT ![s] = label] /\ tx' = [tx EXCEPT ![s] = t]

\* A transaction ends: its locks go, and unless it committed its writes.
End(s) == Goto(s, "idle", NoTx)

\* On to the first of the links left, or to the COMMIT.
NextLink(s, t) ==
  IF t.links = <<>>
  THEN Goto(s, "commit", [t EXCEPT !.heads = <<>>, !.cur = None, !.hop = 0])
  ELSE Goto(s, "resolve", [t EXCEPT !.heads = <<>>, !.cur = Head(t.links).src, !.hop = 0])

\* The first link is dealt with: created, found, or refused.
LinkDone(s, t) == NextLink(s, [t EXCEPT !.links = Tail(@)])

Start(op) ==
  CASE op = "save" -> "insert"
    [] op = "restore" -> "lock"
    [] OTHER -> op

\* Edges that calls under way may still insert.
Pending == MapThenSumSet(LAMBDA s : Len(tx[s].links), Session)

Begin(s, c) ==
  /\ pc[s] = "idle"
  /\ c.op = "save" => nextId + Cardinality({t \in Session : pc[t] = "insert"}) <= MaxId
  /\ nextEdge + Pending + Len(c.links) <= MaxEdge + 1
  /\ LET t == [NoTx EXCEPT !.call = c, !.links = c.links]
     IN IF c.op = "link" THEN NextLink(s, t) ELSE Goto(s, Start(c.op), t)
  /\ UNCHANGED <<tables, sequences>>

-----------------------------------------------------------------------------
(* save                                                                    *)

\* INSERT INTO memory; supersedes_id, the first id asked for, must exist.
Insert(s) ==
  /\ pc[s] = "insert"
  /\ nextId' = nextId + 1
  /\ LET n == nextId
         S == tx[s].call.ask
     IN IF S # {} => Min(S) \in DOMAIN memory \cup {n}
        THEN LET t == [tx[s] EXCEPT
                        !.id = n,
                        !.rows = Over([i \in {n} |-> NewRow(ScopeOf[s])], @),
                        !.links = [k \in DOMAIN @ |-> [@[k] EXCEPT !.src = n]]]
             IN IF S = {} THEN NextLink(s, t) ELSE Goto(s, "scan", t)
        ELSE End(s)
  /\ UNCHANGED <<tables, nextEdge>>

\* The UPDATE finds its rows in the snapshot it starts with ...
RetireScan(s) ==
  /\ pc[s] = "scan"
  /\ LET found == {i \in tx[s].call.ask :
                     Retirable(Rows(s), ScopeOf[s], i, tx[s].id)}
     IN Goto(s, "retire", [tx[s] EXCEPT !.todo = found])
  /\ UNCHANGED <<tables, sequences>>

\* Variant: the WHERE clause is not applied again.
RetirableAsFound(s, i) == i \in DOMAIN Rows(s)

\* ... and visits them in some order, applying its WHERE clause again to a row
\* it had to wait for.
StillRetirable(s, i) == Retirable(Rows(s), ScopeOf[s], i, tx[s].id)

RetireRow(s, i) ==
  /\ pc[s] = "retire"
  /\ i \in tx[s].todo
  /\ ~Locked(s, i)
  /\ LET new == [Rows(s)[i] EXCEPT !.supersededBy = tx[s].id]
         t == [tx[s] EXCEPT !.todo = @ \ {i}]
     IN Goto(s, "retire",
             IF StillRetirable(s, i)
             THEN [t EXCEPT !.rows = Over([k \in {i} |-> new], @), !.retired = @ \cup {i}]
             ELSE t)
  /\ UNCHANGED <<tables, sequences>>

RetireDone(s) ==
  /\ pc[s] = "retire" /\ tx[s].todo = {}
  /\ NextLink(s, tx[s])
  /\ UNCHANGED <<tables, sequences>>

-----------------------------------------------------------------------------
(* insert_edge, for a link call and for each link of a save                *)

\* Variant: the supersede of the same save is not seen.
SeesInsertOnly(s) == Over([i \in {tx[s].id} \ {None} |-> NewRow(ScopeOf[s])], memory)

\* resolve_head runs in the caller's transaction.
Sees(s) == Rows(s)

\* One SELECT of resolve_head; the second end follows the first.
Resolve(s) ==
  /\ pc[s] = "resolve"
  /\ LET t == tx[s]
         mem == Sees(s)
         found == t.cur \in RowsOf(mem, ScopeOf[s].client)
         next == mem[t.cur].supersededBy
         heads == Append(t.heads, t.cur)
     IN IF found /\ next # None /\ t.hop + 1 < MaxChain
        THEN Goto(s, "resolve", [t EXCEPT !.cur = next, !.hop = @ + 1])
        ELSE IF found /\ Live(mem[t.cur])
        THEN IF t.heads = <<>>
             THEN Goto(s, "resolve", [t EXCEPT !.heads = heads, !.hop = 0,
                                               !.cur = Head(t.links).dst])
             ELSE Goto(s, "put", [t EXCEPT !.heads = heads, !.cur = None, !.hop = 0])
        ELSE LinkDone(s, t)
  /\ UNCHANGED <<tables, sequences>>

LinkKey(s) == StoredKey(tx[s].heads[1], Head(tx[s].links).rel, tx[s].heads[2])

HasKey(edges, k) == \E e \in LiveEdges(edges) : KeyOf(edges[e]) = k

\* The INSERT ... ON CONFLICT DO NOTHING.
PutEdge(s) ==
  /\ pc[s] = "put"
  /\ LET k == LinkKey(s)
         w == ScopeOf[s]
         row == [e \in {nextEdge} |-> NewEdge(w.client, k)]
     IN IF ~MayLink(Rows(s), w, tx[s].heads[1], tx[s].heads[2])
        THEN LinkDone(s, tx[s]) /\ UNCHANGED nextEdge
        ELSE /\ \A t \in Session \ {s} : ~HasKey(tx[t].edges, k)
             /\ IF HasKey(Edges(s), k)
                THEN Goto(s, "found", tx[s]) /\ UNCHANGED nextEdge
                ELSE /\ LinkDone(s, [tx[s] EXCEPT !.edges = Over(row, @)])
                     /\ nextEdge' = nextEdge + 1
  /\ UNCHANGED <<tables, nextId>>

\* Variant: the SELECT takes the heads as they are.
SoughtAsGiven(s) == StoredAsGiven(tx[s].heads[1], Head(tx[s].links).rel, tx[s].heads[2])

Sought(s) == LinkKey(s)

\* The SELECT of the edge that was in the way; with no row it is an error, and
\* the transaction is dropped.
ReadExisting(s) ==
  /\ pc[s] = "found"
  /\ IF HasKey(Edges(s), Sought(s)) THEN LinkDone(s, tx[s]) ELSE End(s)
  /\ UNCHANGED <<tables, sequences>>

-----------------------------------------------------------------------------
(* restore, forget, forget_edge                                            *)

\* Variant: a plain SELECT.
NoLock(i) == EmptyTable

\* SELECT ... FOR UPDATE locks the row as if it had been written.
ForUpdate(i) == [k \in {i} |-> memory[i]]

Lock(s) ==
  /\ pc[s] = "lock"
  /\ LET i == tx[s].call.id
     IN IF i \in DOMAIN memory /\ InScope(memory[i], ScopeOf[s])
        THEN /\ ~Locked(s, i)
             /\ Goto(s, "unhide", [tx[s] EXCEPT !.rows = ForUpdate(i),
                                                 !.read = [k \in {i} |-> memory[i]]])
        ELSE End(s)
  /\ UNCHANGED <<tables, sequences>>

\* The UPDATEs clear forgotten_at and, if asked to, the superseded_by that was
\* read; each waits for the row, which Lock has already locked, so nobody else
\* writes it between the two and they are one step.
Unhide(s) ==
  /\ pc[s] = "unhide"
  /\ LET i == tx[s].call.id
         read == tx[s].read[i]
         cut == tx[s].call.detach /\ read.supersededBy # None
         row == [Rows(s)[i] EXCEPT !.forgotten = @ /\ ~read.forgotten,
                                   !.supersededBy = IF cut THEN None ELSE @]
     IN /\ ~Locked(s, i)
        /\ Goto(s, "commit", [tx[s] EXCEPT !.rows = [k \in {i} |-> row]])
  /\ UNCHANGED <<tables, sequences>>

Forgettable(s, i) ==
  i \in DOMAIN memory /\ InScope(memory[i], ScopeOf[s]) /\ ~memory[i].forgotten

\* One UPDATE, committed with it.
Forget(s) ==
  /\ pc[s] = "forget"
  /\ LET i == tx[s].call.id
     IN IF Forgettable(s, i)
        THEN ~Locked(s, i) /\ memory' = [memory EXCEPT ![i].forgotten = TRUE]
        ELSE UNCHANGED memory
  /\ End(s)
  /\ UNCHANGED <<edge, age, sequences>>

\* Variant: an edge between two other projects.
EdgeForgettableAnywhere(s, e) == e \in LiveEdges(edge) /\ edge[e].client = ScopeOf[s].client

EdgeForgettable(s, e) ==
  /\ e \in LiveEdges(edge)
  /\ edge[e].client = ScopeOf[s].client
  /\ TouchesNs(memory, edge[e], ScopeOf[s])

ForgetEdge(s) ==
  /\ pc[s] = "forgetEdge"
  /\ edge' = IF EdgeForgettable(s, tx[s].call.id)
             THEN [edge EXCEPT ![tx[s].call.id].forgotten = TRUE] ELSE edge
  /\ End(s)
  /\ UNCHANGED <<memory, age, sequences>>

-----------------------------------------------------------------------------
(* The end of a transaction.                                               *)

Latest == IF DOMAIN age = {} THEN 0 ELSE Max({age[i] : i \in DOMAIN age})

\* Variant: the links are not made in the transaction of the save.
CommitRowsOnly(s) ==
  /\ pc[s] = "commit"
  /\ memory' = Rows(s)
  /\ age' = Over(age, [i \in DOMAIN Rows(s) |-> Latest + 1])
  /\ End(s)
  /\ UNCHANGED <<edge, sequences>>

Commit(s) ==
  /\ pc[s] = "commit"
  /\ memory' = Rows(s)
  /\ edge' = Edges(s)
  /\ age' = Over(age, [i \in DOMAIN Rows(s) |-> Latest + 1])
  /\ End(s)
  /\ UNCHANGED sequences

\* The process dies or the connection breaks.  When it breaks as the COMMIT is
\* sent the transaction may have committed: that is Commit, unseen.
Crash(s) ==
  /\ pc[s] # "idle"
  /\ End(s)
  /\ UNCHANGED <<tables, sequences>>

\* Sessions s waits for, when all rows its UPDATE has yet to visit are locked.
WaitsFor(s) ==
  IF pc[s] = "retire" /\ tx[s].todo # {} /\ \A i \in tx[s].todo : Locked(s, i)
  THEN {t \in Session \ {s} : tx[s].todo \cap DOMAIN tx[t].rows # {}}
  ELSE {}

\* Variant: no deadlock detection.
NobodyAwaited(s) == {}

\* The sessions s waits for, directly or through others.
Awaited(s) ==
  LET reach[n \in 1..Cardinality(Session)] ==
        IF n = 1 THEN WaitsFor(s)
        ELSE LET R == reach[n-1] IN R \cup UNION {WaitsFor(t) : t \in R}
  IN reach[Cardinality(Session)]

\* PostgreSQL finds the circle and aborts one of the transactions in it.
DeadlockAbort(s) ==
  /\ s \in Awaited(s)
  /\ End(s)
  /\ UNCHANGED <<tables, sequences>>

\* The next statement of a session, whatever it is.
Step(s) ==
  \/ Insert(s) \/ RetireScan(s) \/ RetireDone(s)
  \/ \E i \in tx[s].todo : RetireRow(s, i)
  \/ Resolve(s) \/ PutEdge(s) \/ ReadExisting(s)
  \/ Lock(s) \/ Unhide(s) \/ Forget(s) \/ ForgetEdge(s)
  \/ Commit(s)

Next ==
  \E s \in Session :
    \/ \E c \in Calls : Begin(s, c)
    \/ Step(s)
    \/ Crash(s)
    \/ DeadlockAbort(s)

Spec == Init /\ [][Next]_vars

\* Every statement is executed in the end.  One that waits for a row or a key
\* is queued and gets its turn when the holder ends, hence SF; the deadlock
\* detector runs.  No call need be made, and nothing need crash.
Fairness ==
  \A s \in Session : SF_vars(Step(s)) /\ WF_vars(DeadlockAbort(s))

FairSpec == Spec /\ Fairness

-----------------------------------------------------------------------------
(* Correctness.                                                            *)

Promise == INSTANCE StorePromise

\* Whatever the interleaving, each commit is a transaction the promise allows:
\* a save appears with everything it retires and every edge it makes, or not
\* at all, and no row is retired twice.
Implements == Promise!Spec

\* No edge of a save joins the new memory to one it retires: its links see its
\* supersede, and are refused (db.rs, save: "After the supersede").
NoLinkToTheRetired ==
  \A s \in Session : \A e \in DOMAIN tx[s].edges :
    {tx[s].edges[e].src, tx[s].edges[e].dst} \cap tx[s].retired = {}

\* s commits: what it wrote is now in the tables.
Commits(s) == pc[s] = "commit" /\ pc'[s] = "idle" /\ memory' = Rows(s)

\* The report of a save is true when it is given: its memory appears together
\* with every edge reported as created, and what is reported as retired was
\* retired by nobody else, each such row going from no successor to this one
\* (db.rs, save).
SaveReportTrue ==
  [][\A s \in Session : Commits(s) /\ tx[s].call.op = "save" =>
       /\ tx[s].id \in DOMAIN memory' \ DOMAIN memory
       /\ \A e \in DOMAIN tx[s].edges : e \in DOMAIN edge' /\ edge'[e] = tx[s].edges[e]
       /\ \A i \in tx[s].retired :
            memory[i].supersededBy = None /\ memory'[i].supersededBy = tx[s].id]_vars

\* The report of a restore is true when it is given: it says the memory is
\* still hidden exactly when it is (db.rs, restore: FOR UPDATE).
RestoreReportTrue ==
  [][\A s \in Session : Commits(s) /\ tx[s].call.op = "restore" =>
       LET c == tx[s].call
           stillHidden == ~c.detach /\ tx[s].read[c.id].supersededBy # None
       IN stillHidden <=> ~Live(memory'[c.id])]_vars

\* A session writes only memories of its own client and project, and edges of
\* its client with an end there.
WritesStayInScope ==
  [][\A s \in Session : pc'[s] # pc[s] =>
       /\ \A i \in DOMAIN memory' :
            (i \in DOMAIN memory => memory'[i] # memory[i]) => InScope(memory'[i], ScopeOf[s])
       /\ \A e \in DOMAIN edge' :
            (e \in DOMAIN edge => edge'[e] # edge[e]) =>
              /\ edge'[e].client = ScopeOf[s].client
              /\ TouchesNs(memory', edge'[e], ScopeOf[s])]_vars

\* Every call returns: waiting for rows and keys never stops for good.
CallsReturn == \A s \in Session : pc[s] # "idle" ~> pc[s] = "idle"

\* "an edge that already exists is reported, not duplicated" (db.rs, the write
\* rules of insert_edge): a link, or a save with all it has written, is dropped
\* for want of an edge to report only if an edge like it has been forgotten.
OnlyAForgetFailsALink ==
  \A s \in Session : pc[s] = "found" /\ ~HasKey(Edges(s), Sought(s)) =>
    \E e \in DOMAIN edge : edge[e].forgotten /\ KeyOf(edge[e]) = Sought(s)
=============================================================================
