---------------------------- MODULE StoreTxProofs ----------------------------
(***************************************************************************)
(* The writing calls, statement by statement in any number of sessions,    *)
(* keep the promise of the store.                                          *)
(***************************************************************************)
EXTENDS StoreTx, WellFoundedInduction, TLAPS

LinkType == [src : Nat, rel : Rel, dst : Id]

\* The tables, and the sequences ahead of their ids.
Tables ==
  /\ nextId \in Id /\ nextEdge \in Id
  /\ memory \in [DOMAIN memory -> Row] /\ DOMAIN memory \subseteq 1..(nextId - 1)
  /\ \A i \in DOMAIN memory : ~memory[i].expired
  /\ edge \in [DOMAIN edge -> Edge] /\ DOMAIN edge \subseteq 1..(nextEdge - 1)
  /\ age \in [DOMAIN memory -> Id]
  /\ \E bound \in Nat : \A i \in DOMAIN memory : age[i] <= bound

\* What a transaction at label p with scope w has written to memory and has
\* locked, next to the committed rows mem: a save its own row and those it
\* retired, which nobody has retired meanwhile; a restore the row it read.
SaveHolds(mem, w, t) ==
  /\ t.id \in Id \ DOMAIN mem
  /\ \A i \in t.retired : Retirable(mem, w, i, t.id)
  /\ t.rows = [i \in {t.id} \cup t.retired |->
                 IF i = t.id THEN NewRow(w) ELSE [mem[i] EXCEPT !.supersededBy = t.id]]

RestoreReads(mem, w, t) ==
  /\ t.call.id \in DOMAIN mem /\ InScope(mem[t.call.id], w)
  /\ t.read = [k \in {t.call.id} |-> mem[t.call.id]]

Unhidden(t) ==
  [t.read[t.call.id] EXCEPT !.forgotten = FALSE,
                            !.supersededBy = IF t.call.detach THEN None ELSE @]

RowsHeld(mem, w, p, t) ==
  /\ t.call.op = "save" /\ p # "insert" => SaveHolds(mem, w, t)
  /\ t.call.op = "save" /\ p = "insert" => t.rows = EmptyTable /\ t.retired = {}
  /\ t.call.op # "save" => t.retired = {}
  /\ t.call.op \notin {"save", "restore"} => t.rows = EmptyTable
  /\ p = "lock" => t.rows = EmptyTable
  /\ p = "unhide" => RestoreReads(mem, w, t) /\ t.rows = t.read
  /\ t.call.op = "restore" /\ p = "commit" =>
       RestoreReads(mem, w, t) /\ t.rows = [k \in {t.call.id} |-> Unhidden(t)]

\* Which calls come to which statement.
CallHeld(p, t) ==
  /\ p \in {"idle", "insert", "scan", "retire", "resolve", "put", "found", "commit",
            "lock", "unhide", "forget", "forgetEdge"}
  /\ p \in {"insert", "scan", "retire"} => t.call.op = "save"
  /\ p \in {"lock", "unhide"} => t.call.op = "restore"
  /\ p \in {"resolve", "put", "found"} => t.call.op \in {"save", "link"}
  /\ p = "commit" => t.call.op \in {"save", "link", "restore"}
  /\ p = "idle" => t = NoTx
  /\ p \in {"insert", "scan", "retire"} \/ t.call.op = "restore" => t.edges = EmptyTable

\* The ends resolved so far, and the edges written: rows the transaction sees, of
\* the client, not among those it retired.
Ends(mem, w, t) == RowsOf(Over(t.rows, mem), w.client) \ t.retired

LinksHeld(mem, w, p, t) ==
  /\ t.links \in Seq(LinkType)
  /\ p \in {"resolve", "put", "found"} => t.links # <<>>
  /\ p = "resolve" => t.heads = <<>> \/ \E a \in Ends(mem, w, t) : t.heads = <<a>>
  /\ p \in {"put", "found"} => \E a, b \in Ends(mem, w, t) : t.heads = <<a, b>>

EdgesHeld(mem, w, t) ==
  \A e \in DOMAIN t.edges :
    LET d == t.edges[e]
    IN /\ d \in Edge /\ Promise!Proper(Over(t.rows, mem), w, d)
       /\ {d.src, d.dst} \cap t.retired = {}

\* The INSERT was stopped by an edge, which is still there if maybe forgotten.
FoundHeld(edges, p, t) ==
  p = "found" =>
    \E e \in DOMAIN Over(t.edges, edges) :
      KeyOf(Over(t.edges, edges)[e]) = StoredKey(t.heads[1], Head(t.links).rel, t.heads[2])

TxHeld(mem, edges, w, p, t) ==
  /\ DOMAIN t = DOMAIN NoTx
  /\ CallHeld(p, t) /\ RowsHeld(mem, w, p, t) /\ LinksHeld(mem, w, p, t)
  /\ EdgesHeld(mem, w, t) /\ FoundHeld(edges, p, t)

\* Ids and keys in flight are nobody else's.
Keys(edges) == {KeyOf(edges[e]) : e \in LiveEdges(edges)}

IdsApart(t, rows, edges) ==
  /\ DOMAIN t.rows \subseteq 1..(rows - 1) /\ DOMAIN t.edges \subseteq 1..(edges - 1)

KeysApart(t, edges) ==
  /\ DOMAIN t.edges \cap DOMAIN edges = {}
  /\ \A e, f \in DOMAIN t.edges : KeyOf(t.edges[e]) = KeyOf(t.edges[f]) => e = f
  /\ \A e \in DOMAIN t.edges : KeyOf(t.edges[e]) \notin Keys(edges)

Apart(t, u) ==
  /\ DOMAIN t.rows \cap DOMAIN u.rows = {}
  /\ DOMAIN t.edges \cap DOMAIN u.edges = {}
  /\ \A e \in DOMAIN t.edges, f \in DOMAIN u.edges : KeyOf(t.edges[e]) # KeyOf(u.edges[f])

Sessions ==
  /\ DOMAIN pc = Session /\ DOMAIN tx = Session
  /\ \A s \in Session :
       /\ TxHeld(memory, edge, ScopeOf[s], pc[s], tx[s])
       /\ IdsApart(tx[s], nextId, nextEdge) /\ KeysApart(tx[s], edge)
  /\ \A s, u \in Session : s # u => Apart(tx[s], tx[u])

Inv == Tables /\ Sessions

-----------------------------------------------------------------------------
(* Facts about the parts of a state.                                       *)

LEMMA Fields ==
  DOMAIN NoTx = {"call", "id", "rows", "edges", "todo", "retired", "links", "heads",
                 "cur", "hop", "read"}
BY DEF NoTx

LEMMA OverFacts ==
  ASSUME NEW new, NEW old
  PROVE  /\ DOMAIN Over(new, old) = DOMAIN new \cup DOMAIN old
         /\ \A i \in DOMAIN new : Over(new, old)[i] = new[i]
         /\ \A i \in DOMAIN old : i \notin DOMAIN new => Over(new, old)[i] = old[i]
BY DEF Over

LEMMA OverNothing ==
  ASSUME NEW old, old = [i \in DOMAIN old |-> old[i]]
  PROVE  Over(EmptyTable, old) = old
BY DEF Over, EmptyTable

\* A bounded set of numbers has a maximum.
LEMMA MaxIs ==
  ASSUME NEW S \in SUBSET Nat, S # {}, NEW b \in Nat, \A x \in S : x <= b
  PROVE  Max(S) \in S /\ \A x \in S : x <= Max(S)
<1> DEFINE Less == {ss \in Nat \X Nat : ss[1] < ss[2]}
           Bounds == {n \in Nat : \A x \in S : x <= n}
<1>1. IsWellFoundedOn(Less, Nat)
  BY NatLessThanWellFounded, Zenon DEF OpToRel
<1>2. PICK n \in Bounds : \A m \in Bounds : ~(<<m, n>> \in Less)
  <2>1. Bounds \subseteq Nat /\ Bounds # {}
    OBVIOUS
  <2> HIDE DEF Less, Bounds
  <2> QED BY <1>1, <2>1, WFMin
<1>3. ASSUME NEW m \in Bounds
      PROVE  n <= m
  <2>1. ~(m < n)
    BY <1>2, <1>3
  <2> QED BY <2>1
<1>4. n \in S
  <2> SUFFICES ASSUME n \notin S PROVE FALSE
    OBVIOUS
  <2>1. \A x \in S : x < n
    BY <1>2
  <2>2. n - 1 \in Nat /\ \A x \in S : x <= n - 1
    <3>1. PICK y \in S : y \in Nat
      OBVIOUS
    <3>2. n \in Nat /\ n - 1 \in Nat
      BY <2>1, <3>1
    <3> QED BY <2>1, <3>2
  <2>3. n <= n - 1
    BY <1>3, <2>2
  <2> QED BY <2>3
<1>5. n \in S /\ \A x \in S : n >= x
  BY <1>2, <1>4
<1>6. Max(S) \in S /\ \A x \in S : Max(S) >= x
  BY <1>5 DEF Max
<1> QED BY <1>6

\* The transaction of a row still holds what it did when others commit: rows it
\* wrote or locked are as they were, the others stay with their client and
\* project.
RowsStay(mem, after, held) ==
  /\ DOMAIN mem \subseteq DOMAIN after
  /\ \A i \in DOMAIN mem : after[i].client = mem[i].client /\ after[i].ns = mem[i].ns
  /\ \A i \in held : IF i \in DOMAIN mem THEN after[i] = mem[i] ELSE i \notin DOMAIN after

LEMMA SeenStay ==
  ASSUME NEW mem, NEW after, NEW R, RowsStay(mem, after, DOMAIN R)
  PROVE  /\ DOMAIN Over(R, mem) \subseteq DOMAIN Over(R, after)
         /\ \A i \in DOMAIN Over(R, mem) :
              /\ Over(R, after)[i].client = Over(R, mem)[i].client
              /\ Over(R, after)[i].ns = Over(R, mem)[i].ns
<1>1. /\ DOMAIN Over(R, mem) = DOMAIN R \cup DOMAIN mem
      /\ DOMAIN Over(R, after) = DOMAIN R \cup DOMAIN after
      /\ \A i \in DOMAIN R : Over(R, mem)[i] = R[i] /\ Over(R, after)[i] = R[i]
      /\ \A i \in DOMAIN mem : i \notin DOMAIN R => Over(R, mem)[i] = mem[i]
      /\ \A i \in DOMAIN after : i \notin DOMAIN R => Over(R, after)[i] = after[i]
  BY DEF Over
<1>2. /\ DOMAIN mem \subseteq DOMAIN after
      /\ \A i \in DOMAIN mem : after[i].client = mem[i].client /\ after[i].ns = mem[i].ns
  BY DEF RowsStay
<1> QED BY <1>1, <1>2

LEMMA EndsStay ==
  ASSUME NEW mem, NEW after, NEW t, NEW w, RowsStay(mem, after, DOMAIN t.rows)
  PROVE  Ends(mem, w, t) \subseteq Ends(after, w, t)
<1> DEFINE R == t.rows
<1> HIDE DEF R
<1>1. RowsStay(mem, after, DOMAIN R)
  BY DEF R
<1>2. RowsOf(Over(R, mem), w.client) \subseteq RowsOf(Over(R, after), w.client)
  BY <1>1, SeenStay DEF RowsOf
<1> QED BY <1>2 DEF Ends, R

LEMMA ProperStays ==
  ASSUME NEW mem, NEW after, NEW R, NEW w, NEW d, RowsStay(mem, after, DOMAIN R),
         Promise!Proper(Over(R, mem), w, d)
  PROVE  Promise!Proper(Over(R, after), w, d)
BY SeenStay DEF Promise!Proper, Promise!RowsOf, Promise!TouchesNs

LEMMA RowsHeldStays ==
  ASSUME NEW mem, NEW after, NEW t, NEW w, NEW p, RowsStay(mem, after, DOMAIN t.rows),
         RowsHeld(mem, w, p, t), CallHeld(p, t)
  PROVE  RowsHeld(after, w, p, t)
<1>1. ASSUME SaveHolds(mem, w, t)
      PROVE  SaveHolds(after, w, t)
  <2>1. DOMAIN t.rows = {t.id} \cup t.retired
    BY <1>1 DEF SaveHolds
  <2>2. t.id \notin DOMAIN mem /\ t.retired \subseteq DOMAIN mem
    BY <1>1 DEF SaveHolds, Retirable
  <2>3. t.id \notin DOMAIN after /\ t.retired \subseteq DOMAIN after
    BY <2>1, <2>2 DEF RowsStay
  <2>4. \A i \in t.retired : after[i] = mem[i] /\ i \in DOMAIN mem
    BY <2>1, <2>2 DEF RowsStay
  <2>5. \A i \in t.retired : Retirable(after, w, i, t.id)
    BY <1>1, <2>3, <2>4 DEF SaveHolds, Retirable
  <2>6. t.rows = [i \in {t.id} \cup t.retired |->
                   IF i = t.id THEN NewRow(w) ELSE [after[i] EXCEPT !.supersededBy = t.id]]
    BY <1>1, <2>4 DEF SaveHolds
  <2> QED BY <1>1, <2>3, <2>5, <2>6 DEF SaveHolds
<1>2. ASSUME RestoreReads(mem, w, t), DOMAIN t.rows = {t.call.id}
      PROVE  RestoreReads(after, w, t)
  <2>1. t.call.id \in DOMAIN mem /\ t.call.id \in DOMAIN after
        /\ after[t.call.id] = mem[t.call.id]
    BY <1>2 DEF RowsStay, RestoreReads
  <2> QED BY <1>2, <2>1 DEF RestoreReads
<1>3. p = "unhide" => RestoreReads(mem, w, t) /\ DOMAIN t.rows = {t.call.id}
  BY DEF RowsHeld, RestoreReads
<1>4. t.call.op = "restore" /\ p = "commit" =>
        RestoreReads(mem, w, t) /\ DOMAIN t.rows = {t.call.id}
  BY DEF RowsHeld
<1> QED BY <1>1, <1>2, <1>3, <1>4 DEF RowsHeld

\* What others commit leaves a transaction holding what it held.
LEMMA HeldStays ==
  ASSUME NEW mem, NEW after, NEW edges, NEW edgesAfter, NEW t, NEW w, NEW p,
         RowsStay(mem, after, DOMAIN t.rows),
         DOMAIN edges \subseteq DOMAIN edgesAfter,
         \A e \in DOMAIN edges : KeyOf(edgesAfter[e]) = KeyOf(edges[e]),
         TxHeld(mem, edges, w, p, t)
  PROVE  TxHeld(after, edgesAfter, w, p, t)
<1>1. RowsHeld(after, w, p, t)
  BY RowsHeldStays DEF TxHeld
<1>2. LinksHeld(after, w, p, t)
  BY EndsStay DEF TxHeld, LinksHeld
<1>3. EdgesHeld(after, w, t)
  BY ProperStays DEF TxHeld, EdgesHeld
<1>4. FoundHeld(edgesAfter, p, t)
  <2> SUFFICES ASSUME p = "found",
                      NEW e \in DOMAIN Over(t.edges, edges)
               PROVE  /\ e \in DOMAIN Over(t.edges, edgesAfter)
                      /\ KeyOf(Over(t.edges, edgesAfter)[e]) = KeyOf(Over(t.edges, edges)[e])
    BY DEF TxHeld, FoundHeld
  <2> QED BY DEF Over
<1> QED BY <1>1, <1>2, <1>3, <1>4 DEF TxHeld

-----------------------------------------------------------------------------
(* Kinds of steps.                                                         *)

\* A statement of s that commits nothing.
LEMMA OwnStep ==
  ASSUME Inv, NEW s \in Session, NEW p, NEW t, Goto(s, p, t), UNCHANGED tables,
         nextId' \in Id, nextEdge' \in Id, nextId <= nextId', nextEdge <= nextEdge',
         TxHeld(memory, edge, ScopeOf[s], p, t),
         IdsApart(t, nextId', nextEdge'), KeysApart(t, edge),
         \A u \in Session \ {s} : Apart(t, tx[u])
  PROVE  Inv'
<1>1. /\ DOMAIN pc' = Session /\ DOMAIN tx' = Session
      /\ pc'[s] = p /\ tx'[s] = t
      /\ \A u \in Session \ {s} : pc'[u] = pc[u] /\ tx'[u] = tx[u]
  BY DEF Inv, Sessions, Goto
<1>2. memory' = memory /\ edge' = edge /\ age' = age
  BY DEF tables
<1>3. Tables'
  <2>1. nextId \in Id /\ nextEdge \in Id
    BY DEF Inv, Tables
  <2>2. ASSUME NEW a \in Id, NEW b \in Id, a <= b
        PROVE  1..(a - 1) \subseteq 1..(b - 1)
    BY <2>2 DEF Id
  <2> QED BY <1>2, <2>1, <2>2 DEF Inv, Tables
<1>4. ASSUME NEW u \in Session
      PROVE  /\ TxHeld(memory, edge, ScopeOf[u], pc'[u], tx'[u])
             /\ IdsApart(tx'[u], nextId', nextEdge') /\ KeysApart(tx'[u], edge)
  <2>1. CASE u = s
    BY <1>1, <2>1
  <2>2. CASE u # s
    <3>1. /\ TxHeld(memory, edge, ScopeOf[u], pc[u], tx[u])
          /\ IdsApart(tx[u], nextId, nextEdge) /\ KeysApart(tx[u], edge)
      BY DEF Inv, Sessions
    <3>2. nextId \in Id /\ nextEdge \in Id
      BY DEF Inv, Tables
    <3>3. IdsApart(tx[u], nextId', nextEdge')
      BY <3>1, <3>2 DEF IdsApart, Id
    <3> QED BY <1>1, <2>2, <3>1, <3>3
  <2> QED BY <2>1, <2>2
<1>5. ASSUME NEW u \in Session, NEW v \in Session, u # v
      PROVE  Apart(tx'[u], tx'[v])
  <2>1. CASE u # s /\ v # s
    BY <1>1, <1>5, <2>1 DEF Inv, Sessions
  <2>2. CASE u = s
    BY <1>1, <1>5, <2>2
  <2>3. CASE v = s
    <3>1. Apart(tx'[v], tx'[u])
      BY <1>1, <1>5, <2>3
    <3> QED BY <3>1 DEF Apart
  <2> QED BY <2>1, <2>2, <2>3
<1>6. Sessions'
  <2>1. \A u \in Session :
          /\ TxHeld(memory', edge', ScopeOf[u], pc'[u], tx'[u])
          /\ IdsApart(tx'[u], nextId', nextEdge') /\ KeysApart(tx'[u], edge')
    BY <1>2, <1>4
  <2> QED BY <1>1, <1>5, <2>1 DEF Sessions
<1> QED BY <1>3, <1>6 DEF Inv

\* A statement that writes nothing.
LEMMA ReadStep ==
  ASSUME Inv, NEW s \in Session, NEW p, NEW t, Goto(s, p, t), UNCHANGED <<tables, sequences>>,
         t.rows = tx[s].rows, t.edges = tx[s].edges,
         TxHeld(memory, edge, ScopeOf[s], p, t)
  PROVE  Inv'
<1>1. UNCHANGED tables /\ nextId' = nextId /\ nextEdge' = nextEdge
  BY DEF sequences
<1>2. nextId' \in Id /\ nextEdge' \in Id /\ nextId <= nextId' /\ nextEdge <= nextEdge'
  BY <1>1 DEF Inv, Tables, Id
<1>3. IdsApart(tx[s], nextId', nextEdge') /\ KeysApart(tx[s], edge)
  BY <1>1 DEF Inv, Sessions
<1>4. \A u \in Session \ {s} : Apart(tx[s], tx[u])
  BY DEF Inv, Sessions
<1>5. IdsApart(t, nextId', nextEdge') /\ KeysApart(t, edge)
  BY <1>3 DEF IdsApart, KeysApart
<1>6. \A u \in Session \ {s} : Apart(t, tx[u])
  BY <1>4 DEF Apart
<1> QED BY <1>1, <1>2, <1>5, <1>6, OwnStep

LEMMA IdleHeld ==
  ASSUME NEW mem, NEW edges, NEW w
  PROVE  TxHeld(mem, edges, w, "idle", NoTx)
BY DEF TxHeld, CallHeld, RowsHeld, LinksHeld, EdgesHeld, FoundHeld, NoTx, NoCall, EmptyTable

\* A transaction that is rolled back.
LEMMA EndStep ==
  ASSUME Inv, NEW s \in Session, End(s), UNCHANGED <<tables, nextEdge>>,
         nextId' \in Id, nextId <= nextId'
  PROVE  Inv'
<1>1. NoTx.rows = EmptyTable /\ NoTx.edges = EmptyTable /\ DOMAIN EmptyTable = {}
  BY DEF NoTx, EmptyTable
<1>2. IdsApart(NoTx, nextId', nextEdge') /\ KeysApart(NoTx, edge)
  BY <1>1 DEF IdsApart, KeysApart
<1>3. \A u \in Session \ {s} : Apart(NoTx, tx[u])
  BY <1>1 DEF Apart
<1>4. nextEdge' \in Id /\ nextEdge <= nextEdge'
  BY DEF Inv, Tables, Id
<1>5. Goto(s, "idle", NoTx) /\ UNCHANGED tables
  BY DEF End
<1>6. TxHeld(memory, edge, ScopeOf[s], "idle", NoTx)
  BY IdleHeld
<1> QED BY <1>2, <1>3, <1>4, <1>5, <1>6, OwnStep

\* A transaction that commits.
LEMMA CommitStep ==
  ASSUME Inv, NEW s \in Session, End(s), UNCHANGED sequences, Tables',
         DOMAIN edge \subseteq DOMAIN edge',
         \A e \in DOMAIN edge : KeyOf(edge'[e]) = KeyOf(edge[e]),
         \A u \in Session \ {s} :
           RowsStay(memory, memory', DOMAIN tx[u].rows) /\ KeysApart(tx[u], edge')
  PROVE  Inv'
<1>1. /\ DOMAIN pc' = Session /\ DOMAIN tx' = Session
      /\ pc'[s] = "idle" /\ tx'[s] = NoTx
      /\ \A u \in Session \ {s} : pc'[u] = pc[u] /\ tx'[u] = tx[u]
  BY DEF Inv, Sessions, Goto, End
<1>2. NoTx.rows = EmptyTable /\ NoTx.edges = EmptyTable /\ DOMAIN EmptyTable = {}
  BY DEF NoTx, EmptyTable
<1>3. nextId' = nextId /\ nextEdge' = nextEdge
  BY DEF sequences
<1>4. ASSUME NEW u \in Session
      PROVE  /\ TxHeld(memory', edge', ScopeOf[u], pc'[u], tx'[u])
             /\ IdsApart(tx'[u], nextId', nextEdge') /\ KeysApart(tx'[u], edge')
  <2>1. CASE u = s
    <3>1. TxHeld(memory', edge', ScopeOf[s], "idle", NoTx)
      BY IdleHeld
    <3>2. IdsApart(NoTx, nextId', nextEdge') /\ KeysApart(NoTx, edge')
      BY <1>2 DEF IdsApart, KeysApart
    <3> QED BY <1>1, <2>1, <3>1, <3>2
  <2>2. CASE u # s
    <3>1. /\ TxHeld(memory, edge, ScopeOf[u], pc[u], tx[u])
          /\ IdsApart(tx[u], nextId, nextEdge)
      BY DEF Inv, Sessions
    <3>2. RowsStay(memory, memory', DOMAIN tx[u].rows) /\ KeysApart(tx[u], edge')
      BY <2>2
    <3>3. TxHeld(memory', edge', ScopeOf[u], pc[u], tx[u])
      BY <3>1, <3>2, HeldStays
    <3> QED BY <1>1, <1>3, <2>2, <3>1, <3>2, <3>3
  <2> QED BY <2>1, <2>2
<1>5. ASSUME NEW u \in Session, NEW v \in Session, u # v
      PROVE  Apart(tx'[u], tx'[v])
  <2>1. CASE u # s /\ v # s
    BY <1>1, <1>5, <2>1 DEF Inv, Sessions
  <2>2. CASE u = s \/ v = s
    BY <1>1, <1>2, <1>5, <2>2 DEF Apart
  <2> QED BY <2>1, <2>2
<1> QED BY <1>1, <1>4, <1>5 DEF Inv, Sessions

\* On to the next link or to the COMMIT.
LEMMA NextLinkStep ==
  ASSUME NEW s \in Session, NEW t, NextLink(s, t),
         DOMAIN t = DOMAIN NoTx, t.call.op \in {"save", "link"},
         RowsHeld(memory, ScopeOf[s], "resolve", t), t.links \in Seq(LinkType),
         EdgesHeld(memory, ScopeOf[s], t)
  PROVE  \E p, u : /\ Goto(s, p, u) /\ u.rows = t.rows /\ u.edges = t.edges
                   /\ TxHeld(memory, edge, ScopeOf[s], p, u)
<1> DEFINE u == [t EXCEPT !.heads = <<>>, !.cur = None, !.hop = 0]
           v == [t EXCEPT !.heads = <<>>, !.cur = Head(t.links).src, !.hop = 0]
           Same(a) == /\ DOMAIN a = DOMAIN NoTx
                      /\ a.call = t.call /\ a.id = t.id /\ a.rows = t.rows /\ a.edges = t.edges
                      /\ a.retired = t.retired /\ a.links = t.links /\ a.heads = <<>>
                      /\ a.read = t.read
<1>1. Same(u) /\ Same(v)
  BY Fields
<1>2. ASSUME NEW a, Same(a), NEW p \in {"resolve", "commit"}, p = "resolve" => t.links # <<>>
      PROVE  TxHeld(memory, edge, ScopeOf[s], p, a)
  <2>1. CallHeld(p, a)
    BY <1>2 DEF CallHeld
  <2>2. RowsHeld(memory, ScopeOf[s], p, a)
    BY <1>2 DEF RowsHeld, SaveHolds
  <2>3. LinksHeld(memory, ScopeOf[s], p, a)
    BY <1>2 DEF LinksHeld
  <2>4. EdgesHeld(memory, ScopeOf[s], a) /\ FoundHeld(edge, p, a)
    BY <1>2 DEF EdgesHeld, FoundHeld
  <2> QED BY <1>2, <2>1, <2>2, <2>3, <2>4 DEF TxHeld
<1> HIDE DEF Same
<1>3. CASE t.links = <<>>
  <2>1. Goto(s, "commit", u)
    BY <1>3 DEF NextLink
  <2>2. u.rows = t.rows /\ u.edges = t.edges
    BY <1>1 DEF Same
  <2> HIDE DEF u
  <2> QED BY <1>1, <1>2, <2>1, <2>2
<1>4. CASE t.links # <<>>
  <2>1. Goto(s, "resolve", v)
    BY <1>4 DEF NextLink
  <2>2. v.rows = t.rows /\ v.edges = t.edges
    BY <1>1 DEF Same
  <2> HIDE DEF v
  <2> QED BY <1>1, <1>2, <1>4, <2>1, <2>2
<1> QED BY <1>3, <1>4

LEMMA LinkDoneStep ==
  ASSUME NEW s \in Session, NEW t, LinkDone(s, t),
         DOMAIN t = DOMAIN NoTx, t.call.op \in {"save", "link"},
         RowsHeld(memory, ScopeOf[s], "resolve", t),
         t.links \in Seq(LinkType), t.links # <<>>,
         EdgesHeld(memory, ScopeOf[s], t)
  PROVE  \E p, u : /\ Goto(s, p, u) /\ u.rows = t.rows /\ u.edges = t.edges
                   /\ TxHeld(memory, edge, ScopeOf[s], p, u)
<1> DEFINE u == [t EXCEPT !.links = Tail(@)]
<1>1. NextLink(s, u)
  BY DEF LinkDone
<1>2. /\ DOMAIN u = DOMAIN NoTx
      /\ u.call = t.call /\ u.id = t.id /\ u.rows = t.rows /\ u.edges = t.edges
      /\ u.retired = t.retired /\ u.links = Tail(t.links) /\ u.read = t.read
  BY Fields
<1> HIDE DEF u
<1>3. u.links \in Seq(LinkType)
  BY <1>2
<1>4. RowsHeld(memory, ScopeOf[s], "resolve", u) /\ EdgesHeld(memory, ScopeOf[s], u)
  BY <1>2 DEF RowsHeld, SaveHolds, EdgesHeld
<1>5. u.call.op \in {"save", "link"}
  BY <1>2
<1>6. \E p, a : /\ Goto(s, p, a) /\ a.rows = u.rows /\ a.edges = u.edges
                /\ TxHeld(memory, edge, ScopeOf[s], p, a)
  BY <1>1, <1>2, <1>3, <1>4, <1>5, NextLinkStep
<1> QED BY <1>2, <1>6

-----------------------------------------------------------------------------
(* The statements, one by one.                                             *)

\* What the invariant says of one session.
LEMMA Mine ==
  ASSUME Inv, NEW s \in Session
  PROVE  /\ DOMAIN tx[s] = DOMAIN NoTx
         /\ CallHeld(pc[s], tx[s]) /\ RowsHeld(memory, ScopeOf[s], pc[s], tx[s])
         /\ LinksHeld(memory, ScopeOf[s], pc[s], tx[s])
         /\ EdgesHeld(memory, ScopeOf[s], tx[s]) /\ FoundHeld(edge, pc[s], tx[s])
         /\ IdsApart(tx[s], nextId, nextEdge) /\ KeysApart(tx[s], edge)
         /\ ScopeOf[s] \in Scope
BY TxAssumption DEF Inv, Sessions, TxHeld

LEMMA BeginStep ==
  ASSUME Inv, NEW s \in Session, NEW c \in Calls, Begin(s, c)
  PROVE  Inv'
<1> DEFINE t == [NoTx EXCEPT !.call = c, !.links = c.links]
<1>1. /\ DOMAIN t = DOMAIN NoTx /\ t.call = c /\ t.links = c.links /\ t.rows = EmptyTable
      /\ t.edges = EmptyTable /\ t.retired = {}
  BY DEF NoTx
<1>2. /\ c.op \in {"save", "link", "forget", "forgetEdge", "restore"}
      /\ c.links \in Seq(LinkType)
  BY TxAssumption DEF CallType, LinkType
<1>3. tx[s].rows = EmptyTable /\ tx[s].edges = EmptyTable
  BY Mine DEF Begin, CallHeld, NoTx
<1>4. IF c.op = "link" THEN NextLink(s, t) ELSE Goto(s, Start(c.op), t)
  BY DEF Begin
<1> HIDE DEF t
<1>5. EdgesHeld(memory, ScopeOf[s], t)
  BY <1>1 DEF EdgesHeld, EmptyTable
<1>6. \E p, u : /\ Goto(s, p, u) /\ u.rows = t.rows /\ u.edges = t.edges
                /\ TxHeld(memory, edge, ScopeOf[s], p, u)
  <2>1. CASE c.op = "link"
    <3>1. RowsHeld(memory, ScopeOf[s], "resolve", t)
      BY <1>1, <2>1 DEF RowsHeld
    <3>2. NextLink(s, t) /\ t.call.op \in {"save", "link"} /\ t.links \in Seq(LinkType)
      BY <1>1, <1>2, <1>4, <2>1
    <3> QED BY <1>1, <1>5, <3>1, <3>2, NextLinkStep
  <2>2. CASE c.op # "link"
    <3> DEFINE p == Start(c.op)
    <3>1. \/ c.op = "save" /\ p = "insert"
          \/ c.op = "restore" /\ p = "lock"
          \/ c.op = "forget" /\ p = "forget"
          \/ c.op = "forgetEdge" /\ p = "forgetEdge"
      <4>1. CASE c.op = "save" BY <4>1 DEF Start
      <4>2. CASE c.op = "restore" BY <4>2 DEF Start
      <4>3. CASE c.op = "forget" BY <4>3 DEF Start
      <4>4. CASE c.op = "forgetEdge" BY <4>4 DEF Start
      <4> QED BY <1>2, <2>2, <4>1, <4>2, <4>3, <4>4
    <3>2. Goto(s, p, t)
      BY <1>4, <2>2
    <3> HIDE DEF p
    <3>3. CallHeld(p, t)
      BY <1>1, <3>1 DEF CallHeld
    <3>4. RowsHeld(memory, ScopeOf[s], p, t)
      BY <1>1, <3>1 DEF RowsHeld
    <3>5. LinksHeld(memory, ScopeOf[s], p, t) /\ FoundHeld(edge, p, t)
      BY <1>1, <1>2, <3>1 DEF LinksHeld, FoundHeld
    <3> QED BY <1>1, <1>5, <3>2, <3>3, <3>4, <3>5 DEF TxHeld
  <2> QED BY <2>1, <2>2
<1>7. UNCHANGED <<tables, sequences>>
  BY DEF Begin
<1> QED BY <1>1, <1>3, <1>6, <1>7, ReadStep

LEMMA InsertStep ==
  ASSUME Inv, NEW s \in Session, Insert(s)
  PROVE  Inv'
<1> DEFINE n == nextId
           w == ScopeOf[s]
           t == [tx[s] EXCEPT
                  !.id = n,
                  !.rows = Over([i \in {n} |-> NewRow(w)], @),
                  !.links = [k \in DOMAIN @ |-> [@[k] EXCEPT !.src = n]]]
<1>1. /\ pc[s] = "insert" /\ nextId' = n + 1 /\ nextEdge' = nextEdge
      /\ UNCHANGED tables /\ n \in Id /\ nextEdge \in Id
  BY DEF Insert, Inv, Tables
<1>2. CASE End(s)
  <2>1. nextId' \in Id /\ nextId <= nextId'
    BY <1>1 DEF Id
  <2>2. UNCHANGED <<tables, nextEdge>>
    BY <1>1
  <2> QED BY <1>2, <2>1, <2>2, EndStep
<1>3. CASE NextLink(s, t) \/ Goto(s, "scan", t)
  <2>1. /\ tx[s].rows = EmptyTable /\ tx[s].retired = {} /\ tx[s].call.op = "save"
        /\ tx[s].links \in Seq(LinkType) /\ tx[s].edges = EmptyTable
    BY <1>1, Mine DEF CallHeld, RowsHeld, LinksHeld
  <2>2. /\ DOMAIN t = DOMAIN NoTx /\ t.call = tx[s].call /\ t.id = n /\ t.edges = tx[s].edges
        /\ t.retired = {} /\ t.rows = Over([i \in {n} |-> NewRow(w)], EmptyTable)
        /\ t.links = [k \in DOMAIN tx[s].links |-> [tx[s].links[k] EXCEPT !.src = n]]
    BY <2>1, Mine, Fields
  <2>3. t.rows = [i \in {n} |-> NewRow(w)]
    BY <2>2 DEF Over, EmptyTable
  <2>4. t.links \in Seq(LinkType)
    <3>1. ASSUME NEW k \in DOMAIN tx[s].links
          PROVE  [tx[s].links[k] EXCEPT !.src = n] \in LinkType
      <4>1. tx[s].links[k] \in LinkType
        BY <2>1
      <4> QED BY <1>1, <4>1 DEF LinkType, Id
    <3>2. DOMAIN tx[s].links = 1..Len(tx[s].links) /\ Len(tx[s].links) \in Nat
      BY <2>1
    <3>3. t.links \in [1..Len(tx[s].links) -> LinkType]
      BY <2>2, <3>1, <3>2
    <3> HIDE DEF t
    <3> QED BY <3>2, <3>3
  <2>5. n \notin DOMAIN memory
    BY <1>1 DEF Inv, Tables, Id
  <2> HIDE DEF t
  <2>6. SaveHolds(memory, w, t)
    BY <1>1, <2>2, <2>3, <2>5 DEF SaveHolds
  <2>7. EdgesHeld(memory, w, t)
    BY <2>1, <2>2 DEF EdgesHeld, EmptyTable
  <2>8. t.call.op \in {"save", "link"} /\ RowsHeld(memory, w, "resolve", t)
    BY <2>1, <2>2, <2>6 DEF RowsHeld
  <2>9. \E p, u : /\ Goto(s, p, u) /\ u.rows = t.rows /\ u.edges = t.edges
                  /\ TxHeld(memory, edge, w, p, u)
    <3>1. CASE NextLink(s, t)
      BY <2>2, <2>4, <2>7, <2>8, <3>1, NextLinkStep
    <3>2. CASE Goto(s, "scan", t)
      <4>1. CallHeld("scan", t) /\ RowsHeld(memory, w, "scan", t)
        BY <2>1, <2>2, <2>6 DEF CallHeld, RowsHeld
      <4>2. LinksHeld(memory, w, "scan", t) /\ FoundHeld(edge, "scan", t)
        BY <2>4 DEF LinksHeld, FoundHeld
      <4> QED BY <2>2, <2>7, <3>2, <4>1, <4>2 DEF TxHeld
    <3> QED BY <1>3, <3>1, <3>2
  <2>10. PICK p, u : /\ Goto(s, p, u) /\ u.rows = t.rows /\ u.edges = t.edges
                     /\ TxHeld(memory, edge, w, p, u)
    BY <2>9
  <2>11. DOMAIN u.rows = {n} /\ u.edges = tx[s].edges
    BY <2>2, <2>3, <2>10
  <2>12. IdsApart(u, nextId', nextEdge') /\ KeysApart(u, edge)
    BY <1>1, <2>11, Mine DEF IdsApart, KeysApart, Id
  <2>13. ASSUME NEW v \in Session \ {s}
         PROVE  Apart(u, tx[v])
    <3>1. DOMAIN tx[v].rows \subseteq 1..(n - 1)
      BY Mine DEF IdsApart
    <3>2. n \notin DOMAIN tx[v].rows
      BY <1>1, <3>1 DEF Id
    <3>3. Apart(tx[s], tx[v])
      BY DEF Inv, Sessions
    <3> QED BY <2>11, <3>2, <3>3 DEF Apart
  <2>14. nextId' \in Id /\ nextEdge' \in Id /\ nextId <= nextId' /\ nextEdge <= nextEdge'
    BY <1>1 DEF Id
  <2> QED BY <1>1, <2>10, <2>12, <2>13, <2>14, OwnStep
<1> QED BY <1>2, <1>3 DEF Insert

\* The transaction without the rows it has yet to visit.
LEMMA ScanStep ==
  ASSUME Inv, NEW s \in Session, RetireScan(s)
  PROVE  Inv'
<1>1. PICK found : Goto(s, "retire", [tx[s] EXCEPT !.todo = found])
  BY DEF RetireScan
<1> DEFINE t == [tx[s] EXCEPT !.todo = found]
<1>2. pc[s] = "scan" /\ UNCHANGED <<tables, sequences>>
  BY DEF RetireScan
<1>3. /\ DOMAIN t = DOMAIN NoTx /\ t.call = tx[s].call /\ t.id = tx[s].id
      /\ t.rows = tx[s].rows /\ t.edges = tx[s].edges /\ t.retired = tx[s].retired
      /\ t.links = tx[s].links
  BY Mine, Fields
<1> HIDE DEF t
<1>4. CallHeld("retire", t)
  BY <1>2, <1>3, Mine DEF CallHeld
<1>5. RowsHeld(memory, ScopeOf[s], "retire", t)
  <2>1. tx[s].call.op = "save" /\ SaveHolds(memory, ScopeOf[s], tx[s])
    BY <1>2, Mine DEF CallHeld, RowsHeld
  <2>2. SaveHolds(memory, ScopeOf[s], t)
    BY <1>3, <2>1 DEF SaveHolds
  <2> QED BY <1>3, <2>1, <2>2 DEF RowsHeld
<1>6. LinksHeld(memory, ScopeOf[s], "retire", t) /\ FoundHeld(edge, "retire", t)
  BY <1>3, Mine DEF LinksHeld, FoundHeld
<1>7. EdgesHeld(memory, ScopeOf[s], t)
  BY <1>3, Mine DEF EdgesHeld
<1>8. Goto(s, "retire", t)
  BY <1>1 DEF t
<1> QED BY <1>2, <1>3, <1>4, <1>5, <1>6, <1>7, <1>8, ReadStep DEF TxHeld

\* A row that passes the WHERE clause the second time is a committed one that
\* the save has not written yet.
LEMMA RetireRowStep ==
  ASSUME Inv, NEW s \in Session, NEW i \in tx[s].todo, RetireRow(s, i)
  PROVE  Inv'
<1> DEFINE w == ScopeOf[s]
           new == [Rows(s)[i] EXCEPT !.supersededBy = tx[s].id]
           t == [tx[s] EXCEPT !.todo = @ \ {i}]
           u == [t EXCEPT !.rows = Over([k \in {i} |-> new], @), !.retired = @ \cup {i}]
<1>1. /\ pc[s] = "retire" /\ UNCHANGED <<tables, sequences>> /\ ~Locked(s, i)
      /\ Goto(s, "retire", IF StillRetirable(s, i) THEN u ELSE t)
  BY DEF RetireRow
<1>2. /\ tx[s].call.op = "save" /\ SaveHolds(memory, w, tx[s])
      /\ DOMAIN tx[s] = DOMAIN NoTx /\ tx[s].edges = EmptyTable
  BY <1>1, Mine DEF CallHeld, RowsHeld
<1>3. /\ DOMAIN t = DOMAIN NoTx /\ t.call = tx[s].call /\ t.id = tx[s].id
      /\ t.rows = tx[s].rows /\ t.edges = tx[s].edges /\ t.retired = tx[s].retired
      /\ t.links = tx[s].links
  BY <1>2, Fields
<1>4. /\ DOMAIN u = DOMAIN NoTx /\ u.call = tx[s].call /\ u.id = tx[s].id
      /\ u.rows = Over([k \in {i} |-> new], tx[s].rows) /\ u.edges = tx[s].edges
      /\ u.retired = tx[s].retired \cup {i} /\ u.links = tx[s].links
  BY <1>3, Fields
<1> HIDE DEF t, u
<1>5. CASE ~StillRetirable(s, i)
  <2>1. SaveHolds(memory, w, t)
    BY <1>2, <1>3 DEF SaveHolds
  <2>2. CallHeld("retire", t) /\ RowsHeld(memory, w, "retire", t)
    BY <1>2, <1>3, <2>1 DEF CallHeld, RowsHeld
  <2>3. LinksHeld(memory, w, "retire", t) /\ FoundHeld(edge, "retire", t)
    BY <1>3, Mine DEF LinksHeld, FoundHeld
  <2>4. EdgesHeld(memory, w, t)
    BY <1>3, Mine DEF EdgesHeld
  <2>5. Goto(s, "retire", t)
    BY <1>1, <1>5
  <2> QED BY <1>1, <1>3, <2>2, <2>3, <2>4, <2>5, ReadStep DEF TxHeld
<1>6. CASE StillRetirable(s, i)
  <2>1. Retirable(Rows(s), w, i, tx[s].id)
    BY <1>6 DEF StillRetirable
  <2>2. DOMAIN tx[s].rows = {tx[s].id} \cup tx[s].retired /\ tx[s].id # None
    BY <1>2 DEF SaveHolds, Id, None
  <2>3. i # tx[s].id /\ i \notin tx[s].retired
    <3>1. ASSUME i \in tx[s].retired PROVE FALSE
      <4>1. Rows(s)[i] = tx[s].rows[i]
        BY <2>2, <3>1 DEF Rows, Over
      <4>2. tx[s].rows[i] = [memory[i] EXCEPT !.supersededBy = tx[s].id]
        BY <1>2, <2>1, <3>1 DEF SaveHolds, Retirable
      <4>3. i \in DOMAIN memory
        BY <1>2, <3>1 DEF SaveHolds, Retirable
      <4>4. memory[i] \in Row
        BY <4>3 DEF Inv, Tables
      <4>5. Rows(s)[i].supersededBy = tx[s].id
        BY <4>1, <4>2, <4>4 DEF Row
      <4> QED BY <2>1, <2>2, <4>5 DEF Retirable
    <3> QED BY <2>1, <3>1 DEF Retirable
  <2>4. i \notin DOMAIN tx[s].rows /\ i \in DOMAIN memory /\ Rows(s)[i] = memory[i]
    BY <2>1, <2>2, <2>3 DEF Retirable, Rows, Over
  <2>5. Retirable(memory, w, i, tx[s].id)
    BY <2>1, <2>4 DEF Retirable
  <2>6. u.rows = [k \in {tx[s].id} \cup u.retired |->
                   IF k = tx[s].id THEN NewRow(w)
                   ELSE [memory[k] EXCEPT !.supersededBy = tx[s].id]]
    <3>1. u.rows = Over([k \in {i} |-> [memory[i] EXCEPT !.supersededBy = tx[s].id]], tx[s].rows)
      BY <1>4, <2>4
    <3>2. tx[s].rows = [k \in {tx[s].id} \cup tx[s].retired |->
                          IF k = tx[s].id THEN NewRow(w)
                          ELSE [memory[k] EXCEPT !.supersededBy = tx[s].id]]
      BY <1>2 DEF SaveHolds
    <3>3. DOMAIN u.rows = {tx[s].id} \cup u.retired
      BY <1>4, <2>2, <3>1 DEF Over
    <3>4. u.rows[i] = [memory[i] EXCEPT !.supersededBy = tx[s].id]
      BY <3>1 DEF Over
    <3>5. \A k \in DOMAIN tx[s].rows : u.rows[k] = tx[s].rows[k]
      BY <2>4, <3>1 DEF Over
    <3>6. u.rows = [k \in DOMAIN u.rows |-> u.rows[k]]
      BY <3>1 DEF Over
    <3>7. \A k \in DOMAIN u.rows :
            u.rows[k] = IF k = tx[s].id THEN NewRow(w)
                        ELSE [memory[k] EXCEPT !.supersededBy = tx[s].id]
      BY <1>4, <2>2, <2>3, <3>2, <3>3, <3>4, <3>5
    <3> QED BY <3>3, <3>6, <3>7
  <2>7. SaveHolds(memory, w, u)
    BY <1>2, <1>4, <2>5, <2>6 DEF SaveHolds
  <2>8. CallHeld("retire", u) /\ RowsHeld(memory, w, "retire", u)
    BY <1>2, <1>4, <2>7 DEF CallHeld, RowsHeld
  <2>9. LinksHeld(memory, w, "retire", u) /\ FoundHeld(edge, "retire", u)
    BY <1>4, Mine DEF LinksHeld, FoundHeld
  <2>11. EdgesHeld(memory, w, u)
    BY <1>2, <1>4 DEF EdgesHeld, EmptyTable
  <2>12. DOMAIN u.rows = DOMAIN tx[s].rows \cup {i}
    BY <1>4, <2>2, <2>6
  <2>13. nextId' = nextId /\ nextEdge' = nextEdge /\ nextId \in Id /\ nextEdge \in Id
    BY <1>1 DEF sequences, Inv, Tables
  <2>14. i \in 1..(nextId - 1)
    BY <2>4 DEF Inv, Tables
  <2>15. IdsApart(u, nextId', nextEdge') /\ KeysApart(u, edge)
    BY <1>4, <2>12, <2>13, <2>14, Mine DEF IdsApart, KeysApart
  <2>16. ASSUME NEW v \in Session \ {s}
         PROVE  Apart(u, tx[v])
    <3>1. i \notin DOMAIN tx[v].rows
      BY <1>1 DEF Locked
    <3>2. Apart(tx[s], tx[v])
      BY DEF Inv, Sessions
    <3> QED BY <1>4, <2>12, <3>1, <3>2 DEF Apart
  <2>17. Goto(s, "retire", u)
    BY <1>1, <1>6
  <2>18. TxHeld(memory, edge, w, "retire", u)
    BY <1>4, <2>8, <2>9, <2>11 DEF TxHeld
  <2>19. UNCHANGED tables /\ nextId <= nextId' /\ nextEdge <= nextEdge'
    BY <1>1, <2>13 DEF Id
  <2> QED BY <2>13, <2>15, <2>16, <2>17, <2>18, <2>19, OwnStep
<1> QED BY <1>5, <1>6

LEMMA RetireDoneStep ==
  ASSUME Inv, NEW s \in Session, RetireDone(s)
  PROVE  Inv'
<1>1. /\ pc[s] = "retire" /\ NextLink(s, tx[s]) /\ UNCHANGED <<tables, sequences>>
  BY DEF RetireDone
<1>2. /\ tx[s].call.op = "save" /\ RowsHeld(memory, ScopeOf[s], "resolve", tx[s])
      /\ tx[s].links \in Seq(LinkType)
  BY <1>1, Mine DEF CallHeld, RowsHeld, LinksHeld
<1>3. PICK p, u : /\ Goto(s, p, u) /\ u.rows = tx[s].rows /\ u.edges = tx[s].edges
                  /\ TxHeld(memory, edge, ScopeOf[s], p, u)
  BY <1>1, <1>2, Mine, NextLinkStep
<1> QED BY <1>1, <1>3, ReadStep

LEMMA AppendOne ==
  ASSUME NEW a, NEW b
  PROVE  Append(<<a>>, b) = <<a, b>>
<1> DEFINE q == Append(<<a>>, b)
<1>1. <<a>> \in Seq({a, b}) /\ Len(<<a>>) = 1 /\ <<a>>[1] = a
  OBVIOUS
<1>2. q \in Seq({a, b}) /\ Len(q) = 2 /\ q[1] = a /\ q[2] = b
  BY <1>1
<1> HIDE DEF q
<1>3. q = <<a, b>>
  BY <1>2
<1> QED BY <1>3 DEF q

\* An end of a link is found: it is live, so none of the rows retired.
LEMMA ResolveStep ==
  ASSUME Inv, NEW s \in Session, Resolve(s)
  PROVE  Inv'
<1> DEFINE t == tx[s]
           w == ScopeOf[s]
           mem == Rows(s)
<1>1. /\ pc[s] = "resolve" /\ UNCHANGED <<tables, sequences>>
      /\ t.call.op \in {"save", "link"} /\ DOMAIN t = DOMAIN NoTx
      /\ t.links \in Seq(LinkType) /\ t.links # <<>>
      /\ RowsHeld(memory, w, "resolve", t) /\ EdgesHeld(memory, w, t)
      /\ t.heads = <<>> \/ \E a \in Ends(memory, w, t) : t.heads = <<a>>
  BY Mine DEF Resolve, CallHeld, LinksHeld
<1>2. ASSUME NEW p \in {"resolve", "put"}, NEW u, Goto(s, p, u), DOMAIN u = DOMAIN NoTx,
             u.call = t.call, u.id = t.id, u.rows = t.rows, u.edges = t.edges,
             u.retired = t.retired, u.links = t.links, u.read = t.read,
             p = "resolve" => u.heads = <<>> \/ \E a \in Ends(memory, w, t) : u.heads = <<a>>,
             p = "put" => \E a, b \in Ends(memory, w, t) : u.heads = <<a, b>>
      PROVE  Inv'
  <2>1. CallHeld(p, u)
    BY <1>1, <1>2 DEF CallHeld
  <2>2. RowsHeld(memory, w, p, u)
    BY <1>1, <1>2 DEF RowsHeld, SaveHolds
  <2>3. Ends(memory, w, u) = Ends(memory, w, t)
    BY <1>2 DEF Ends
  <2>4. LinksHeld(memory, w, p, u)
    BY <1>1, <1>2, <2>3 DEF LinksHeld
  <2>5. EdgesHeld(memory, w, u) /\ FoundHeld(edge, p, u)
    BY <1>1, <1>2 DEF EdgesHeld, FoundHeld
  <2> QED BY <1>1, <1>2, <2>1, <2>2, <2>4, <2>5, ReadStep DEF TxHeld
<1>3. CASE LinkDone(s, t)
  <2>1. PICK p, u : /\ Goto(s, p, u) /\ u.rows = t.rows /\ u.edges = t.edges
                    /\ TxHeld(memory, edge, w, p, u)
    BY <1>1, <1>3, LinkDoneStep
  <2> QED BY <1>1, <2>1, ReadStep
<1>4. CASE Goto(s, "resolve", [t EXCEPT !.cur = mem[t.cur].supersededBy, !.hop = @ + 1])
  <2> DEFINE u == [t EXCEPT !.cur = mem[t.cur].supersededBy, !.hop = @ + 1]
  <2>1. /\ DOMAIN u = DOMAIN NoTx
        /\ u.call = t.call /\ u.id = t.id /\ u.rows = t.rows /\ u.edges = t.edges
        /\ u.retired = t.retired /\ u.links = t.links /\ u.read = t.read /\ u.heads = t.heads
    BY <1>1, Fields
  <2>2. Goto(s, "resolve", u)
    BY <1>4
  <2> HIDE DEF u, t
  <2> QED BY <1>1, <1>2, <2>1, <2>2
<1>5. ASSUME t.cur \in RowsOf(mem, w.client), Live(mem[t.cur])
      PROVE  t.cur \in Ends(memory, w, t)
  <2>1. ASSUME t.cur \in t.retired PROVE FALSE
    <3>1. t.call.op = "save" /\ SaveHolds(memory, w, t)
      BY <1>1, <2>1 DEF RowsHeld
    <3>2. t.cur \in DOMAIN memory /\ t.cur \in DOMAIN t.rows /\ t.cur # t.id /\ t.id # None
      BY <2>1, <3>1 DEF SaveHolds, Retirable, Id, None
    <3>3. mem[t.cur] = [memory[t.cur] EXCEPT !.supersededBy = t.id]
      BY <2>1, <3>1, <3>2 DEF SaveHolds, Rows, Over
    <3>4. memory[t.cur] \in Row
      BY <3>2 DEF Inv, Tables
    <3>5. mem[t.cur].supersededBy = t.id
      BY <3>3, <3>4 DEF Row
    <3> QED BY <1>5, <3>2, <3>5 DEF Live
  <2> QED BY <1>5, <2>1 DEF Ends, Rows
<1>6. CASE /\ t.cur \in Ends(memory, w, t) /\ t.heads = <<>>
           /\ Goto(s, "resolve", [t EXCEPT !.heads = Append(t.heads, t.cur), !.hop = 0,
                                           !.cur = Head(t.links).dst])
  <2> DEFINE u == [t EXCEPT !.heads = Append(t.heads, t.cur), !.hop = 0,
                            !.cur = Head(t.links).dst]
  <2>1. /\ DOMAIN u = DOMAIN NoTx
        /\ u.call = t.call /\ u.id = t.id /\ u.rows = t.rows /\ u.edges = t.edges
        /\ u.retired = t.retired /\ u.links = t.links /\ u.read = t.read
        /\ u.heads = Append(<<>>, t.cur)
    BY <1>1, <1>6, Fields
  <2>2. Goto(s, "resolve", u)
    BY <1>6
  <2>3. u.heads = <<t.cur>>
    BY <2>1
  <2> HIDE DEF u, t
  <2> QED BY <1>2, <1>6, <2>1, <2>2, <2>3
<1>7. CASE /\ t.cur \in Ends(memory, w, t) /\ t.heads # <<>>
           /\ Goto(s, "put", [t EXCEPT !.heads = Append(t.heads, t.cur), !.cur = None, !.hop = 0])
  <2> DEFINE u == [t EXCEPT !.heads = Append(t.heads, t.cur), !.cur = None, !.hop = 0]
  <2>1. /\ DOMAIN u = DOMAIN NoTx
        /\ u.call = t.call /\ u.id = t.id /\ u.rows = t.rows /\ u.edges = t.edges
        /\ u.retired = t.retired /\ u.links = t.links /\ u.read = t.read
        /\ u.heads = Append(t.heads, t.cur)
    BY <1>1, <1>7, Fields
  <2>2. Goto(s, "put", u)
    BY <1>7
  <2>3. PICK a \in Ends(memory, w, t) : t.heads = <<a>>
    BY <1>1, <1>7
  <2>4. u.heads = <<a, t.cur>>
    <3> HIDE DEF u, t
    <3> QED BY <2>1, <2>3, AppendOne
  <2> HIDE DEF u, t
  <2> QED BY <1>2, <1>7, <2>1, <2>2, <2>3, <2>4
<1>8. LET found == t.cur \in RowsOf(mem, w.client)
      IN \/ Goto(s, "resolve", [t EXCEPT !.cur = mem[t.cur].supersededBy, !.hop = @ + 1])
         \/ /\ found /\ Live(mem[t.cur]) /\ t.heads = <<>>
            /\ Goto(s, "resolve", [t EXCEPT !.heads = Append(t.heads, t.cur), !.hop = 0,
                                            !.cur = Head(t.links).dst])
         \/ /\ found /\ Live(mem[t.cur]) /\ t.heads # <<>>
            /\ Goto(s, "put", [t EXCEPT !.heads = Append(t.heads, t.cur), !.cur = None, !.hop = 0])
         \/ LinkDone(s, t)
  BY Zenon DEF Resolve, Sees
<1> HIDE DEF t, mem, w
<1> QED BY <1>3, <1>4, <1>5, <1>6, <1>7, <1>8

\* The edge put joins ends that the write rules allow, under a key that is
\* nobody's.
LEMMA PutStep ==
  ASSUME Inv, NEW s \in Session, PutEdge(s)
  PROVE  Inv'
<1> DEFINE t == tx[s]
           w == ScopeOf[s]
           k == LinkKey(s)
           d == NewEdge(w.client, k)
           u == [t EXCEPT !.edges = Over([e \in {nextEdge} |-> d], @)]
<1>1. /\ pc[s] = "put" /\ UNCHANGED <<tables, nextId>>
      /\ t.call.op \in {"save", "link"} /\ DOMAIN t = DOMAIN NoTx
      /\ t.links \in Seq(LinkType) /\ t.links # <<>>
      /\ RowsHeld(memory, w, "resolve", t) /\ EdgesHeld(memory, w, t)
  BY Mine DEF PutEdge, CallHeld, LinksHeld, RowsHeld
<1>2. PICK a, b \in Ends(memory, w, t) : t.heads = <<a, b>>
  BY <1>1, Mine DEF LinksHeld
<1>3. t.heads[1] = a /\ t.heads[2] = b
  BY <1>2
<1>4. UNCHANGED sequences => UNCHANGED <<tables, sequences>>
  BY <1>1
<1>5. CASE LinkDone(s, t) /\ UNCHANGED nextEdge
  <2>1. UNCHANGED <<tables, sequences>>
    BY <1>1, <1>5 DEF sequences
  <2>2. PICK p, v : /\ Goto(s, p, v) /\ v.rows = t.rows /\ v.edges = t.edges
                    /\ TxHeld(memory, edge, w, p, v)
    BY <1>1, <1>5, LinkDoneStep
  <2> QED BY <2>1, <2>2, ReadStep
<1>6. CASE HasKey(Edges(s), k) /\ Goto(s, "found", t) /\ UNCHANGED nextEdge
  <2>1. UNCHANGED <<tables, sequences>>
    BY <1>1, <1>6 DEF sequences
  <2>2. CallHeld("found", t) /\ RowsHeld(memory, w, "found", t) /\ LinksHeld(memory, w, "found", t)
    BY <1>1, <1>2, Mine DEF CallHeld, RowsHeld, LinksHeld
  <2>3. FoundHeld(edge, "found", t)
    BY <1>6 DEF HasKey, Edges, LiveEdges, LinkKey, FoundHeld
  <2>4. TxHeld(memory, edge, w, "found", t)
    BY <1>1, <2>2, <2>3 DEF TxHeld
  <2> QED BY <1>6, <2>1, <2>4, ReadStep
<1>7. CASE /\ MayLink(Rows(s), w, a, b)
           /\ \A v \in Session \ {s} : ~HasKey(tx[v].edges, k)
           /\ ~HasKey(Edges(s), k)
           /\ LinkDone(s, u) /\ nextEdge' = nextEdge + 1
  <2>1. /\ DOMAIN u = DOMAIN NoTx /\ u.call = t.call /\ u.id = t.id /\ u.rows = t.rows
        /\ u.retired = t.retired /\ u.links = t.links /\ u.read = t.read
        /\ u.edges = Over([e \in {nextEdge} |-> d], t.edges)
    BY <1>1, Fields
  <2>2. nextEdge \notin DOMAIN t.edges /\ nextEdge \notin DOMAIN edge /\ nextEdge \in Id
    BY Mine DEF IdsApart, Inv, Tables, Id
  <2>3. /\ DOMAIN u.edges = DOMAIN t.edges \cup {nextEdge} /\ u.edges[nextEdge] = d
        /\ \A e \in DOMAIN t.edges : u.edges[e] = t.edges[e]
    BY <2>1, <2>2 DEF Over
  <2>4. /\ a \in DOMAIN Rows(s) /\ Rows(s)[a].client = w.client /\ a \notin t.retired
        /\ b \in DOMAIN Rows(s) /\ Rows(s)[b].client = w.client /\ b \notin t.retired
        /\ a # b /\ (Rows(s)[a].ns = w.ns \/ Rows(s)[b].ns = w.ns)
    BY <1>2, <1>7 DEF Ends, RowsOf, Rows, MayLink
  <2>5. a \in Id /\ b \in Id
    <3>1. DOMAIN Rows(s) = DOMAIN t.rows \cup DOMAIN memory
      BY DEF Rows, Over
    <3>2. DOMAIN t.rows \subseteq Id /\ DOMAIN memory \subseteq Id
      BY Mine DEF IdsApart, Inv, Tables, Id
    <3> QED BY <2>4, <3>1, <3>2
  <2>6. Head(t.links) \in LinkType
    BY <1>1
  <2>7. Head(t.links).rel \in Rel
    BY <2>6 DEF LinkType
  <2> DEFINE r == Head(t.links).rel
  <2>8. k = StoredKey(a, r, b)
    BY <1>3 DEF LinkKey
  <2> HIDE DEF k, u, t, r
  <2>9. \/ k = [src |-> a, rel |-> r, dst |-> b] /\ (r \in SymmetricRel => a < b)
        \/ k = [src |-> b, rel |-> r, dst |-> a] /\ (r \in SymmetricRel => b < a)
    BY <2>4, <2>5, <2>8 DEF StoredKey, Id
  <2>10. /\ k.src \in Id /\ k.dst \in Id /\ k.rel = r /\ {k.src, k.dst} = {a, b}
         /\ (r \in SymmetricRel => k.src < k.dst) /\ k = [src |-> k.src, rel |-> k.rel, dst |-> k.dst]
    BY <2>5, <2>9
  <2>11. d \in Edge /\ d.client = w.client /\ ~d.forgotten /\ d.src = k.src /\ d.dst = k.dst
         /\ d.rel = k.rel /\ KeyOf(d) = k
    <3>1. r \in Rel
      BY <2>7 DEF r, t
    <3>2. w.client \in Client
      BY Mine DEF Scope
    <3> QED BY <2>10, <3>1, <3>2 DEF NewEdge, Edge, KeyOf
  <2>12. Promise!Proper(Rows(s), w, d)
    BY <2>4, <2>10, <2>11 DEF Promise!Proper, Promise!RowsOf, Promise!TouchesNs
  <2>13. {d.src, d.dst} \cap t.retired = {}
    BY <2>4, <2>10, <2>11
  <2>14. EdgesHeld(memory, w, u)
    <3> HIDE DEF d
    <3>1. Over(u.rows, memory) = Rows(s) /\ Over(t.rows, memory) = Rows(s)
      BY <2>1 DEF Rows, t
    <3> QED BY <1>1, <2>1, <2>3, <2>11, <2>12, <2>13, <3>1 DEF EdgesHeld
  <2>15. RowsHeld(memory, w, "resolve", u)
    BY <1>1, <2>1 DEF RowsHeld, SaveHolds
  <2>16. u.call.op \in {"save", "link"} /\ u.links \in Seq(LinkType) /\ u.links # <<>>
    BY <1>1, <2>1
  <2>17. LinkDone(s, u)
    BY <1>7
  <2>18. PICK p, v : /\ Goto(s, p, v) /\ v.rows = u.rows /\ v.edges = u.edges
                     /\ TxHeld(memory, edge, w, p, v)
    BY <2>1, <2>14, <2>15, <2>16, <2>17, LinkDoneStep
  <2>19. /\ nextId' = nextId /\ nextEdge' = nextEdge + 1
         /\ nextId \in Id /\ nextEdge \in Id
    BY <1>1, <1>7 DEF Inv, Tables
  <2>20. nextId' \in Id /\ nextEdge' \in Id /\ nextId <= nextId' /\ nextEdge <= nextEdge'
    BY <2>19 DEF Id
  <2>21. IdsApart(v, nextId', nextEdge')
    <3>1. IdsApart(t, nextId, nextEdge)
      BY Mine DEF t
    <3> QED BY <2>1, <2>3, <2>18, <2>19, <3>1 DEF IdsApart, Id
  <2>22. k \notin Keys(edge) /\ \A e \in DOMAIN t.edges : KeyOf(t.edges[e]) # k
    <3>1. \A e \in DOMAIN t.edges : ~t.edges[e].forgotten
      BY <1>1 DEF EdgesHeld, Promise!Proper
    <3>2. DOMAIN t.edges \cap DOMAIN edge = {}
      BY Mine DEF KeysApart, t
    <3>3. Edges(s) = Over(t.edges, edge)
      BY DEF Edges, t
    <3>4. /\ DOMAIN Edges(s) = DOMAIN t.edges \cup DOMAIN edge
          /\ \A e \in DOMAIN t.edges : Edges(s)[e] = t.edges[e]
          /\ \A e \in DOMAIN edge : Edges(s)[e] = edge[e]
      BY <3>2, <3>3 DEF Over
    <3>5. \A e \in LiveEdges(Edges(s)) : KeyOf(Edges(s)[e]) # k
      BY <1>7 DEF HasKey
    <3> QED BY <3>1, <3>4, <3>5 DEF Keys, LiveEdges
  <2>23. KeysApart(v, edge)
    <3>1. KeysApart(t, edge)
      BY Mine DEF t
    <3> HIDE DEF d
    <3> QED BY <2>2, <2>3, <2>11, <2>18, <2>22, <3>1 DEF KeysApart
  <2>24. ASSUME NEW x \in Session \ {s}
         PROVE  Apart(v, tx[x])
    <3>1. Apart(t, tx[x])
      BY DEF Inv, Sessions, t
    <3>2. nextEdge \notin DOMAIN tx[x].edges
      BY <2>2, Mine DEF IdsApart, Id
    <3>3. \A e \in DOMAIN tx[x].edges : ~tx[x].edges[e].forgotten
      BY Mine DEF EdgesHeld, Promise!Proper
    <3>4. \A e \in DOMAIN tx[x].edges : KeyOf(tx[x].edges[e]) # k
      BY <1>7, <3>3 DEF HasKey, LiveEdges
    <3> HIDE DEF d
    <3> QED BY <2>1, <2>3, <2>11, <2>18, <3>1, <3>2, <3>4 DEF Apart
  <2> QED BY <1>1, <2>18, <2>20, <2>21, <2>23, <2>24, OwnStep
<1>8. \/ LinkDone(s, t) /\ UNCHANGED nextEdge
      \/ HasKey(Edges(s), k) /\ Goto(s, "found", t) /\ UNCHANGED nextEdge
      \/ /\ MayLink(Rows(s), w, t.heads[1], t.heads[2])
         /\ \A v \in Session \ {s} : ~HasKey(tx[v].edges, k)
         /\ ~HasKey(Edges(s), k)
         /\ LinkDone(s, u) /\ nextEdge' = nextEdge + 1
  BY Zenon DEF PutEdge
<1> QED BY <1>3, <1>5, <1>6, <1>7, <1>8, Zenon

LEMMA ReadExistingStep ==
  ASSUME Inv, NEW s \in Session, ReadExisting(s)
  PROVE  Inv'
<1>1. UNCHANGED <<tables, sequences>> /\ (LinkDone(s, tx[s]) \/ End(s)) /\ pc[s] = "found"
  BY DEF ReadExisting
<1>2. CASE End(s)
  <2>1. nextId' \in Id /\ nextId <= nextId' /\ UNCHANGED <<tables, nextEdge>>
    BY <1>1 DEF sequences, Inv, Tables, Id
  <2> QED BY <1>2, <2>1, EndStep
<1>3. CASE LinkDone(s, tx[s])
  <2>1. /\ tx[s].call.op \in {"save", "link"} /\ RowsHeld(memory, ScopeOf[s], "resolve", tx[s])
        /\ tx[s].links \in Seq(LinkType) /\ tx[s].links # <<>>
    BY <1>1, Mine DEF CallHeld, RowsHeld, LinksHeld
  <2>2. PICK p, u : /\ Goto(s, p, u) /\ u.rows = tx[s].rows /\ u.edges = tx[s].edges
                    /\ TxHeld(memory, edge, ScopeOf[s], p, u)
    BY <1>3, <2>1, Mine, LinkDoneStep
  <2> QED BY <1>1, <2>2, ReadStep
<1> QED BY <1>1, <1>2, <1>3

LEMMA LockStep ==
  ASSUME Inv, NEW s \in Session, Lock(s)
  PROVE  Inv'
<1> DEFINE i == tx[s].call.id
           row == [k \in {i} |-> memory[i]]
           t == [tx[s] EXCEPT !.rows = row, !.read = row]
<1>1. /\ pc[s] = "lock" /\ UNCHANGED <<tables, sequences>>
      /\ nextId' = nextId /\ nextEdge' = nextEdge /\ nextId \in Id /\ nextEdge \in Id
      /\ tx[s].call.op = "restore" /\ tx[s].rows = EmptyTable /\ tx[s].edges = EmptyTable
      /\ tx[s].retired = {} /\ tx[s].links \in Seq(LinkType) /\ DOMAIN tx[s] = DOMAIN NoTx
  BY Mine DEF Lock, sequences, CallHeld, RowsHeld, LinksHeld, Inv, Tables
<1>2. CASE End(s)
  BY <1>1, <1>2, EndStep DEF Id
<1>3. CASE /\ i \in DOMAIN memory /\ InScope(memory[i], ScopeOf[s]) /\ ~Locked(s, i)
           /\ Goto(s, "unhide", t)
  <2>1. /\ DOMAIN t = DOMAIN NoTx /\ t.call = tx[s].call /\ t.rows = row /\ t.read = row
        /\ t.edges = EmptyTable /\ t.retired = {} /\ t.links = tx[s].links
    BY <1>1, Fields
  <2>2. Goto(s, "unhide", t)
    BY <1>3
  <2> HIDE DEF t
  <2>3. CallHeld("unhide", t)
    BY <1>1, <2>1 DEF CallHeld
  <2>4. RowsHeld(memory, ScopeOf[s], "unhide", t)
    BY <1>1, <1>3, <2>1 DEF RowsHeld, RestoreReads
  <2>5. /\ LinksHeld(memory, ScopeOf[s], "unhide", t) /\ EdgesHeld(memory, ScopeOf[s], t)
        /\ FoundHeld(edge, "unhide", t)
    BY <1>1, <2>1 DEF LinksHeld, EdgesHeld, FoundHeld, EmptyTable
  <2>6. TxHeld(memory, edge, ScopeOf[s], "unhide", t)
    BY <2>1, <2>3, <2>4, <2>5 DEF TxHeld
  <2>7. i \in 1..(nextId - 1)
    BY <1>3 DEF Inv, Tables
  <2>8. DOMAIN t.rows = {i} /\ DOMAIN t.edges = {}
    BY <2>1 DEF EmptyTable
  <2>9. IdsApart(t, nextId', nextEdge') /\ KeysApart(t, edge)
    BY <1>1, <2>7, <2>8 DEF IdsApart, KeysApart
  <2>10. \A u \in Session \ {s} : Apart(t, tx[u])
    BY <1>3, <2>8 DEF Apart, Locked
  <2>11. nextId <= nextId' /\ nextEdge <= nextEdge'
    BY <1>1 DEF Id
  <2> QED BY <1>1, <2>2, <2>6, <2>9, <2>10, <2>11, OwnStep
<1> QED BY <1>2, <1>3 DEF Lock, ForUpdate

LEMMA UnhideStep ==
  ASSUME Inv, NEW s \in Session, Unhide(s)
  PROVE  Inv'
<1> DEFINE i == tx[s].call.id
           read == tx[s].read[i]
           cut == tx[s].call.detach /\ read.supersededBy # None
           row == [Rows(s)[i] EXCEPT !.forgotten = @ /\ ~read.forgotten,
                                     !.supersededBy = IF cut THEN None ELSE @]
           t == [tx[s] EXCEPT !.rows = [k \in {i} |-> row]]
<1>1. /\ pc[s] = "unhide" /\ UNCHANGED <<tables, sequences>> /\ Goto(s, "commit", t)
      /\ nextId' = nextId /\ nextEdge' = nextEdge /\ nextId \in Id /\ nextEdge \in Id
      /\ tx[s].call.op = "restore" /\ tx[s].edges = EmptyTable /\ tx[s].retired = {}
      /\ RestoreReads(memory, ScopeOf[s], tx[s]) /\ tx[s].rows = tx[s].read
      /\ tx[s].links \in Seq(LinkType) /\ DOMAIN tx[s] = DOMAIN NoTx
  BY Mine DEF Unhide, sequences, CallHeld, RowsHeld, LinksHeld, Inv, Tables
<1>2. /\ i \in DOMAIN memory /\ read = memory[i] /\ Rows(s)[i] = memory[i]
      /\ tx[s].read = [k \in {i} |-> memory[i]]
  BY <1>1 DEF RestoreReads, Rows, Over
<1>3. memory[i] \in Row
  BY <1>2 DEF Inv, Tables
<1>4. /\ DOMAIN t = DOMAIN NoTx /\ t.call = tx[s].call /\ t.rows = [k \in {i} |-> row]
      /\ t.read = tx[s].read /\ t.edges = EmptyTable /\ t.retired = {} /\ t.links = tx[s].links
  BY <1>1, Fields
<1>5. row = Unhidden(t)
  <2>1. Unhidden(t) = [memory[i] EXCEPT !.forgotten = FALSE,
                                        !.supersededBy = IF tx[s].call.detach THEN None ELSE @]
    <3>1. t.read[t.call.id] = memory[i] /\ t.call.detach = tx[s].call.detach
      BY <1>2, <1>4
    <3> HIDE DEF t
    <3> QED BY <3>1 DEF Unhidden
  <2>2. (memory[i].forgotten /\ ~memory[i].forgotten) = FALSE
    BY <1>3 DEF Row
  <2>3. row = [memory[i] EXCEPT !.forgotten = FALSE,
                                !.supersededBy = IF tx[s].call.detach THEN None ELSE @]
    BY <1>2, <1>3, <2>2 DEF Row
  <2> QED BY <2>1, <2>3
<1>6. Goto(s, "commit", t)
  BY <1>1
<1> HIDE DEF t
<1>7. DOMAIN t.rows = {i} /\ t.rows = [k \in {t.call.id} |-> Unhidden(t)] /\ DOMAIN t.edges = {}
  BY <1>4, <1>5 DEF EmptyTable
<1>8. CallHeld("commit", t)
  BY <1>1, <1>4 DEF CallHeld
<1>9. RowsHeld(memory, ScopeOf[s], "commit", t)
  BY <1>1, <1>4, <1>7 DEF RowsHeld, RestoreReads
<1>10. /\ LinksHeld(memory, ScopeOf[s], "commit", t) /\ EdgesHeld(memory, ScopeOf[s], t)
       /\ FoundHeld(edge, "commit", t)
  BY <1>1, <1>4 DEF LinksHeld, EdgesHeld, FoundHeld, EmptyTable
<1>11. TxHeld(memory, edge, ScopeOf[s], "commit", t)
  BY <1>4, <1>8, <1>9, <1>10 DEF TxHeld
<1>12. DOMAIN tx[s].rows = {i}
  BY <1>1, <1>2
<1>13. IdsApart(t, nextId', nextEdge') /\ KeysApart(t, edge)
  BY <1>1, <1>7, <1>12, Mine DEF IdsApart, KeysApart
<1>14. ASSUME NEW u \in Session \ {s}
       PROVE  Apart(t, tx[u])
  <2>1. Apart(tx[s], tx[u])
    BY DEF Inv, Sessions
  <2> QED BY <1>7, <1>12, <2>1 DEF Apart
<1>15. nextId <= nextId' /\ nextEdge <= nextEdge'
  BY <1>1 DEF Id
<1> QED BY <1>1, <1>6, <1>11, <1>13, <1>14, <1>15, OwnStep

-----------------------------------------------------------------------------
(* The statements that commit, and what the promise calls them.            *)

LEMMA ForgetStep ==
  ASSUME Inv, NEW s \in Session, Forget(s)
  PROVE  Inv' /\ [Promise!Next]_Promise!vars
<1> DEFINE i == tx[s].call.id
<1>1. End(s) /\ UNCHANGED <<edge, age, sequences>> /\ ScopeOf[s] \in Scope
  BY Mine DEF Forget
<1>2. CASE UNCHANGED memory
  <2>1. UNCHANGED <<tables, nextEdge>> /\ nextId' \in Id /\ nextId <= nextId'
    BY <1>1, <1>2 DEF tables, sequences, Inv, Tables, Id
  <2> QED BY <1>1, <1>2, <2>1, EndStep DEF Promise!vars
<1>3. CASE /\ Forgettable(s, i) /\ ~Locked(s, i)
           /\ memory' = [memory EXCEPT ![i].forgotten = TRUE]
  <2>1. i \in DOMAIN memory /\ InScope(memory[i], ScopeOf[s])
    BY <1>3 DEF Forgettable
  <2>2. \A k \in DOMAIN memory : memory[k] \in Row
    BY DEF Inv, Tables
  <2>3. /\ DOMAIN memory' = DOMAIN memory
        /\ memory'[i] = [memory[i] EXCEPT !.forgotten = TRUE] /\ memory'[i] \in Row
        /\ \A k \in DOMAIN memory \ {i} : memory'[k] = memory[k]
    BY <1>3, <2>1, <2>2 DEF Row
  <2>4. \A k \in DOMAIN memory :
          /\ memory'[k].client = memory[k].client /\ memory'[k].ns = memory[k].ns
          /\ memory'[k].expired = memory[k].expired /\ memory'[k] \in Row
    BY <2>1, <2>2, <2>3 DEF Row
  <2>5. Tables'
    <3>1. memory' \in [DOMAIN memory' -> Row]
      BY <1>3, <2>3, <2>4
    <3> QED BY <1>1, <2>3, <2>4, <3>1 DEF Inv, Tables, sequences
  <2>6. ASSUME NEW u \in Session \ {s}
        PROVE  RowsStay(memory, memory', DOMAIN tx[u].rows)
    <3>1. i \notin DOMAIN tx[u].rows
      BY <1>3 DEF Locked
    <3> QED BY <2>3, <2>4, <3>1 DEF RowsStay
  <2>7. \A u \in Session : KeysApart(tx[u], edge')
    BY <1>1, Mine
  <2>8. Inv'
    BY <1>1, <2>5, <2>6, <2>7, CommitStep
  <2>9. Promise!Mark(ScopeOf[s], i)
    <3>1. Promise!InScope(memory[i], ScopeOf[s])
      BY <2>1 DEF InScope, Promise!InScope
    <3>2. memory[i] \in Row
      BY <2>1, <2>2
    <3>3. memory' = [memory EXCEPT ![i].forgotten = TRUE, ![i].expired = memory[i].expired,
                                   ![i].supersededBy = memory[i].supersededBy]
      BY <1>3, <2>1, <3>2 DEF Row
    <3>4. memory[i].expired \in BOOLEAN
      BY <3>2 DEF Row
    <3> QED BY <1>1, <3>1, <3>3, <3>4 DEF Promise!Mark
  <2> QED BY <1>1, <2>1, <2>8, <2>9 DEF Promise!Next, Promise!Scope, Scope
<1> QED BY <1>2, <1>3 DEF Forget

LEMMA ForgetEdgeStep ==
  ASSUME Inv, NEW s \in Session, ForgetEdge(s)
  PROVE  Inv' /\ [Promise!Next]_Promise!vars
<1> DEFINE e == tx[s].call.id
<1>1. End(s) /\ UNCHANGED <<memory, age, sequences>> /\ ScopeOf[s] \in Scope
  BY Mine DEF ForgetEdge
<1>2. CASE UNCHANGED edge
  <2>1. UNCHANGED <<tables, nextEdge>> /\ nextId' \in Id /\ nextId <= nextId'
    BY <1>1, <1>2 DEF tables, sequences, Inv, Tables, Id
  <2> QED BY <1>1, <1>2, <2>1, EndStep DEF Promise!vars
<1>3. CASE EdgeForgettable(s, e) /\ edge' = [edge EXCEPT ![e].forgotten = TRUE]
  <2>1. /\ e \in DOMAIN edge /\ edge[e].client = ScopeOf[s].client
        /\ TouchesNs(memory, edge[e], ScopeOf[s])
    BY <1>3 DEF EdgeForgettable, LiveEdges
  <2>2. \A f \in DOMAIN edge : edge[f] \in Edge
    BY DEF Inv, Tables
  <2>3. /\ DOMAIN edge' = DOMAIN edge
        /\ edge'[e] = [edge[e] EXCEPT !.forgotten = TRUE] /\ edge'[e] \in Edge
        /\ edge'[e].forgotten /\ KeyOf(edge'[e]) = KeyOf(edge[e])
        /\ \A f \in DOMAIN edge \ {e} : edge'[f] = edge[f]
    BY <1>3, <2>1, <2>2 DEF Edge, KeyOf
  <2>4. \A f \in DOMAIN edge : KeyOf(edge'[f]) = KeyOf(edge[f]) /\ edge'[f] \in Edge
    BY <2>2, <2>3
  <2>5. Tables'
    <3>1. edge' \in [DOMAIN edge' -> Edge]
      BY <1>3, <2>3, <2>4
    <3> QED BY <1>1, <2>3, <3>1 DEF Inv, Tables, sequences
  <2>6. Keys(edge') \subseteq Keys(edge)
    <3>1. \A f \in LiveEdges(edge') : f \in LiveEdges(edge) /\ edge'[f] = edge[f]
      BY <2>3 DEF LiveEdges
    <3> QED BY <3>1 DEF Keys
  <2>7. \A u \in Session : KeysApart(tx[u], edge')
    BY <2>3, <2>6, Mine DEF KeysApart
  <2>8. \A u \in Session : RowsStay(memory, memory', DOMAIN tx[u].rows)
    <3>1. ASSUME NEW u \in Session PROVE RowsStay(memory, memory', DOMAIN tx[u].rows)
      BY <1>1 DEF RowsStay
    <3> QED BY <3>1
  <2>9. Inv'
    BY <1>1, <2>3, <2>4, <2>5, <2>7, <2>8, CommitStep
  <2>10. Promise!ForgetEdge(ScopeOf[s], e)
    BY <1>1, <1>3, <2>1 DEF Promise!ForgetEdge, TouchesNs, Promise!TouchesNs
  <2> QED BY <1>1, <2>1, <2>9, <2>10 DEF Promise!Next, Promise!Scope, Scope
<1> QED BY <1>2, <1>3 DEF ForgetEdge

\* What a transaction writes to memory, as its commit shows it: rows of its own
\* project only, those held by no other.
LEMMA WritesOwn ==
  ASSUME Inv, NEW s \in Session, pc[s] = "commit"
  PROVE  /\ \A i \in DOMAIN tx[s].rows : tx[s].rows[i] \in Row /\ ~tx[s].rows[i].expired
         /\ \A i \in DOMAIN tx[s].rows : InScope(tx[s].rows[i], ScopeOf[s])
         /\ \A i \in DOMAIN tx[s].rows : i \in DOMAIN memory => InScope(memory[i], ScopeOf[s])
<1> DEFINE t == tx[s]
           w == ScopeOf[s]
<1>1. /\ t.call.op \in {"save", "link", "restore"} /\ RowsHeld(memory, w, "commit", t)
      /\ w \in Scope
  BY Mine DEF CallHeld
<1>2. \A i \in DOMAIN memory : memory[i] \in Row /\ ~memory[i].expired
  BY DEF Inv, Tables
<1>3. CASE t.call.op = "link"
  <2>1. t.rows = EmptyTable
    BY <1>1, <1>3 DEF RowsHeld
  <2> QED BY <2>1 DEF EmptyTable
<1>4. CASE t.call.op = "save"
  <2>1. SaveHolds(memory, w, t)
    BY <1>1, <1>4 DEF RowsHeld
  <2>2. NewRow(w) \in Row /\ ~NewRow(w).expired /\ InScope(NewRow(w), w)
    BY <1>1 DEF NewRow, Row, Scope, InScope, None
  <2>3. ASSUME NEW i \in t.retired
        PROVE  LET r == [memory[i] EXCEPT !.supersededBy = t.id]
               IN /\ i \in DOMAIN memory /\ r \in Row /\ ~r.expired /\ InScope(r, w)
                  /\ InScope(memory[i], w)
    <3>1. i \in DOMAIN memory /\ InScope(memory[i], w) /\ t.id \in Nat
      BY <2>1 DEF SaveHolds, Retirable, Id
    <3> QED BY <1>2, <3>1 DEF Row, InScope
  <2>4. /\ DOMAIN t.rows = {t.id} \cup t.retired /\ t.id \notin DOMAIN memory
        /\ t.rows[t.id] = NewRow(w)
        /\ \A i \in t.retired : i # t.id =>
             t.rows[i] = [memory[i] EXCEPT !.supersededBy = t.id]
    BY <2>1 DEF SaveHolds
  <2> HIDE DEF t, w
  <2>5. ASSUME NEW i \in DOMAIN t.rows
        PROVE  /\ t.rows[i] \in Row /\ ~t.rows[i].expired /\ InScope(t.rows[i], w)
               /\ i \in DOMAIN memory => InScope(memory[i], w)
    <3>1. CASE i = t.id
      BY <2>2, <2>4, <3>1
    <3>2. CASE i # t.id
      BY <2>3, <2>4, <3>2
    <3> QED BY <3>1, <3>2
  <2> QED BY <2>5 DEF t, w
<1>5. CASE t.call.op = "restore"
  <2> DEFINE i == t.call.id
  <2>1. RestoreReads(memory, w, t) /\ t.rows = [k \in {i} |-> Unhidden(t)]
    BY <1>1, <1>5 DEF RowsHeld
  <2>2. i \in DOMAIN memory /\ InScope(memory[i], w) /\ t.read[i] = memory[i]
    BY <2>1 DEF RestoreReads
  <2>3. memory[i] \in Row /\ ~memory[i].expired
    BY <1>2, <2>2
  <2>4. Unhidden(t) \in Row /\ ~Unhidden(t).expired /\ InScope(Unhidden(t), w)
    BY <2>2, <2>3 DEF Unhidden, Row, InScope, None
  <2> QED BY <2>1, <2>2, <2>4
<1> QED BY <1>1, <1>3, <1>4, <1>5

\* The tables after a commit.
LEMMA Committed ==
  ASSUME Inv, NEW s \in Session, Commit(s)
  PROVE  /\ pc[s] = "commit" /\ End(s) /\ UNCHANGED sequences
         /\ DOMAIN memory' = DOMAIN tx[s].rows \cup DOMAIN memory
         /\ \A i \in DOMAIN tx[s].rows : memory'[i] = tx[s].rows[i]
         /\ \A i \in DOMAIN memory : i \notin DOMAIN tx[s].rows => memory'[i] = memory[i]
         /\ memory' = [i \in DOMAIN memory' |-> memory'[i]]
         /\ DOMAIN edge' = DOMAIN tx[s].edges \cup DOMAIN edge
         /\ DOMAIN tx[s].edges \cap DOMAIN edge = {}
         /\ \A e \in DOMAIN tx[s].edges : edge'[e] = tx[s].edges[e]
         /\ \A e \in DOMAIN edge : edge'[e] = edge[e]
         /\ edge' = [e \in DOMAIN edge' |-> edge'[e]]
         /\ DOMAIN age' = DOMAIN memory'
         /\ \A i \in DOMAIN memory : age'[i] = age[i]
         /\ \A i \in DOMAIN memory' \ DOMAIN memory : age'[i] = Latest + 1
         /\ age' = [i \in DOMAIN age' |-> age'[i]]
<1>1. /\ pc[s] = "commit" /\ End(s) /\ UNCHANGED sequences
      /\ memory' = Over(tx[s].rows, memory) /\ edge' = Over(tx[s].edges, edge)
      /\ age' = Over(age, [i \in DOMAIN Rows(s) |-> Latest + 1])
  BY DEF Commit, Rows, Edges
<1>2. DOMAIN tx[s].edges \cap DOMAIN edge = {}
  BY Mine DEF KeysApart
<1>3. DOMAIN age = DOMAIN memory
  BY DEF Inv, Tables
<1>4. DOMAIN Rows(s) = DOMAIN memory'
  BY <1>1 DEF Rows
<1> QED BY <1>1, <1>2, <1>3, <1>4 DEF Over

\* Nothing is as old as the latest commit.
LEMMA LatestIs ==
  ASSUME Inv
  PROVE  Latest \in Nat /\ \A i \in DOMAIN memory : age[i] <= Latest
<1>1. /\ DOMAIN age = DOMAIN memory /\ \A i \in DOMAIN memory : age[i] \in Nat
  BY DEF Inv, Tables, Id
<1>2. CASE DOMAIN memory = {}
  BY <1>1, <1>2 DEF Latest
<1>3. CASE DOMAIN memory # {}
  <2> DEFINE S == {age[i] : i \in DOMAIN age}
  <2>1. S \subseteq Nat /\ S # {} /\ \A i \in DOMAIN memory : age[i] \in S
    BY <1>1, <1>3
  <2>2. PICK b \in Nat : \A x \in S : x <= b
    BY <1>1 DEF Inv, Tables
  <2>3. Latest = Max(S)
    BY <1>1, <1>3 DEF Latest
  <2> HIDE DEF S
  <2>4. Max(S) \in S /\ \A x \in S : x <= Max(S)
    BY <2>1, <2>2, MaxIs
  <2> QED BY <2>1, <2>3, <2>4
<1> QED BY <1>2, <1>3

\* A commit keeps the tables, and what the other sessions hold.
LEMMA CommitInv ==
  ASSUME Inv, NEW s \in Session, Commit(s)
  PROVE  Inv'
<1> DEFINE t == tx[s]
<1>1. /\ pc[s] = "commit" /\ End(s) /\ UNCHANGED sequences
      /\ nextId' = nextId /\ nextEdge' = nextEdge /\ nextId \in Id /\ nextEdge \in Id
  BY Committed DEF sequences, Inv, Tables
<1>2. /\ \A i \in DOMAIN memory : memory[i] \in Row /\ ~memory[i].expired
      /\ \A e \in DOMAIN edge : edge[e] \in Edge
      /\ DOMAIN memory \subseteq 1..(nextId - 1) /\ DOMAIN edge \subseteq 1..(nextEdge - 1)
      /\ DOMAIN age = DOMAIN memory /\ \A i \in DOMAIN memory : age[i] \in Id
  BY DEF Inv, Tables
<1>3. DOMAIN t.rows \subseteq 1..(nextId - 1) /\ DOMAIN t.edges \subseteq 1..(nextEdge - 1)
  BY Mine DEF IdsApart
<1>4. \A e \in DOMAIN t.edges : t.edges[e] \in Edge
  BY Mine DEF EdgesHeld
<1>5. Tables'
  <2>1. memory' \in [DOMAIN memory' -> Row] /\ \A i \in DOMAIN memory' : ~memory'[i].expired
    <3>1. \A i \in DOMAIN t.rows : t.rows[i] \in Row /\ ~t.rows[i].expired
      BY <1>1, WritesOwn
    <3>2. /\ DOMAIN memory' = DOMAIN t.rows \cup DOMAIN memory
          /\ \A i \in DOMAIN t.rows : memory'[i] = t.rows[i]
          /\ \A i \in DOMAIN memory : i \notin DOMAIN t.rows => memory'[i] = memory[i]
          /\ memory' = [i \in DOMAIN memory' |-> memory'[i]]
      BY Committed
    <3> HIDE DEF t
    <3>3. \A i \in DOMAIN memory' : memory'[i] \in Row /\ ~memory'[i].expired
      BY <1>2, <3>1, <3>2
    <3> QED BY <3>2, <3>3
  <2>2. edge' \in [DOMAIN edge' -> Edge]
    <3>1. \A e \in DOMAIN edge' : edge'[e] \in Edge
      BY <1>2, <1>4, Committed
    <3> QED BY <3>1, Committed
  <2>3. Latest + 1 \in Id /\ Latest + 1 \in Nat /\ \A i \in DOMAIN memory : age[i] <= Latest + 1
    <3>1. Latest \in Nat /\ \A i \in DOMAIN memory : age[i] <= Latest
      BY LatestIs
    <3> QED BY <1>2, <3>1 DEF Id
  <2>4. \A i \in DOMAIN memory' : age'[i] \in Id /\ age'[i] <= Latest + 1
    <3>1. Latest + 1 <= Latest + 1
      BY <2>3
    <3> QED BY <1>2, <2>3, <3>1, Committed
  <2>5. age' \in [DOMAIN memory' -> Id]
    BY <2>4, Committed
  <2>6. \E bound \in Nat : \A i \in DOMAIN memory' : age'[i] <= bound
    BY <2>3, <2>4
  <2>7. DOMAIN memory' \subseteq 1..(nextId' - 1) /\ DOMAIN edge' \subseteq 1..(nextEdge' - 1)
    BY <1>1, <1>2, <1>3, Committed
  <2> QED BY <1>1, <2>1, <2>2, <2>5, <2>6, <2>7 DEF Tables
<1>6. DOMAIN edge \subseteq DOMAIN edge' /\ \A e \in DOMAIN edge : KeyOf(edge'[e]) = KeyOf(edge[e])
  BY Committed
<1>7. ASSUME NEW u \in Session \ {s}
      PROVE  RowsStay(memory, memory', DOMAIN tx[u].rows) /\ KeysApart(tx[u], edge')
  <2>1. Apart(t, tx[u])
    BY DEF Inv, Sessions
  <2>2. RowsStay(memory, memory', DOMAIN tx[u].rows)
    <3>1. \A i \in DOMAIN memory :
            memory'[i].client = memory[i].client /\ memory'[i].ns = memory[i].ns
      <4>1. ASSUME NEW i \in DOMAIN memory, i \in DOMAIN t.rows
            PROVE  memory'[i].client = memory[i].client /\ memory'[i].ns = memory[i].ns
        <5>1. memory'[i] = t.rows[i]
          BY <4>1, Committed
        <5>2. InScope(t.rows[i], ScopeOf[s]) /\ InScope(memory[i], ScopeOf[s])
          BY <1>1, <4>1, WritesOwn
        <5> QED BY <5>1, <5>2 DEF InScope
      <4> QED BY <4>1, Committed
    <3>2. DOMAIN memory \subseteq DOMAIN memory'
      BY Committed
    <3>3. ASSUME NEW i \in DOMAIN tx[u].rows
          PROVE  IF i \in DOMAIN memory THEN memory'[i] = memory[i] ELSE i \notin DOMAIN memory'
      <4>1. i \notin DOMAIN t.rows
        BY <2>1 DEF Apart
      <4> QED BY <4>1, Committed
    <3> QED BY <3>1, <3>2, <3>3 DEF RowsStay
  <2>3. KeysApart(tx[u], edge')
    <3>1. KeysApart(tx[u], edge)
      BY Mine
    <3>2. DOMAIN tx[u].edges \cap DOMAIN edge' = {}
      BY <2>1, <3>1, Committed DEF Apart, KeysApart
    <3>3. ASSUME NEW e \in DOMAIN tx[u].edges, NEW f \in LiveEdges(edge'),
                 KeyOf(tx[u].edges[e]) = KeyOf(edge'[f])
          PROVE  FALSE
      <4>1. CASE f \in DOMAIN t.edges
        <5>1. edge'[f] = t.edges[f]
          BY <4>1, Committed
        <5> QED BY <2>1, <3>3, <4>1, <5>1 DEF Apart
      <4>2. CASE f \in DOMAIN edge
        <5>1. edge'[f] = edge[f]
          BY <4>2, Committed
        <5>2. f \in LiveEdges(edge)
          BY <3>3, <4>2, <5>1 DEF LiveEdges
        <5>3. KeyOf(tx[u].edges[e]) \in Keys(edge)
          BY <3>3, <5>1, <5>2 DEF Keys
        <5> QED BY <3>1, <5>3 DEF KeysApart
      <4> QED BY <3>3, <4>1, <4>2, Committed DEF LiveEdges
    <3>4. \A e \in DOMAIN tx[u].edges : KeyOf(tx[u].edges[e]) \notin Keys(edge')
      BY <3>3 DEF Keys
    <3> QED BY <3>1, <3>2, <3>4 DEF KeysApart
  <2> QED BY <2>2, <2>3
<1> QED BY <1>1, <1>5, <1>6, <1>7, CommitStep

\* The edges of a commit are those the promise allows.
LEMMA CommitEdges ==
  ASSUME Inv, NEW s \in Session, Commit(s)
  PROVE  Promise!AddEdges(memory', ScopeOf[s])
<1> DEFINE t == tx[s]
<1>1. EdgesHeld(memory, ScopeOf[s], t) /\ KeysApart(t, edge) /\ Over(t.rows, memory) = memory'
  BY Mine DEF Commit, Rows
<1>2. DOMAIN edge \subseteq DOMAIN edge' /\ DOMAIN edge' \subseteq Id
  <2>1. Tables'
    BY CommitInv DEF Inv
  <2>2. DOMAIN edge' \subseteq 1..(nextEdge' - 1) /\ nextEdge' \in Id
    BY <2>1 DEF Tables
  <2>3. DOMAIN edge' \subseteq Id
    BY <2>2 DEF Id
  <2>4. DOMAIN edge \subseteq DOMAIN edge'
    BY Committed
  <2> QED BY <2>3, <2>4
<1>3. edge' = [e \in DOMAIN edge' |-> IF e \in DOMAIN edge THEN edge[e] ELSE edge'[e]]
  BY Committed
<1>4. \A e \in DOMAIN edge' \ DOMAIN edge :
        e \in DOMAIN t.edges /\ edge'[e] = t.edges[e]
  BY Committed
<1>5. \A e \in DOMAIN edge' \ DOMAIN edge :
        edge'[e] \in Edge /\ Promise!Proper(memory', ScopeOf[s], edge'[e])
  BY <1>1, <1>4 DEF EdgesHeld
<1>6. ASSUME NEW e \in DOMAIN edge' \ DOMAIN edge, NEW f \in LiveEdges(edge'),
             KeyOf(edge'[e]) = KeyOf(edge'[f])
      PROVE  e = f
  <2>1. CASE f \in DOMAIN t.edges
    <3>1. edge'[f] = t.edges[f]
      BY <2>1, Committed
    <3> QED BY <1>1, <1>4, <1>6, <2>1, <3>1 DEF KeysApart
  <2>2. CASE f \in DOMAIN edge
    <3>1. edge'[f] = edge[f]
      BY <2>2, Committed
    <3>2. f \in LiveEdges(edge)
      BY <1>6, <2>2, <3>1 DEF LiveEdges
    <3>3. KeyOf(t.edges[e]) \in Keys(edge)
      BY <1>4, <1>6, <3>1, <3>2 DEF Keys
    <3> QED BY <1>1, <1>4, <3>3 DEF KeysApart
  <2> QED BY <1>6, <2>1, <2>2, Committed DEF LiveEdges
<1> QED BY <1>2, <1>3, <1>5, <1>6
        DEF Promise!AddEdges, Promise!Id, Id, Promise!Edge, Edge, Promise!LiveEdges, LiveEdges,
            Promise!KeyOf, KeyOf

\* Whatever call commits, it is a step of the promise.
LEMMA CommitPromise ==
  ASSUME Inv, NEW s \in Session, Commit(s)
  PROVE  Promise!Next
<1> DEFINE t == tx[s]
           w == ScopeOf[s]
<1>1. /\ t.call.op \in {"save", "link", "restore"} /\ RowsHeld(memory, w, "commit", t)
      /\ t.call.op = "restore" => t.edges = EmptyTable
      /\ w \in Promise!Scope
  <2>1. pc[s] = "commit"
    BY DEF Commit
  <2>2. CallHeld("commit", t) /\ RowsHeld(memory, w, "commit", t) /\ w \in Scope
    BY <2>1, Mine
  <2> QED BY <2>2 DEF CallHeld, Promise!Scope, Scope
<1>2. /\ memory = [i \in DOMAIN memory |-> memory[i]] /\ edge = [e \in DOMAIN edge |-> edge[e]]
      /\ age = [i \in DOMAIN age |-> age[i]] /\ DOMAIN age = DOMAIN memory
      /\ \A i \in DOMAIN memory : memory[i] \in Row
  BY DEF Inv, Tables
<1>3. Promise!AddEdges(memory', w)
  BY CommitEdges
<1>4. /\ DOMAIN memory' = DOMAIN t.rows \cup DOMAIN memory
      /\ \A i \in DOMAIN t.rows : memory'[i] = t.rows[i]
      /\ \A i \in DOMAIN memory : i \notin DOMAIN t.rows => memory'[i] = memory[i]
      /\ memory' = [i \in DOMAIN memory' |-> memory'[i]]
  BY Committed
<1>5. /\ DOMAIN age' = DOMAIN memory' /\ age' = [i \in DOMAIN age' |-> age'[i]]
      /\ \A i \in DOMAIN memory : age'[i] = age[i]
      /\ \A i \in DOMAIN memory' \ DOMAIN memory : age'[i] = Latest + 1
  BY Committed
<1>6. DOMAIN memory' = DOMAIN memory => UNCHANGED age
  BY <1>2, <1>5
<1> HIDE DEF t, w
<1>7. CASE t.call.op = "save"
  <2> DEFINE n == t.id
             R == t.retired
  <2>1. SaveHolds(memory, w, t)
    BY <1>1, <1>7 DEF RowsHeld
  <2>2. /\ n \in Id \ DOMAIN memory /\ R \subseteq DOMAIN memory
        /\ \A i \in R : Retirable(memory, w, i, n)
        /\ DOMAIN t.rows = {n} \cup R /\ t.rows[n] = NewRow(w)
        /\ \A i \in R : i # n => t.rows[i] = [memory[i] EXCEPT !.supersededBy = n]
    BY <2>1 DEF SaveHolds, Retirable
  <2> HIDE DEF n, R
  <2>3. DOMAIN memory' = DOMAIN memory \cup {n}
    BY <1>4, <2>2
  <2>4. memory' = [i \in DOMAIN memory \cup {n} |->
                     IF i = n THEN NewRow(w)
                     ELSE IF i \in R THEN [memory[i] EXCEPT !.supersededBy = n]
                     ELSE memory[i]]
    <3>1. ASSUME NEW i \in DOMAIN memory \cup {n}
          PROVE  memory'[i] = IF i = n THEN NewRow(w)
                              ELSE IF i \in R THEN [memory[i] EXCEPT !.supersededBy = n]
                              ELSE memory[i]
      <4>1. CASE i = n
        BY <1>4, <2>2, <4>1
      <4>2. CASE i # n /\ i \in R
        BY <1>4, <2>2, <4>2
      <4>3. CASE i # n /\ i \notin R
        BY <1>4, <2>2, <4>3
      <4> QED BY <4>1, <4>2, <4>3
    <3> QED BY <1>4, <2>3, <3>1
  <2>5. age' = [i \in DOMAIN memory' |-> IF i = n THEN age'[n] ELSE age[i]]
    BY <1>5, <2>3
  <2>6. age'[n] \in Id /\ \A i \in DOMAIN memory : age[i] < age'[n]
    <3>1. age'[n] = Latest + 1
      BY <1>5, <2>2, <2>3
    <3>2. Latest \in Nat /\ \A i \in DOMAIN memory : age[i] <= Latest
      BY LatestIs
    <3>3. \A i \in DOMAIN memory : age[i] \in Nat
      BY DEF Inv, Tables, Id
    <3> QED BY <3>1, <3>2, <3>3 DEF Id
  <2>7. Promise!Save(w, n, R)
    BY <1>3, <2>2, <2>4, <2>5, <2>6
       DEF Promise!Save, Promise!Id, Id, Promise!Retirable, Retirable, Promise!InScope, InScope,
           Promise!NewRow, NewRow, Promise!None, None
  <2>8. n \in DOMAIN memory' /\ R \in SUBSET DOMAIN memory
    BY <2>2, <2>3
  <2> QED BY <1>1, <2>7, <2>8 DEF Promise!Next
<1>8. CASE t.call.op = "link"
  <2>1. DOMAIN t.rows = {}
    BY <1>1, <1>8 DEF RowsHeld, EmptyTable
  <2>2. DOMAIN memory' = DOMAIN memory /\ \A i \in DOMAIN memory : memory'[i] = memory[i]
    BY <1>4, <2>1
  <2>3. UNCHANGED <<memory, age>>
    BY <1>2, <1>4, <1>6, <2>2
  <2>4. Promise!Link(w)
    BY <1>3, <2>3 DEF Promise!Link
  <2> QED BY <1>1, <2>4 DEF Promise!Next
<1>9. CASE t.call.op = "restore"
  <2> DEFINE i == t.call.id
             row == Unhidden(t)
  <2>1. RestoreReads(memory, w, t) /\ t.rows = [k \in {i} |-> row]
    BY <1>1, <1>9 DEF RowsHeld
  <2>2. /\ i \in DOMAIN memory /\ InScope(memory[i], w) /\ t.read[i] = memory[i]
        /\ DOMAIN t.rows = {i} /\ t.rows[i] = row
    BY <2>1 DEF RestoreReads
  <2> HIDE DEF row
  <2>3. DOMAIN memory' = DOMAIN memory /\ memory' = [memory EXCEPT ![i] = row]
    BY <1>2, <1>4, <2>2
  <2>4. row = [memory[i] EXCEPT !.forgotten = FALSE, !.expired = memory[i].expired,
                 !.supersededBy = IF t.call.detach THEN None ELSE memory[i].supersededBy]
    <3>1. memory[i] \in Row
      BY <1>2, <2>2
    <3> QED BY <2>2, <3>1 DEF row, Unhidden, Row
  <2>5. \E x \in BOOLEAN, d \in {memory[i].supersededBy, Promise!None} :
          memory' = [memory EXCEPT ![i].forgotten = FALSE, ![i].expired = x,
                                   ![i].supersededBy = d]
    <3>1. memory[i].expired \in BOOLEAN
      BY <1>2, <2>2 DEF Row
    <3>2. (IF t.call.detach THEN None ELSE memory[i].supersededBy)
             \in {memory[i].supersededBy, Promise!None}
      BY DEF None, Promise!None
    <3>3. memory' = [memory EXCEPT
                       ![i].forgotten = FALSE, ![i].expired = memory[i].expired,
                       ![i].supersededBy =
                         IF t.call.detach THEN None ELSE memory[i].supersededBy]
      BY <2>2, <2>3, <2>4
    <3> QED BY <3>1, <3>2, <3>3
  <2>6. UNCHANGED <<edge, age>>
    <3>1. UNCHANGED edge
      <4>1. DOMAIN tx[s].edges = {}
        BY <1>1, <1>9 DEF EmptyTable, t
      <4>2. DOMAIN edge' = DOMAIN edge /\ \A e \in DOMAIN edge : edge'[e] = edge[e]
        BY <4>1, Committed
      <4>3. edge' = [e \in DOMAIN edge' |-> edge'[e]]
        BY Committed
      <4> QED BY <1>2, <4>2, <4>3
    <3> QED BY <1>6, <2>3, <3>1
  <2>7. Promise!Mark(w, i)
    BY <2>2, <2>5, <2>6 DEF Promise!Mark, Promise!InScope, InScope
  <2> QED BY <1>1, <2>2, <2>7 DEF Promise!Next
<1> QED BY <1>1, <1>7, <1>8, <1>9

\* Rolled back: by a crash, or as the victim of a deadlock.
LEMMA AbortStep ==
  ASSUME Inv, NEW s \in Session, End(s), UNCHANGED <<tables, sequences>>
  PROVE  Inv'
<1>1. UNCHANGED <<tables, nextEdge>> /\ nextId' \in Id /\ nextId <= nextId'
  BY DEF tables, sequences, Inv, Tables, Id
<1> QED BY <1>1, EndStep

-----------------------------------------------------------------------------
(* The whole.                                                              *)

LEMMA InitOK ==
  ASSUME Init
  PROVE  Inv /\ Promise!Init
<1>1. Tables
  BY DEF Init, Tables, EmptyTable, Id
<1>2. \A s \in Session :
        /\ TxHeld(memory, edge, ScopeOf[s], pc[s], tx[s])
        /\ IdsApart(tx[s], nextId, nextEdge) /\ KeysApart(tx[s], edge)
  BY IdleHeld DEF Init, IdsApart, KeysApart, NoTx, EmptyTable
<1>3. \A s, u \in Session : Apart(tx[s], tx[u])
  BY DEF Init, Apart, NoTx, EmptyTable
<1>4. DOMAIN pc = Session /\ DOMAIN tx = Session
  BY DEF Init
<1>5. Promise!Init
  BY DEF Init, Promise!Init, EmptyTable, Promise!EmptyTable, None, Promise!None
<1> QED BY <1>1, <1>2, <1>3, <1>4, <1>5 DEF Inv, Sessions

\* Every statement keeps the invariant and is, to the tables, a step of the
\* promise or none at all.
LEMMA StepOK ==
  ASSUME Inv, [Next]_vars
  PROVE  Inv' /\ [Promise!Next]_Promise!vars
<1>1. CASE UNCHANGED vars
  BY <1>1 DEF vars, tables, sequences, Inv, Tables, Sessions, Promise!vars
<1>2. ASSUME NEW s \in Session, NEW c \in Calls, Begin(s, c)
      PROVE  Inv' /\ UNCHANGED tables
  BY <1>2, BeginStep DEF Begin
<1>3. ASSUME NEW s \in Session, Insert(s) PROVE Inv' /\ UNCHANGED tables
  BY <1>3, InsertStep DEF Insert
<1>4. ASSUME NEW s \in Session, RetireScan(s) PROVE Inv' /\ UNCHANGED tables
  BY <1>4, ScanStep DEF RetireScan
<1>5. ASSUME NEW s \in Session, RetireDone(s) PROVE Inv' /\ UNCHANGED tables
  BY <1>5, RetireDoneStep DEF RetireDone
<1>6. ASSUME NEW s \in Session, NEW i \in tx[s].todo, RetireRow(s, i)
      PROVE  Inv' /\ UNCHANGED tables
  BY <1>6, RetireRowStep DEF RetireRow
<1>7. ASSUME NEW s \in Session, Resolve(s) PROVE Inv' /\ UNCHANGED tables
  BY <1>7, ResolveStep DEF Resolve
<1>8. ASSUME NEW s \in Session, PutEdge(s) PROVE Inv' /\ UNCHANGED tables
  BY <1>8, PutStep DEF PutEdge
<1>9. ASSUME NEW s \in Session, ReadExisting(s) PROVE Inv' /\ UNCHANGED tables
  BY <1>9, ReadExistingStep DEF ReadExisting
<1>10. ASSUME NEW s \in Session, Lock(s) PROVE Inv' /\ UNCHANGED tables
  BY <1>10, LockStep DEF Lock
<1>11. ASSUME NEW s \in Session, Unhide(s) PROVE Inv' /\ UNCHANGED tables
  BY <1>11, UnhideStep DEF Unhide
<1>12. ASSUME NEW s \in Session, Crash(s) \/ DeadlockAbort(s) PROVE Inv' /\ UNCHANGED tables
  BY <1>12, AbortStep DEF Crash, DeadlockAbort
<1>13. ASSUME NEW s \in Session, Forget(s) \/ ForgetEdge(s)
       PROVE  Inv' /\ [Promise!Next]_Promise!vars
  BY <1>13, ForgetStep, ForgetEdgeStep
<1>14. ASSUME NEW s \in Session, Commit(s) PROVE Inv' /\ Promise!Next
  BY <1>14, CommitInv, CommitPromise
<1>15. UNCHANGED tables => UNCHANGED Promise!vars
  BY DEF tables, Promise!vars
<1> QED
  BY <1>1, <1>2, <1>3, <1>4, <1>5, <1>6, <1>7, <1>8, <1>9, <1>10, <1>11, <1>12, <1>13, <1>14,
     <1>15 DEF Next, Step

\* However the statements of any number of sessions are interleaved, broken off
\* or aborted, what is committed is what the promise of the store allows.
THEOREM Refinement == Spec => Implements
<1>1. Init => Inv /\ Promise!Init
  BY InitOK
<1>2. Inv /\ [Next]_vars => Inv' /\ [Promise!Next]_Promise!vars
  BY StepOK
<1> QED BY <1>1, <1>2, PTL DEF Spec, Implements, Promise!Spec

LEMMA Invariant == Spec => []Inv
<1>1. Init => Inv
  BY InitOK
<1>2. Inv /\ [Next]_vars => Inv'
  BY StepOK
<1> QED BY <1>1, <1>2, PTL DEF Spec

\* No save links its memory to one it retires.
THEOREM LinksSpareTheRetired == Spec => []NoLinkToTheRetired
<1>1. Inv => NoLinkToTheRetired
  BY DEF Inv, Sessions, TxHeld, EdgesHeld, NoLinkToTheRetired
<1> QED BY <1>1, Invariant, PTL

\* A link is dropped for want of an edge to report only after a forget.
THEOREM LinksFailByForgetsOnly == Spec => []OnlyAForgetFailsALink
<1>1. ASSUME Inv PROVE OnlyAForgetFailsALink
  <2> SUFFICES ASSUME NEW s \in Session, pc[s] = "found", ~HasKey(Edges(s), Sought(s))
               PROVE  \E e \in DOMAIN edge : edge[e].forgotten /\ KeyOf(edge[e]) = Sought(s)
    BY DEF OnlyAForgetFailsALink
  <2>1. PICK e \in DOMAIN Edges(s) : KeyOf(Edges(s)[e]) = Sought(s)
    BY <1>1, Mine DEF FoundHeld, Edges, Sought, LinkKey
  <2>2. e \notin LiveEdges(Edges(s))
    BY <2>1 DEF HasKey
  <2>3. Edges(s)[e].forgotten
    BY <2>1, <2>2 DEF LiveEdges
  <2>4. e \notin DOMAIN tx[s].edges
    <3>1. ASSUME e \in DOMAIN tx[s].edges PROVE FALSE
      <4>1. ~tx[s].edges[e].forgotten
        BY <1>1, <3>1, Mine DEF EdgesHeld, Promise!Proper
      <4>2. Edges(s)[e] = tx[s].edges[e]
        BY <3>1 DEF Edges, Over
      <4> QED BY <2>3, <4>1, <4>2
    <3> QED BY <3>1
  <2>5. e \in DOMAIN edge /\ Edges(s)[e] = edge[e]
    BY <2>1, <2>4 DEF Edges, Over
  <2> QED BY <2>1, <2>3, <2>5
<1> QED BY <1>1, Invariant, PTL

\* When a session commits its call it is the session that takes the step.
LEMMA WhoCommits ==
  ASSUME Inv, Next, NEW s \in Session, pc'[s] # pc[s]
  PROVE  \/ UNCHANGED tables
         \/ Forget(s) \/ ForgetEdge(s) \/ Commit(s)
<1>1. PICK u \in Session : \/ \E c \in Calls : Begin(u, c)
                           \/ Step(u) \/ Crash(u) \/ DeadlockAbort(u)
  BY DEF Next
<1>2. \/ UNCHANGED tables
      \/ Forget(u) \/ ForgetEdge(u) \/ Commit(u)
  BY <1>1 DEF Begin, Step, Crash, DeadlockAbort, Insert, RetireScan, RetireDone, RetireRow,
              Resolve, PutEdge, ReadExisting, Lock, Unhide
<1>3. ASSUME Forget(u) \/ ForgetEdge(u) \/ Commit(u)
      PROVE  u = s
  <2>1. pc' = [pc EXCEPT ![u] = "idle"]
    BY <1>3 DEF Forget, ForgetEdge, Commit, End, Goto
  <2>2. DOMAIN pc = Session
    BY DEF Inv, Sessions
  <2> QED BY <2>1, <2>2
<1> QED BY <1>2, <1>3

\* The report of a save is true: its memory appears with the edges it created, and
\* what it reports as retired was retired by nobody before it.
THEOREM SavesReportTrue == Spec => SaveReportTrue
<1>1. ASSUME Inv, Next, NEW s \in Session, Commits(s), tx[s].call.op = "save"
      PROVE  /\ tx[s].id \in DOMAIN memory' \ DOMAIN memory
             /\ \A e \in DOMAIN tx[s].edges : e \in DOMAIN edge' /\ edge'[e] = tx[s].edges[e]
             /\ \A i \in tx[s].retired :
                  memory[i].supersededBy = None /\ memory'[i].supersededBy = tx[s].id
  <2>1. pc[s] = "commit" /\ memory' = Over(tx[s].rows, memory) /\ pc'[s] # pc[s]
    BY <1>1 DEF Commits, Rows
  <2>2. SaveHolds(memory, ScopeOf[s], tx[s])
    BY <1>1, <2>1, Mine DEF RowsHeld
  <2>3. tx[s].id \in DOMAIN memory' \ DOMAIN memory
    BY <2>1, <2>2 DEF SaveHolds, Over
  <2>4. Commit(s)
    BY <1>1, <2>1, <2>3, WhoCommits DEF Forget, ForgetEdge, tables
  <2>5. ASSUME NEW e \in DOMAIN tx[s].edges
        PROVE  e \in DOMAIN edge' /\ edge'[e] = tx[s].edges[e]
    BY <2>4 DEF Commit, Edges, Over
  <2>6. ASSUME NEW i \in tx[s].retired
        PROVE  memory[i].supersededBy = None /\ memory'[i].supersededBy = tx[s].id
    <3>1. /\ i \in DOMAIN memory /\ memory[i].supersededBy = None /\ i # tx[s].id
          /\ i \in DOMAIN tx[s].rows
          /\ tx[s].rows[i] = [memory[i] EXCEPT !.supersededBy = tx[s].id]
      BY <2>2 DEF SaveHolds, Retirable
    <3>2. memory[i] \in Row
      BY <1>1, <3>1 DEF Inv, Tables
    <3>3. memory'[i] = tx[s].rows[i]
      BY <2>1, <3>1 DEF Over
    <3> QED BY <3>1, <3>2, <3>3 DEF Row
  <2> QED BY <2>3, <2>5, <2>6
<1>2. Inv /\ [Next]_vars => [\A s \in Session : Commits(s) /\ tx[s].call.op = "save" =>
       /\ tx[s].id \in DOMAIN memory' \ DOMAIN memory
       /\ \A e \in DOMAIN tx[s].edges : e \in DOMAIN edge' /\ edge'[e] = tx[s].edges[e]
       /\ \A i \in tx[s].retired :
            memory[i].supersededBy = None /\ memory'[i].supersededBy = tx[s].id]_vars
  BY <1>1
<1> QED BY <1>2, Invariant, PTL DEF Spec, SaveReportTrue

\* A restore says that the memory is still hidden exactly when it is.
THEOREM RestoresReportTrue == Spec => RestoreReportTrue
<1>1. ASSUME Inv, NEW s \in Session, Commits(s), tx[s].call.op = "restore"
      PROVE  LET c == tx[s].call
                 stillHidden == ~c.detach /\ tx[s].read[c.id].supersededBy # None
             IN stillHidden <=> ~Live(memory'[c.id])
  <2> DEFINE t == tx[s]
             i == t.call.id
  <2>1. pc[s] = "commit" /\ memory' = Over(t.rows, memory)
    BY <1>1 DEF Commits, Rows
  <2>2. RestoreReads(memory, ScopeOf[s], t) /\ t.rows = [k \in {i} |-> Unhidden(t)]
    BY <1>1, <2>1, Mine DEF RowsHeld
  <2>3. i \in DOMAIN memory /\ t.read[i] = memory[i]
    BY <2>2 DEF RestoreReads
  <2>4. memory[i] \in Row /\ ~memory[i].expired
    BY <1>1, <2>3 DEF Inv, Tables
  <2>5. memory'[i] = [memory[i] EXCEPT
          !.forgotten = FALSE,
          !.supersededBy = IF t.call.detach THEN None ELSE memory[i].supersededBy]
    BY <2>1, <2>2, <2>3 DEF Over, Unhidden
  <2> HIDE DEF i
  <2>6. /\ ~memory'[i].forgotten /\ ~memory'[i].expired
        /\ memory'[i].supersededBy = IF t.call.detach THEN None ELSE memory[i].supersededBy
    BY <2>4, <2>5 DEF Row
  <2> QED BY <2>3, <2>6 DEF Live, Visible, i
<1>2. Inv /\ [Next]_vars =>
        [\A s \in Session : Commits(s) /\ tx[s].call.op = "restore" =>
           LET c == tx[s].call
               stillHidden == ~c.detach /\ tx[s].read[c.id].supersededBy # None
           IN stillHidden <=> ~Live(memory'[c.id])]_vars
  <2> SUFFICES ASSUME Inv, NEW s \in Session, Commits(s), tx[s].call.op = "restore"
               PROVE  LET c == tx[s].call
                          stillHidden == ~c.detach /\ tx[s].read[c.id].supersededBy # None
                      IN stillHidden <=> ~Live(memory'[c.id])
    OBVIOUS
  <2> QED BY <1>1
<1> QED BY <1>2, Invariant, PTL DEF Spec, RestoreReportTrue

\* No statement of a session changes a memory outside its project, or an edge
\* with no end there.
THEOREM ScopedWrites == Spec => WritesStayInScope
<1> DEFINE Rowwise(s) ==
             \A i \in DOMAIN memory' :
               (i \in DOMAIN memory => memory'[i] # memory[i]) => InScope(memory'[i], ScopeOf[s])
           Edgewise(s) ==
             \A e \in DOMAIN edge' :
               (e \in DOMAIN edge => edge'[e] # edge[e]) =>
                 /\ edge'[e].client = ScopeOf[s].client
                 /\ TouchesNs(memory', edge'[e], ScopeOf[s])
<1>1. ASSUME Inv, Next, NEW s \in Session, pc'[s] # pc[s]
      PROVE  Rowwise(s) /\ Edgewise(s)
  <2>1. CASE UNCHANGED tables
    BY <2>1 DEF tables
  <2>2. CASE Forget(s)
    <3>1. \A i \in DOMAIN memory : memory[i] \in Row
      BY <1>1 DEF Inv, Tables
    <3>2. UNCHANGED edge
      BY <2>2 DEF Forget
    <3>3. Rowwise(s)
      BY <2>2, <3>1 DEF Forget, Forgettable, InScope, Row
    <3> QED BY <3>2, <3>3
  <2>3. CASE ForgetEdge(s)
    <3>1. \A e \in DOMAIN edge : edge[e] \in Edge
      BY <1>1 DEF Inv, Tables
    <3>2. UNCHANGED memory
      BY <2>3 DEF ForgetEdge
    <3>3. Edgewise(s)
      BY <2>3, <3>1, <3>2 DEF ForgetEdge, EdgeForgettable, TouchesNs, Edge
    <3> QED BY <3>2, <3>3
  <2>4. CASE Commit(s)
    <3>1. pc[s] = "commit"
      BY <2>4 DEF Commit
    <3>2. \A i \in DOMAIN tx[s].rows : InScope(tx[s].rows[i], ScopeOf[s])
      BY <1>1, <3>1, WritesOwn
    <3>3. Rowwise(s)
      BY <1>1, <2>4, <3>2, Committed
    <3>4. ASSUME NEW e \in DOMAIN tx[s].edges
          PROVE  /\ tx[s].edges[e].client = ScopeOf[s].client
                 /\ TouchesNs(memory', tx[s].edges[e], ScopeOf[s])
      <4>1. Promise!Proper(Over(tx[s].rows, memory), ScopeOf[s], tx[s].edges[e])
        BY <1>1, Mine DEF EdgesHeld
      <4>2. memory' = Over(tx[s].rows, memory)
        BY <2>4 DEF Commit, Rows
      <4> QED BY <4>1, <4>2 DEF Promise!Proper, Promise!TouchesNs, TouchesNs
    <3>5. Edgewise(s)
      <4>1. /\ DOMAIN edge' = DOMAIN tx[s].edges \cup DOMAIN edge
            /\ \A e \in DOMAIN tx[s].edges : edge'[e] = tx[s].edges[e]
            /\ \A e \in DOMAIN edge : edge'[e] = edge[e]
        BY <1>1, <2>4, Committed
      <4> QED BY <3>4, <4>1
    <3> QED BY <3>3, <3>5
  <2> QED BY <1>1, <2>1, <2>2, <2>3, <2>4, WhoCommits
<1>2. Inv /\ [Next]_vars =>
        [\A s \in Session : pc'[s] # pc[s] =>
           /\ \A i \in DOMAIN memory' :
                (i \in DOMAIN memory => memory'[i] # memory[i]) => InScope(memory'[i], ScopeOf[s])
           /\ \A e \in DOMAIN edge' :
                (e \in DOMAIN edge => edge'[e] # edge[e]) =>
                  /\ edge'[e].client = ScopeOf[s].client
                  /\ TouchesNs(memory', edge'[e], ScopeOf[s])]_vars
  BY <1>1
<1> QED BY <1>2, Invariant, PTL DEF Spec, WritesStayInScope

-----------------------------------------------------------------------------
(* What StorePromiseProofs proves of the promise holds of its refinement.  *)

Proved == INSTANCE StorePromiseProofs

\* The promise, reached through either instance, is the same.
LEMMA SamePromise ==
  /\ Promise!Init => Proved!Init
  /\ [Promise!Next]_Promise!vars => [Proved!Next]_Proved!vars
<1>1. Promise!Init => Proved!Init
  BY DEF Promise!Init, Proved!Init, Promise!EmptyTable, Proved!EmptyTable, Promise!None,
         Proved!None
<1>2. [Promise!Next]_Promise!vars => [Proved!Next]_Proved!vars
  BY DEF Promise!Next, Proved!Next, Promise!vars, Proved!vars, Promise!Save, Proved!Save,
         Promise!Link, Proved!Link, Promise!Mark, Proved!Mark,
         Promise!ForgetEdge, Proved!ForgetEdge, Promise!AddEdges, Proved!AddEdges,
         Promise!Proper, Proved!Proper, Promise!Scope, Proved!Scope, Promise!Id, Proved!Id,
         Promise!Retirable, Proved!Retirable, Promise!InScope, Proved!InScope,
         Promise!NewRow, Proved!NewRow, Promise!None, Proved!None, Promise!Edge, Proved!Edge,
         Promise!KeyOf, Proved!KeyOf, Promise!LiveEdges, Proved!LiveEdges,
         Promise!RowsOf, Proved!RowsOf, Promise!TouchesNs, Proved!TouchesNs
<1> QED BY <1>1, <1>2

\* However the calls are interleaved, no chain runs in a circle or leaves its
\* project, every edge joins two different rows of its client, and no two live
\* edges say the same.
THEOREM SafeTables ==
  Spec => [](/\ Proved!ChainsClimb /\ Proved!ChainsStayHome
             /\ Proved!EdgesWellFormed /\ Proved!OneLiveEdgePerFact)
<1>1. Spec => Proved!Spec
  BY Refinement, SamePromise, PTL DEF Implements, Promise!Spec, Proved!Spec
<1> QED BY <1>1, SchemaAssumption, Proved!Chains, Proved!EdgesCorrect, Proved!EdgesUnique, PTL
=============================================================================
