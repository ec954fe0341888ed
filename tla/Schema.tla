------------------------------- MODULE Schema -------------------------------
(***************************************************************************)
(* The tables memory and memory_edge as values, and the predicates that    *)
(* the queries of db.rs apply to them.  Every module about the store uses  *)
(* these operators, so that one reading of a WHERE clause serves them all. *)
(*                                                                         *)
(* A table is a function from the ids present to rows.  Titles, bodies,    *)
(* tags, timestamps and access counters are left out: nothing here reads   *)
(* them.  NULL in an id column is None.                                    *)
(***************************************************************************)
EXTENDS Integers

CONSTANTS
  Client,        \* the client ids that share the database
  Namespace,     \* the project namespaces of a client
  Rel,           \* the relation types an edge may carry
  SymmetricRel,  \* those among them that have no direction
  MaxChain       \* longest supersede chain followed (64 in the code)

ASSUME SchemaAssumption ==
  /\ SymmetricRel \subseteq Rel
  /\ MaxChain \in Nat \ {0}

None == 0
Id == Nat \ {0}

\* Who makes a call: the client and namespace a process was started for.
Scope == [client : Client, ns : Namespace]

Row == [client : Client, ns : Namespace, supersededBy : Nat,
        forgotten : BOOLEAN, expired : BOOLEAN]

Edge == [client : Client, src : Id, dst : Id, rel : Rel, forgotten : BOOLEAN]

EmptyTable == [i \in {} |-> None]

-----------------------------------------------------------------------------
(* Rows.                                                                   *)

InScope(r, w) == r.client = w.client /\ r.ns = w.ns

Visible(r) == ~r.forgotten /\ ~r.expired

\* The memory_live view.
Live(r) == Visible(r) /\ r.supersededBy = None

\* Rows a query scoped to client c can see.
RowsOf(mem, c) == {i \in DOMAIN mem : mem[i].client = c}

NewRow(w) == [client |-> w.client, ns |-> w.ns, supersededBy |-> None,
              forgotten |-> FALSE, expired |-> FALSE]

\* Variants of Retirable: of any project, the new row itself, a row already
\* retired.
RetirableAnywhere(mem, w, i, n) == i \in DOMAIN mem /\ mem[i].supersededBy = None /\ i # n
RetirableEvenSelf(mem, w, i, n) ==
  i \in DOMAIN mem /\ InScope(mem[i], w) /\ mem[i].supersededBy = None
RetirableAgain(mem, w, i, n) == i \in DOMAIN mem /\ InScope(mem[i], w) /\ i # n

\* The WHERE clause of the UPDATE by which the new memory n retires a row.
Retirable(mem, w, i, n) ==
  /\ i \in DOMAIN mem
  /\ InScope(mem[i], w)
  /\ mem[i].supersededBy = None
  /\ i # n

-----------------------------------------------------------------------------
(* Supersede chains.                                                       *)

\* Variant: chains are not followed.
NextStaysPut(mem, c, i) == i

\* The row of client c that follows i in its chain; i itself at the end.
NextInChain(mem, c, i) ==
  IF i \in DOMAIN mem /\ mem[i].client = c /\ mem[i].supersededBy # None
  THEN mem[i].supersededBy
  ELSE i

\* Variant: one row fewer.
ChainEndShort(mem, c, i) ==
  LET cur[n \in 0..(MaxChain - 2)] ==
        IF n = 0 THEN i ELSE NextInChain(mem, c, cur[n-1])
  IN cur[MaxChain - 2]

\* The last row inspected when a chain is followed from i, MaxChain rows being
\* read at most.
ChainEnd(mem, c, i) ==
  LET cur[n \in 0..(MaxChain - 1)] ==
        IF n = 0 THEN i ELSE NextInChain(mem, c, cur[n-1])
  IN cur[MaxChain - 1]

\* i resolves to a live head: the end of its chain, when that is live.
ResolvesLive(mem, c, i) ==
  LET h == ChainEnd(mem, c, i) IN h \in DOMAIN mem /\ mem[h].client = c /\ Live(mem[h])

-----------------------------------------------------------------------------
(* Edges.                                                                  *)

\* Variant: the ends as given.
StoredAsGiven(src, rel, dst) == [src |-> src, rel |-> rel, dst |-> dst]

\* Rel::stored_order: a symmetric edge is stored smaller id first.
StoredKey(src, rel, dst) ==
  IF rel \in SymmetricRel /\ src > dst
  THEN [src |-> dst, rel |-> rel, dst |-> src]
  ELSE [src |-> src, rel |-> rel, dst |-> dst]

KeyOf(e) == [src |-> e.src, rel |-> e.rel, dst |-> e.dst]

LiveEdges(edges) == {e \in DOMAIN edges : ~edges[e].forgotten}

NewEdge(c, k) == [client |-> c, src |-> k.src, dst |-> k.dst, rel |-> k.rel,
                  forgotten |-> FALSE]

\* Variant: an edge from a memory to itself.
MayLinkSelf(mem, w, s, d) == mem[s].ns = w.ns \/ mem[d].ns = w.ns

\* The write rules on two resolved ends s and d.
MayLink(mem, w, s, d) == s # d /\ (mem[s].ns = w.ns \/ mem[d].ns = w.ns)

\* The EXISTS clause of the edge queries: an end in this namespace.
TouchesNs(mem, e, w) == \E i \in {e.src, e.dst} \cap DOMAIN mem : mem[i].ns = w.ns
=============================================================================
