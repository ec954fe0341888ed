------------------------------- MODULE Overlap -------------------------------
(***************************************************************************)
(* The two reports on memories that are close to each other: --consolidate *)
(* groups those that may be merged (consolidate.rs), --edges suggests to   *)
(* link those that are a little further apart (edges.rs, suggest).  Both   *)
(* read pairs by distance (db.rs, near_pairs) and, in a later statement,   *)
(* the rows to list (briefs); --edges has loaded the graph before.         *)
(*                                                                         *)
(* Memories stand for the live ones of the project when the pairs are      *)
(* read.  A distance is the closest of any chunk of one to any of the      *)
(* other.  The pairs come in the order of a real number, so in any order   *)
(* here, and a HashMap gives its keys in any order.                        *)
(***************************************************************************)
EXTENDS Integers, FiniteSets, FiniteSetsExt

CONSTANTS
  Memory,     \* ids, counted from 1
  MergeBand,  \* consolidate::DEFAULT_THRESHOLD, and MERGE_BAND of edges.rs
  Distances,  \* bound: the distances considered, of each pair
  Cutoffs,    \* bound: values of --threshold for the two reports
  Limit,      \* bound: clusters shown
  Summaries,  \* bound: the sets of memories that are session summaries
  MayHide,    \* bound: memories that may be retired or forgotten meanwhile
  MayLink     \* bound: pairs that may be linked meanwhile

Pair == {p \in Memory \X Memory : p[1] < p[2]}

ASSUME OverlapAssumption ==
  /\ Memory \subseteq Nat \ {0} /\ IsFiniteSet(Memory)
  /\ MergeBand \in Int /\ Distances \subseteq [Pair -> Int] /\ Cutoffs \subseteq Int \X Int
  /\ Limit \in Nat \ {0}
  /\ Summaries \subseteq SUBSET Memory /\ MayHide \subseteq Memory /\ MayLink \subseteq Pair

VARIABLES
  dist,     \* the distance of each pair
  summary,  \* memories of kind session-summary
  tight,    \* --threshold of --consolidate
  wide,     \* --threshold of --edges
  live,     \* memories still live
  linked,   \* pairs with an edge
  pc,
  pairs,    \* --consolidate: the pairs it read
  todo,     \* those not looked at
  pair,     \* the one being looked at
  parent,   \* the union-find
  find,     \* the call of find under way: its argument, root and cur
  root,     \* what it returned for the first of the pair
  member,   \* ids not grouped yet
  group,    \* root -> ids
  printed,  \* clusters printed: the ids to supersede, and those listed
  graph,    \* --edges: the pairs its graph links
  near,     \* the pairs it read
  suggested

vars == <<dist, summary, tight, wide, live, linked, pc, pairs, todo, pair, parent, find,
          root, member, group, printed, graph, near, suggested>>
corpus == <<dist, summary, tight, wide>>
store == <<live, linked>>
unionFind == <<pairs, todo, pair, parent, find, root, member, group>>
edges == <<graph, near, suggested>>

NoPair == <<0, 0>>
NoFind == [x |-> 0, root |-> 0, cur |-> 0]

\* near_pairs.
Within(t) == {p \in Pair : dist[p] <= t /\ p[1] \in live /\ p[2] \in live}

Init ==
  /\ dist \in Distances /\ summary \in Summaries
  /\ \E c \in Cutoffs : tight = c[1] /\ wide = c[2]
  /\ live = Memory /\ linked = {}
  /\ pc = "pairs"
  /\ pairs = {} /\ todo = {} /\ pair = NoPair /\ parent = [i \in {} |-> 0] /\ find = NoFind /\ root = 0
  /\ member = {} /\ group = [i \in {} |-> {}]
  /\ printed = {} /\ graph = {} /\ near = {} /\ suggested = {}

-----------------------------------------------------------------------------
(* Other processes.  What they do while a report computes is as good as    *)
(* done when it next waits for a statement.                                *)

Waiting == pc \in {"print", "graph", "near", "suggest"}

Hide(i) ==
  /\ Waiting /\ i \in MayHide \cap live
  /\ live' = live \ {i}
  /\ UNCHANGED <<corpus, linked, pc, unionFind, printed, edges>>

Link(p) ==
  /\ Waiting /\ p \in MayLink \ linked
  /\ linked' = linked \cup {p}
  /\ UNCHANGED <<corpus, live, pc, unionFind, printed, edges>>

-----------------------------------------------------------------------------
(* --consolidate: clusters.                                                *)

ReadPairs ==
  /\ pc = "pairs"
  /\ pairs' = Within(tight) /\ todo' = pairs'
  /\ pc' = IF todo' = {} THEN "graph" ELSE "next"
  /\ UNCHANGED <<corpus, store, pair, parent, find, root, member, group, printed, edges>>

Calling(x) == [x |-> x, root |-> x, cur |-> x]

Entered(p) == [i \in DOMAIN parent \cup {p[1], p[2]} |-> IF i \in DOMAIN parent THEN parent[i] ELSE i]

TakePair(p) ==
  /\ pc = "next" /\ p \in todo
  /\ todo' = todo \ {p} /\ pair' = p
  /\ parent' = Entered(p)
  /\ find' = Calling(p[1])
  /\ pc' = "climb"
  /\ UNCHANGED <<corpus, store, pairs, root, member, group, printed, edges>>

\* The first loop of find.
Climb ==
  /\ pc = "climb"
  /\ LET p == parent[find.root]
     IN IF p = find.root
        THEN pc' = "compress" /\ UNCHANGED find
        ELSE find' = [find EXCEPT !.root = p] /\ UNCHANGED pc
  /\ UNCHANGED <<corpus, store, pairs, todo, pair, parent, root, member, group, printed, edges>>

\* Variant: the arguments of insert swapped.
CompressedBackwards(f) == [parent EXCEPT ![f.root] = f.cur]

Compressed(f) == [parent EXCEPT ![f.cur] = f.root]

\* The second loop.
Compress ==
  /\ pc = "compress" /\ parent[find.cur] # find.root
  /\ parent' = Compressed(find)
  /\ find' = [find EXCEPT !.cur = parent[find.cur]]
  /\ UNCHANGED <<corpus, store, pc, pairs, todo, pair, root, member, group, printed, edges>>

Returns == pc = "compress" /\ parent[find.cur] = find.root

FirstFound ==
  /\ Returns /\ pair # NoPair /\ root = 0
  /\ root' = find.root
  /\ find' = Calling(pair[2])
  /\ pc' = "climb"
  /\ UNCHANGED <<corpus, store, pairs, todo, pair, parent, member, group, printed, edges>>

\* Variant: the memories of the pair are united, not their roots.
UnitedAsPaired(a, b) == [parent EXCEPT ![pair[2]] = pair[1]]

\* Two roots become one, the smaller.
United(a, b) == IF a < b THEN [parent EXCEPT ![b] = a] ELSE [parent EXCEPT ![a] = b]

Unite ==
  /\ Returns /\ pair # NoPair /\ root # 0
  /\ parent' = IF root = find.root THEN parent ELSE United(root, find.root)
  /\ pair' = NoPair /\ find' = NoFind /\ root' = 0
  /\ pc' = "next"
  /\ UNCHANGED <<corpus, store, pairs, todo, member, group, printed, edges>>

PairsDone ==
  /\ pc = "next" /\ todo = {}
  /\ member' = DOMAIN parent
  /\ pc' = "member"
  /\ UNCHANGED <<corpus, store, pairs, todo, pair, parent, find, root, group, printed, edges>>

TakeMember(i) ==
  /\ pc = "member" /\ i \in member
  /\ member' = member \ {i}
  /\ find' = Calling(i)
  /\ pc' = "climb"
  /\ UNCHANGED <<corpus, store, pairs, todo, pair, parent, root, group, printed, edges>>

MemberFound ==
  /\ Returns /\ pair = NoPair
  /\ group' = [r \in DOMAIN group \cup {find.root} |->
                 (IF r \in DOMAIN group THEN group[r] ELSE {})
                   \cup (IF r = find.root THEN {find.x} ELSE {})]
  /\ find' = NoFind
  /\ pc' = "member"
  /\ UNCHANGED <<corpus, store, pairs, todo, pair, parent, root, member, printed, edges>>

Grouped ==
  /\ pc = "member" /\ member = {}
  /\ pc' = "print"
  /\ UNCHANGED <<corpus, store, unionFind, printed, edges>>

-----------------------------------------------------------------------------
(* --consolidate: the report, in order of the smallest id of a cluster.    *)

Groups == {group[r] : r \in DOMAIN group}
Unprinted == Groups \ {c.ids : c \in printed}
Shown == IF Cardinality(Groups) < Limit THEN Cardinality(Groups) ELSE Limit

\* Variant: session summaries are left out, as --edges does.
BriefsOfNotes(S) == (S \cap live) \ summary

Briefs(S) == S \cap live

\* Pairs are told apart by the cluster of their smaller id.
Inside(g) == {p \in pairs : p[1] \in g}

\* The rows of one cluster are read, and the call that merges it is printed.
Report ==
  /\ pc = "print" /\ Cardinality(printed) < Shown
  /\ LET g == CHOOSE g \in Unprinted : \A h \in Unprinted : Min(g) <= Min(h)
     IN printed' = printed \cup {[ids |-> g, listed |-> Briefs(g),
                                  closest |-> Min({dist[p] : p \in Inside(g)})]}
  /\ UNCHANGED <<corpus, store, pc, unionFind, edges>>

Reported ==
  /\ pc = "print" /\ Cardinality(printed) = Shown
  /\ pc' = "graph"
  /\ UNCHANGED <<corpus, store, unionFind, printed, edges>>

-----------------------------------------------------------------------------
(* --edges: suggest.                                                       *)

LoadGraph ==
  /\ pc = "graph"
  /\ graph' = linked
  /\ pc' = IF wide <= MergeBand THEN "done" ELSE "near"
  /\ UNCHANGED <<corpus, store, unionFind, printed, near, suggested>>

ReadNear ==
  /\ pc = "near"
  /\ near' = Within(wide)
  /\ pc' = "suggest"
  /\ UNCHANGED <<corpus, store, unionFind, printed, graph, suggested>>

\* Variant: the band of the other report starts a step too early.
BeyondBandToo(p) == dist[p] >= MergeBand

BeyondBand(p) == dist[p] > MergeBand

\* Every candidate left counts as suggested; the report prints the first ten.
Suggest ==
  /\ pc = "suggest"
  /\ LET notes == Briefs(Memory) \ summary
     IN suggested' = {p \in near : BeyondBand(p) /\ {p[1], p[2]} \subseteq notes /\ p \notin graph}
  /\ pc' = "done"
  /\ UNCHANGED <<corpus, store, unionFind, printed, graph, near>>

Step ==
  \/ ReadPairs \/ (\E p \in todo : TakePair(p)) \/ Climb \/ Compress \/ FirstFound \/ Unite
  \/ PairsDone \/ (\E i \in member : TakeMember(i)) \/ MemberFound \/ Grouped
  \/ Report \/ Reported \/ LoadGraph \/ ReadNear \/ Suggest

Next == Step \/ (\E i \in MayHide : Hide(i)) \/ (\E p \in MayLink : Link(p))

\* The functions run on and the queries are answered.
Spec == Init /\ [][Next]_vars /\ WF_vars(Step)

-----------------------------------------------------------------------------
(* Correctness.                                                            *)

\* Reference: the memories reached from i by pairs in S.
Component(S, i) ==
  LET ball[n \in 0..Cardinality(Memory)] ==
        IF n = 0 THEN {i}
        ELSE ball[n-1] \cup {j \in Memory : \E k \in ball[n-1] : {<<j, k>>, <<k, j>>} \cap S # {}}
  IN ball[Cardinality(Memory)]

\* "If A overlaps B and B overlaps C, all three are one merge decision"
\* (clusters): the clusters printed are the components of the pairs read, so
\* two runs on one corpus print the same; each with the distance of its closest
\* pair.
ClustersAreComponents ==
  /\ pc = "print" =>
       Groups = {Component(pairs, i) : i \in UNION {{p[1], p[2]} : p \in pairs}}
  /\ \A c \in printed :
       /\ \E p \in pairs : {p[1], p[2]} \subseteq c.ids /\ dist[p] = c.closest
       /\ \A p \in pairs : {p[1], p[2]} \subseteq c.ids => dist[p] >= c.closest

\* An id in the call that merges a cluster is listed above it, unless that
\* memory was hidden after the pairs were read (run).
ListedOrHidden == \A c \in printed : c.ids \ c.listed \subseteq Memory \ live

\* "Pairs closer than this are merge candidates; --consolidate owns them"
\* (edges.rs, MERGE_BAND): with --consolidate at its default, and nothing hidden
\* or linked meanwhile, each pair of notes within the reach of --edges is the
\* ground of a cluster, or linked, or suggested, and only one of these if it is
\* suggested.
EveryPairHasOneReport ==
  pc = "done" /\ tight = MergeBand /\ wide > MergeBand /\ live = Memory =>
    \A p \in Pair : dist[p] <= wide /\ {p[1], p[2]} \cap summary = {} =>
      /\ p \in pairs \/ p \in suggested \/ p \in linked
      /\ p \in suggested => p \notin pairs \cup graph

\* The reports end: find comes to a root, and no pair or memory is looked at
\* twice.
ReportsEnd == <>(pc = "done")
=============================================================================
