----------------------------- MODULE MCStoreTx -----------------------------
(***************************************************************************)
(* StoreTx on small instances.  Each family of calls is chosen for the     *)
(* races it allows.                                                        *)
(***************************************************************************)
EXTENDS StoreTx

CONSTANTS c1, n1, n2, s1, s2

\* All sessions serve one project, as several windows on it do.
SameProject == [s \in Session |-> [client |-> c1, ns |-> n1]]

\* s2 serves another project of the same client.
TwoProjects == [s \in Session |-> [client |-> c1, ns |-> IF s = s2 THEN n2 ELSE n1]]

SaveOf(S, L) == [NoCall EXCEPT !.op = "save", !.ask = S, !.links = L]
LinkOf(i, r, j) == [NoCall EXCEPT !.links = <<[src |-> i, rel |-> r, dst |-> j]>>]
On(op, i) == [NoCall EXCEPT !.op = op, !.id = i]
To(j, r) == [src |-> None, rel |-> r, dst |-> j]

\* Saves that retire the same rows in either order, among them one not committed
\* yet; a detach of one of them; calls that want the same edge.
RetireCalls ==
  {SaveOf({}, <<>>), SaveOf({1, 2}, <<To(1, "relates_to")>>), SaveOf({2, 3}, <<>>),
   [On("restore", 1) EXCEPT !.detach = TRUE], LinkOf(1, "relates_to", 2)}

\* Links of the same rows in both directions, saves that retire an end while it
\* is resolved or link to it, and calls that hide an end, show it, or forget the
\* edge.
LinkCalls ==
  {SaveOf({}, <<>>),
   SaveOf({1}, <<To(2, "relates_to")>>),
   SaveOf({1}, <<To(1, "depends_on"), To(2, "relates_to")>>),
   LinkOf(1, "relates_to", 2), LinkOf(2, "relates_to", 1), LinkOf(1, "depends_on", 3),
   On("forget", 1), On("restore", 1),
   On("forgetEdge", 1)}
=============================================================================
