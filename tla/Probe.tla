-------------------------------- MODULE Probe --------------------------------
(***************************************************************************)
(* The guard in front of rmcp that answers a refused server/discover probe *)
(* (probe.rs), with rmcp as the module comment describes it: its first     *)
(* message decides, for good, whether every request must carry _meta.      *)
(*                                                                         *)
(* A client has a plan of messages.  An eager one writes them all, one     *)
(* that is not waits for the answer to each request.  A request that names *)
(* a version does so in its _meta.  rmcp asks for the next message when it *)
(* has dealt with the last.                                                *)
(***************************************************************************)
EXTENDS Naturals, Sequences, SequencesExt

CONSTANTS
  Supported, Unsupported, NoVersion, MaxId,
  Plans   \* bound: what clients want to say

VARIABLES
  plan,         \* what the client has yet to say
  eager,
  asked,        \* ids of the requests it has written
  wire,         \* written by the client, not read
  initialized,  \* the guard's
  up,           \* the message receive has returned to rmcp, if any
  first,        \* rmcp has seen no message yet
  latch,        \* rmcp wants _meta in every request
  begun,        \* rmcp has answered initialize
  replies,      \* written to the client
  gone,         \* the client went away
  closed        \* receive returned None: the session is over

vars == <<plan, eager, asked, wire, initialized, up, first, latch, begun, replies, gone, closed>>
client == <<plan, eager, asked>>
rmcp == <<first, latch, begun>>

Inbox == up \o wire

Promise == INSTANCE McpSession WITH sent <- Inbox

\* The openings the guard is made for: probes for versions not supported and
\* then initialize; or a client that names a version in each of its requests.
Opening(p) ==
  \/ \E k \in DOMAIN p :
       /\ p[k].kind = "initialize"
       /\ \A j \in 1..(k - 1) : p[j].kind = "discover" /\ p[j].version \in Unsupported
  \/ \A k \in DOMAIN p : p[k].kind = "tools" => p[k].version # NoVersion

ASSUME ProbeAssumption ==
  /\ Supported \cap Unsupported = {} /\ NoVersion \notin Supported \cup Unsupported
  /\ MaxId \in Nat
  /\ Plans \subseteq Seq(Promise!Message) /\ \A p \in Plans : Opening(p)

Init ==
  /\ plan \in Plans /\ eager \in BOOLEAN
  /\ asked = {}
  /\ wire = <<>> /\ up = <<>>
  /\ initialized = FALSE
  /\ first = TRUE /\ latch = FALSE /\ begun = FALSE
  /\ replies = <<>>
  /\ gone = FALSE /\ closed = FALSE

-----------------------------------------------------------------------------
(* The client.                                                             *)

AllAnswered == \A i \in asked : \E k \in DOMAIN replies : replies[k].id = i

Speaks(m) ==
  /\ eager \/ AllAnswered
  /\ asked' = IF Promise!IsRequest(m) THEN asked \cup {m.id} ELSE asked

Speak ==
  /\ ~gone /\ plan # <<>>
  /\ Speaks(Head(plan))
  /\ wire' = Append(wire, Head(plan))
  /\ plan' = Tail(plan)
  /\ UNCHANGED <<eager, initialized, up, rmcp, replies, gone, closed>>

Hangup ==
  /\ ~gone
  /\ gone' = TRUE
  /\ UNCHANGED <<client, wire, initialized, up, rmcp, replies, closed>>

-----------------------------------------------------------------------------
(* The guard's receive: one message of inner.receive.                      *)

\* Variant: only the first message is looked at.
RefusesOnce(m) == replies = <<>> /\ m.kind = "discover" /\ m.version \in Unsupported

\* A probe for a version the server does not support, before initialize.
Refuses(m) == ~initialized /\ m.kind = "discover" /\ m.version \in Unsupported

\* Asked for a message, with one to read.
Reading == ~closed /\ up = <<>> /\ wire # <<>>

\* Variant: the probe is swallowed.
NoReply(m) == replies

Reply(m) == Promise!Replied(m, "unsupported")

Refuse ==
  /\ Reading /\ Refuses(Head(wire))
  /\ replies' = Reply(Head(wire))
  /\ wire' = Tail(wire)
  /\ UNCHANGED <<client, initialized, up, rmcp, gone, closed>>

\* The reply cannot be sent: receive returns None.
RefuseFails ==
  /\ Reading /\ Refuses(Head(wire)) /\ gone
  /\ wire' = <<>>
  /\ closed' = TRUE
  /\ UNCHANGED <<client, initialized, up, rmcp, replies, gone>>

Pass ==
  /\ Reading /\ ~Refuses(Head(wire))
  /\ initialized' = (initialized \/ Head(wire).kind = "initialize")
  /\ up' = <<Head(wire)>>
  /\ wire' = Tail(wire)
  /\ UNCHANGED <<client, rmcp, replies, gone, closed>>

\* Variant: None is not passed on before initialize.
EndWhenInitialized ==
  /\ ~closed /\ initialized /\ up = <<>> /\ wire = <<>> /\ gone
  /\ closed' = TRUE
  /\ UNCHANGED <<client, wire, initialized, up, rmcp, replies, gone>>

EndOfInput ==
  /\ ~closed /\ up = <<>> /\ wire = <<>> /\ gone
  /\ closed' = TRUE
  /\ UNCHANGED <<client, wire, initialized, up, rmcp, replies, gone>>

-----------------------------------------------------------------------------
(* rmcp.                                                                   *)

\* Latched, it refuses a request without _meta, initialize excepted.
RmcpAnswers(m) ==
  LET latched == latch \/ (first /\ m.kind # "initialize")
  IN IF latched /\ m.kind = "tools" /\ m.version = NoVersion
     THEN "refused"
     ELSE Promise!Answer(m, begun)

Handle ==
  /\ ~closed /\ up # <<>>
  /\ LET m == up[1]
     IN /\ replies' = Promise!Replied(m, RmcpAnswers(m))
        /\ latch' = (latch \/ (first /\ m.kind # "initialize"))
        /\ begun' = (begun \/ m.kind = "initialize")
  /\ first' = FALSE /\ up' = <<>>
  /\ UNCHANGED <<client, wire, initialized, gone, closed>>

Server == Refuse \/ RefuseFails \/ Pass \/ EndOfInput \/ Handle

Next == Speak \/ Hangup \/ Server

\* The client says what it wants to, and the process runs on.
Spec == Init /\ [][Next]_vars /\ WF_vars(Speak) /\ WF_vars(Server)

-----------------------------------------------------------------------------
(* Correctness.                                                            *)

\* Guard and rmcp together are a session as a client may expect it: what the
\* guard answers is what rmcp would, once, and for the rest it is not there
\* (probe.rs; main.rs, a_rejected_discover_probe_still_leaves_tools_listable).
\* This holds of clients with an Opening; any other "passes through untouched" to
\* rmcp's latch.
Implements == Promise!Spec

\* A client that stays says all it wants to and has each of its requests
\* answered: none is swallowed, and one that waits for its probe to be refused
\* goes on to its tools (probe.rs, receive).
PlanCarriedOut == <>(gone \/ (plan = <<>> /\ AllAnswered))

\* The session of a client that went away ends, at whatever point of its
\* opening it went (probe.rs, receive: the two ways to None).
SessionEnds == gone ~> closed
=============================================================================
