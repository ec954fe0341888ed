----------------------------- MODULE McpSession -----------------------------
(***************************************************************************)
(* What a client may expect of an MCP session: its messages are taken in   *)
(* order and every request is answered once, according to what was said    *)
(* before it.  This is rmcp without the latch that probe.rs describes.     *)
(***************************************************************************)
EXTENDS Naturals, Sequences

CONSTANTS
  Supported,    \* supported_protocol_versions
  Unsupported,  \* versions the server does not speak
  NoVersion,    \* a request that names none
  MaxId         \* bound: ids of messages

Message == [id : 1..MaxId, kind : {"discover", "initialize", "initialized", "tools"},
            version : Supported \cup Unsupported \cup {NoVersion}]

VARIABLES
  sent,     \* messages not taken yet
  begun,    \* initialize was answered
  replies,  \* [id, what] in the order written
  gone      \* the client went away

vars == <<sent, begun, replies, gone>>

\* A tool call is served after initialize, or if it names its version in _meta.
Answer(m, after) ==
  CASE m.kind = "initialize" -> "welcome"
    [] m.kind = "discover" /\ m.version \in Unsupported -> "unsupported"
    [] m.kind = "discover" /\ m.version \in Supported -> "discovered"
    [] m.kind = "tools" /\ (after \/ m.version \in Supported) -> "tools"
    [] OTHER -> "refused"

IsRequest(m) == m.kind # "initialized"

\* The replies once m is answered with what; a notification has none.
Replied(m, what) == IF IsRequest(m) THEN Append(replies, [id |-> m.id, what |-> what]) ELSE replies

Init == sent = <<>> /\ begun = FALSE /\ replies = <<>> /\ gone = FALSE

Send(m) == ~gone /\ sent' = Append(sent, m) /\ UNCHANGED <<begun, replies, gone>>

Take ==
  /\ sent # <<>>
  /\ replies' = Replied(Head(sent), Answer(Head(sent), begun))
  /\ begun' = (begun \/ Head(sent).kind = "initialize")
  /\ sent' = Tail(sent)
  /\ UNCHANGED gone

Hangup == ~gone /\ gone' = TRUE /\ UNCHANGED <<sent, begun, replies>>

\* What a client that went away has sent may be dropped.
Drop == gone /\ sent # <<>> /\ sent' = <<>> /\ UNCHANGED <<begun, replies, gone>>

Next == (\E m \in Message : Send(m)) \/ Take \/ Hangup \/ Drop

Spec == Init /\ [][Next]_vars
=============================================================================
