----------------------------- MODULE ClientProofs -----------------------------
(***************************************************************************)
(* What a client starts: a session, and a hook after each compaction.      *)
(*                                                                         *)
(* The guard and rmcp behind it are a session as a client may expect it,   *)
(* for any clients that open in one of the ways the guard is made for      *)
(* (Probe).  A hook run again is a no-op, for any number of hooks,         *)
(* sessions, projects, compactions and memories (Ingest).                  *)
(***************************************************************************)
EXTENDS Probe, Ingest, SequenceTheorems, WellFoundedInduction, TLAPS

Msg == Promise!Message

TypeOK ==
  /\ plan \in Seq(Msg) /\ wire \in Seq(Msg)
  /\ \/ up = <<>>
     \/ \E m \in Msg : up = <<m>>
  /\ initialized \in BOOLEAN /\ first \in BOOLEAN /\ latch \in BOOLEAN /\ begun \in BOOLEAN

Probing(m) == m.kind = "discover" /\ m.version \in Unsupported

\* Probes that will be refused, and then initialize.
Greets(s) ==
  \E k \in DOMAIN s : s[k].kind = "initialize" /\ \A j \in 1..(k - 1) : Probing(s[j])

NamesVersion(m) == m.kind = "tools" => m.version # NoVersion

\* Of a client that names versions the latch is none the wiser; of any other the
\* first message rmcp sees is initialize.
Unlatched ==
  /\ ~latch
  /\ first => IF up = <<>> THEN ~initialized /\ (closed \/ Greets(wire \o plan))
                           ELSE up[1].kind = "initialize"

Harmless ==
  \/ \A k \in DOMAIN (up \o (wire \o plan)) : NamesVersion((up \o (wire \o plan))[k])
  \/ Unlatched

Inv == TypeOK /\ Harmless

-----------------------------------------------------------------------------
(* Sequences.                                                              *)

\* A message moves from the plan to the wire.
LEMMA Moves ==
  ASSUME NEW S, NEW s \in Seq(S), NEW t \in Seq(S), t # <<>>
  PROVE  /\ Head(t) \in S /\ Tail(t) \in Seq(S) /\ Append(s, Head(t)) \in Seq(S)
         /\ Append(s, Head(t)) \o Tail(t) = s \o t
<1>1. /\ Head(t) \in S /\ Tail(t) \in Seq(S) /\ Append(s, Head(t)) \in Seq(S)
      /\ Append(s, Head(t)) = s \o <<Head(t)>>
  BY HeadTailProperties, AppendProperties, AppendIsConcat
<1>2. <<Head(t)>> \in Seq(S) /\ <<Head(t)>> \o Tail(t) = t
  <2>1. <<Head(t)>> \in Seq(S)
    BY <1>1
  <2>2. Len(t) \in Nat /\ t \in Seq(S)
    BY LenProperties
  <2>3. Len(<<Head(t)>> \o Tail(t)) = Len(t)
    BY <1>1, <2>1, <2>2, HeadTailProperties, ConcatProperties
  <2>4. ASSUME NEW i \in 1..Len(t)
        PROVE  (<<Head(t)>> \o Tail(t))[i] = t[i]
    BY <1>1, <2>1, <2>2, HeadTailProperties, ConcatProperties
  <2> QED BY <1>1, <2>1, <2>3, <2>4, SeqEqual, ConcatProperties
<1> QED BY <1>1, <1>2, ConcatAssociative

\* What is left when the first message is taken.
LEMMA Takes ==
  ASSUME NEW S, NEW s \in Seq(S), NEW t \in Seq(S), s # <<>>
  PROVE  /\ Head(s) \in S /\ Tail(s) \in Seq(S)
         /\ s \o t \in Seq(S) /\ s \o t # <<>>
         /\ Head(s \o t) = Head(s) /\ Tail(s \o t) = Tail(s) \o t
         /\ <<Head(s)>> \o (Tail(s) \o t) = s \o t
<1>1. Head(s) \in S /\ Tail(s) \in Seq(S) /\ <<>> \in Seq(S)
  BY HeadTailProperties, EmptySeq
<1>2. <<Head(s)>> \in Seq(S) /\ <<Head(s)>> \o Tail(s) = s
  <2>1. <<>> \o s = s /\ Append(<<>>, Head(s)) = <<Head(s)>>
    BY ConcatEmptySeq
  <2> QED BY <1>1, <2>1, Moves
<1>3. <<Head(s)>> \o (Tail(s) \o t) = s \o t
  BY <1>1, <1>2, ConcatAssociative
<1>4. s \o t \in Seq(S) /\ s \o t # <<>> /\ Tail(s) \o t \in Seq(S)
  BY <1>1, ConcatProperties, ConcatEqualIffEmpty
<1>5. Head(s \o t) = Head(s)
  <2>1. Len(s) \in Nat \ {0} /\ Len(t) \in Nat
    BY EmptySeq, LenProperties
  <2>2. (s \o t)[1] = s[1]
    BY <2>1, ConcatProperties
  <2> QED BY <1>4, <2>2
<1>6. Tail(s \o t) = Tail(s) \o t
  <2>1. Tail(s \o t) \in Seq(S) /\ Len(Tail(s \o t)) = Len(s) + Len(t) - 1
    BY <1>4, HeadTailProperties, ConcatProperties
  <2>2. Len(Tail(s) \o t) = Len(s) - 1 + Len(t)
    BY <1>1, HeadTailProperties, ConcatProperties
  <2>3. Len(s) \in Nat \ {0} /\ Len(t) \in Nat
    BY EmptySeq, LenProperties
  <2>4. ASSUME NEW i \in 1..(Len(s) + Len(t) - 1)
        PROVE  Tail(s \o t)[i] = (Tail(s) \o t)[i]
    <3>1. Tail(s \o t)[i] = (s \o t)[i + 1]
      BY <1>4, <2>1, HeadTailProperties
    <3>2. (s \o t)[i + 1] = IF i + 1 <= Len(s) THEN s[i + 1] ELSE t[i + 1 - Len(s)]
      BY <2>3, ConcatProperties
    <3>3. (Tail(s) \o t)[i] = IF i <= Len(s) - 1 THEN Tail(s)[i] ELSE t[i - (Len(s) - 1)]
      BY <1>1, <2>3, HeadTailProperties, ConcatProperties
    <3>4. i <= Len(s) - 1 => Tail(s)[i] = s[i + 1]
      BY <2>3, HeadTailProperties
    <3> QED BY <2>3, <3>1, <3>2, <3>3, <3>4
  <2> QED BY <1>4, <2>1, <2>2, <2>3, <2>4, SeqEqual
<1> QED BY <1>1, <1>3, <1>4, <1>5, <1>6

\* A property of all messages of two sequences is one of the second's.
LEMMA Rest ==
  ASSUME NEW S, NEW s \in Seq(S), NEW t \in Seq(S),
         \A k \in DOMAIN (s \o t) : NamesVersion((s \o t)[k])
  PROVE  \A k \in DOMAIN t : NamesVersion(t[k])
<1>1. /\ Len(s) \in Nat /\ Len(t) \in Nat /\ DOMAIN t = 1..Len(t)
      /\ s \o t \in Seq(S) /\ DOMAIN (s \o t) = 1..(Len(s) + Len(t))
  BY LenProperties, ConcatProperties
<1>2. ASSUME NEW k \in 1..Len(t)
      PROVE  NamesVersion(t[k])
  <2>1. Len(s) + k \in 1..(Len(s) + Len(t)) /\ ~(Len(s) + k <= Len(s)) /\ Len(s) + k - Len(s) = k
    BY <1>1
  <2>2. (s \o t)[Len(s) + k] = t[Len(s) + k - Len(s)]
    BY <2>1, ConcatProperties
  <2>3. (s \o t)[Len(s) + k] = t[k]
    BY <2>1, <2>2
  <2> QED BY <1>1, <2>1, <2>3
<1> QED BY <1>1, <1>2

\* A greeting begins with initialize, or with a probe and goes on.
LEMMA GreetsOn ==
  ASSUME NEW s \in Seq(Msg), s # <<>>, Greets(s)
  PROVE  \/ Head(s).kind = "initialize"
         \/ Probing(Head(s)) /\ Greets(Tail(s))
<1>1. PICK k \in DOMAIN s : s[k].kind = "initialize" /\ \A j \in 1..(k - 1) : Probing(s[j])
  BY DEF Greets
<1>2. /\ DOMAIN s = 1..Len(s) /\ Len(s) \in Nat \ {0} /\ Head(s) = s[1]
      /\ Tail(s) \in Seq(Msg) /\ Len(Tail(s)) = Len(s) - 1
      /\ \A i \in 1..(Len(s) - 1) : Tail(s)[i] = s[i + 1]
      /\ DOMAIN Tail(s) = 1..(Len(s) - 1)
  BY EmptySeq, LenProperties, HeadTailProperties
<1>3. CASE k = 1
  BY <1>1, <1>2, <1>3
<1>4. CASE k # 1
  <2>1. k \in 2..Len(s) /\ k - 1 \in 1..(Len(s) - 1)
    BY <1>1, <1>2, <1>4
  <2>2. Tail(s)[k - 1].kind = "initialize"
    BY <1>1, <1>2, <2>1
  <2>3. \A j \in 1..(k - 1 - 1) : Probing(Tail(s)[j])
    BY <1>1, <1>2, <2>1
  <2>4. Greets(Tail(s))
    BY <1>2, <2>1, <2>2, <2>3 DEF Greets
  <2>5. Probing(Head(s))
    BY <1>1, <1>2, <2>1
  <2> QED BY <2>4, <2>5
<1> QED BY <1>3, <1>4

-----------------------------------------------------------------------------
(* The invariant.                                                          *)

LEMMA InitOK ==
  ASSUME Init
  PROVE  Inv
<1>1. plan \in Seq(Msg) /\ Opening(plan) /\ wire = <<>> /\ up = <<>>
  BY ProbeAssumption DEF Init, Msg
<1>2. wire \in Seq(Msg) /\ wire \o plan = plan /\ up \o (wire \o plan) = plan
  BY <1>1, EmptySeq, ConcatEmptySeq
<1>3. TypeOK
  BY <1>1, <1>2 DEF Init, TypeOK
<1>4. Harmless
  BY <1>1, <1>2 DEF Init, Harmless, Unlatched, Opening, Greets, Probing, NamesVersion
<1> QED BY <1>3, <1>4 DEF Inv

LEMMA SpeakOK ==
  ASSUME Inv, Speak
  PROVE  Inv'
<1>1. /\ wire' = Append(wire, Head(plan)) /\ plan' = Tail(plan)
      /\ plan # <<>> /\ plan \in Seq(Msg) /\ wire \in Seq(Msg)
      /\ UNCHANGED <<initialized, up, rmcp, closed>>
  BY DEF Speak, Inv, TypeOK
<1>2. wire' \in Seq(Msg) /\ plan' \in Seq(Msg) /\ wire' \o plan' = wire \o plan
  BY <1>1, Moves
<1> QED BY <1>1, <1>2 DEF Inv, TypeOK, Harmless, Unlatched, rmcp

LEMMA RefuseOK ==
  ASSUME Inv, Refuse
  PROVE  Inv'
<1>1. /\ wire # <<>> /\ up = <<>> /\ wire' = Tail(wire) /\ Probing(Head(wire)) /\ ~closed
      /\ plan \in Seq(Msg) /\ wire \in Seq(Msg)
      /\ UNCHANGED <<plan, initialized, up, first, latch, begun, closed>>
  BY DEF Refuse, Reading, Refuses, Probing, client, rmcp, Inv, TypeOK
<1>2. /\ wire' \in Seq(Msg) /\ wire \o plan \in Seq(Msg) /\ wire \o plan # <<>>
      /\ Head(wire \o plan) = Head(wire) /\ Tail(wire \o plan) = wire' \o plan
  BY <1>1, Takes
<1>3. TypeOK'
  BY <1>1, <1>2 DEF Inv, TypeOK
<1>4. up \o (wire \o plan) = wire \o plan /\ up' \o (wire' \o plan') = Tail(wire \o plan)
  BY <1>1, <1>2, HeadTailProperties, ConcatEmptySeq
<1>5. CASE \A k \in DOMAIN (wire \o plan) : NamesVersion((wire \o plan)[k])
  <2>1. \A k \in DOMAIN Tail(wire \o plan) :
          k + 1 \in DOMAIN (wire \o plan) /\ Tail(wire \o plan)[k] = (wire \o plan)[k + 1]
    BY <1>2, HeadTailProperties, LenProperties
  <2>2. \A k \in DOMAIN Tail(wire \o plan) : NamesVersion(Tail(wire \o plan)[k])
    BY <1>5, <2>1
  <2> QED BY <1>3, <1>4, <2>2 DEF Inv, Harmless
<1>6. CASE Unlatched
  <2>1. Greets(wire \o plan) => Greets(wire' \o plan')
    BY <1>1, <1>2, GreetsOn DEF Probing
  <2> QED BY <1>1, <1>3, <1>6, <2>1 DEF Inv, Harmless, Unlatched
<1> QED BY <1>4, <1>5, <1>6 DEF Inv, Harmless

\* Of a session that is over nothing more is read.
LEMMA RefuseFailsOK ==
  ASSUME Inv, RefuseFails
  PROVE  Inv'
<1>1. /\ up = <<>> /\ wire # <<>> /\ wire' = <<>> /\ closed'
      /\ plan \in Seq(Msg) /\ wire \in Seq(Msg)
      /\ UNCHANGED <<plan, initialized, up, first, latch, begun>>
  BY DEF RefuseFails, Reading, client, rmcp, Inv, TypeOK
<1>2. wire' \in Seq(Msg) /\ TypeOK'
  BY <1>1, EmptySeq DEF Inv, TypeOK
<1>3. /\ up \o (wire \o plan) = wire \o plan /\ up' \o (wire' \o plan') = plan
      /\ wire \o plan \in Seq(Msg)
  BY <1>1, <1>2, ConcatProperties, ConcatEmptySeq
<1>4. CASE \A k \in DOMAIN (wire \o plan) : NamesVersion((wire \o plan)[k])
  <2>1. \A k \in DOMAIN plan : NamesVersion(plan[k])
    BY <1>1, <1>4, Rest
  <2> QED BY <1>2, <1>3, <2>1 DEF Inv, Harmless
<1>5. CASE Unlatched
  BY <1>1, <1>2, <1>5 DEF Inv, Harmless, Unlatched
<1> QED BY <1>3, <1>4, <1>5 DEF Inv, Harmless

\* What passes before initialize is initialize, or comes from a client that names
\* versions.
LEMMA PassOK ==
  ASSUME Inv, Pass
  PROVE  Inv'
<1>1. /\ wire # <<>> /\ up = <<>> /\ ~Refuses(Head(wire)) /\ ~closed
      /\ wire' = Tail(wire) /\ up' = <<Head(wire)>>
      /\ initialized' = (initialized \/ Head(wire).kind = "initialize")
      /\ plan \in Seq(Msg) /\ wire \in Seq(Msg)
      /\ UNCHANGED <<plan, first, latch, begun, closed>>
  BY DEF Pass, Reading, client, rmcp, Inv, TypeOK
<1>2. /\ Head(wire) \in Msg /\ wire' \in Seq(Msg)
      /\ wire \o plan \in Seq(Msg) /\ wire \o plan # <<>>
      /\ Head(wire \o plan) = Head(wire)
      /\ up' \o (wire' \o plan') = wire \o plan
  BY <1>1, Takes
<1>3. TypeOK'
  BY <1>1, <1>2 DEF Inv, TypeOK
<1>4. up \o (wire \o plan) = wire \o plan
  BY <1>1, <1>2, ConcatEmptySeq
<1>5. CASE Unlatched
  <2>1. first => Head(wire).kind = "initialize"
    BY <1>1, <1>2, <1>5, GreetsOn DEF Unlatched, Refuses, Probing
  <2>2. up' # <<>> /\ up'[1] = Head(wire)
    BY <1>1
  <2> QED BY <1>1, <1>3, <1>5, <2>1, <2>2 DEF Inv, Harmless, Unlatched
<1> QED BY <1>2, <1>3, <1>4, <1>5 DEF Inv, Harmless

LEMMA HandleOK ==
  ASSUME Inv, Handle
  PROVE  Inv'
<1>1. PICK m \in Msg : up = <<m>>
  BY DEF Handle, Inv, TypeOK
<1>2. /\ up[1] = m /\ up # <<>> /\ up' = <<>> /\ first' = FALSE
      /\ latch' = (latch \/ (first /\ m.kind # "initialize"))
      /\ begun' = (begun \/ m.kind = "initialize")
      /\ plan \in Seq(Msg) /\ wire \in Seq(Msg) /\ wire \o plan \in Seq(Msg)
      /\ UNCHANGED <<plan, wire, initialized>>
  BY <1>1, ConcatProperties DEF Handle, client, Inv, TypeOK
<1>3. TypeOK'
  BY <1>2 DEF Inv, TypeOK
<1>4. up' \o (wire' \o plan') = wire \o plan
  BY <1>2, ConcatEmptySeq
<1>5. CASE \A k \in DOMAIN (up \o (wire \o plan)) : NamesVersion((up \o (wire \o plan))[k])
  <2>1. up \in Seq(Msg) /\ wire \o plan \in Seq(Msg)
    BY <1>1, <1>2
  <2>2. \A k \in DOMAIN (wire \o plan) : NamesVersion((wire \o plan)[k])
    BY <1>5, <2>1, Rest
  <2> QED BY <1>3, <1>4, <2>2 DEF Inv, Harmless
<1>6. CASE Unlatched
  BY <1>2, <1>3, <1>6 DEF Inv, Harmless, Unlatched
<1> QED BY <1>5, <1>6 DEF Inv, Harmless

LEMMA NextOK ==
  ASSUME Inv, [Next]_vars
  PROVE  Inv'
<1>1. CASE Hangup
  BY <1>1 DEF Hangup, client, rmcp, Inv, TypeOK, Harmless, Unlatched
<1>2. CASE EndOfInput
  BY <1>2 DEF EndOfInput, client, rmcp, Inv, TypeOK, Harmless, Unlatched
<1>3. CASE UNCHANGED vars
  BY <1>3 DEF vars, Inv, TypeOK, Harmless, Unlatched
<1> QED BY <1>1, <1>2, <1>3, SpeakOK, RefuseOK, RefuseFailsOK, PassOK, HandleOK DEF Next, Server

-----------------------------------------------------------------------------
(* Refinement.                                                             *)

\* rmcp, latched or not, answers as a session would.
LEMMA SameAnswer ==
  ASSUME Inv, NEW m \in Msg, up = <<m>>
  PROVE  RmcpAnswers(m) = Promise!Answer(m, begun)
<1>1. up[1] = m /\ up # <<>>
  OBVIOUS
<1>2. CASE Unlatched
  BY <1>1, <1>2 DEF Unlatched, RmcpAnswers
<1>3. CASE \A k \in DOMAIN (up \o (wire \o plan)) : NamesVersion((up \o (wire \o plan))[k])
  <2>1. /\ up \in Seq(Msg) /\ Len(up) = 1 /\ wire \o plan \in Seq(Msg)
        /\ Len(wire \o plan) \in Nat
    BY <1>1, ConcatProperties, LenProperties DEF Inv, TypeOK
  <2>2. /\ (up \o (wire \o plan))[1] = m
        /\ 1 \in DOMAIN (up \o (wire \o plan))
    BY <1>1, <2>1, ConcatProperties, LenProperties
  <2>3. NamesVersion(m)
    BY <1>3, <2>2
  <2> QED BY <2>3 DEF NamesVersion, RmcpAnswers
<1> QED BY <1>2, <1>3 DEF Inv, Harmless

\* What is on its way to the server, as the client sees it.
LEMMA InboxIs ==
  ASSUME NEW w \in Seq(Msg)
  PROVE  /\ <<>> \o w = w
         /\ \A m \in Msg : <<m>> \o w # <<>> /\ Head(<<m>> \o w) = m /\ Tail(<<m>> \o w) = w
<1>1. <<>> \o w = w
  BY ConcatEmptySeq
<1>2. ASSUME NEW m \in Msg
      PROVE  <<m>> \o w # <<>> /\ Head(<<m>> \o w) = m /\ Tail(<<m>> \o w) = w
  <2>1. <<m>> \in Seq(Msg) /\ <<m>> # <<>> /\ Head(<<m>>) = m /\ Tail(<<m>>) = <<>>
    OBVIOUS
  <2> QED BY <1>1, <2>1, Takes
<1> QED BY <1>1, <1>2

\* The answer to a probe is the one the guard gives.
LEMMA ProbeAnswer ==
  ASSUME NEW m \in Msg, Probing(m), NEW after \in BOOLEAN
  PROVE  Promise!Answer(m, after) = "unsupported"
<1>1. /\ m.kind # "initialize" /\ m.kind # "tools" /\ m.kind = "discover"
      /\ m.version \in Unsupported /\ m.version \notin Supported
  BY ProbeAssumption DEF Probing
<1> QED BY <1>1, Zenon DEF Promise!Answer

LEMMA StepPromised ==
  ASSUME Inv, [Next]_vars
  PROVE  [Promise!Next]_(Promise!vars)
<1> USE DEF Promise!vars
<1>1. CASE Speak
  <2>1. /\ wire' = Append(wire, Head(plan)) /\ plan # <<>> /\ ~gone
        /\ plan \in Seq(Msg) /\ wire \in Seq(Msg) /\ up \in Seq(Msg)
        /\ UNCHANGED <<up, begun, replies, gone>>
    <3>1. CASE up = <<>>
      BY <1>1, <3>1, EmptySeq DEF Speak, rmcp, Inv, TypeOK
    <3>2. ASSUME NEW m \in Msg, up = <<m>>
          PROVE  up \in Seq(Msg)
      BY <3>2
    <3>3. up \in Seq(Msg)
      BY <3>1, <3>2 DEF Inv, TypeOK
    <3> QED BY <1>1, <3>3 DEF Speak, rmcp, Inv, TypeOK
  <2>2. Head(plan) \in Msg
    BY <2>1, Moves
  <2>3. Inbox' = Append(Inbox, Head(plan))
    <3>1. /\ <<Head(plan)>> \in Seq(Msg) /\ Append(wire, Head(plan)) = wire \o <<Head(plan)>>
          /\ Append(up \o wire, Head(plan)) = (up \o wire) \o <<Head(plan)>>
      BY <2>1, <2>2, ConcatProperties, AppendIsConcat
    <3> QED BY <2>1, <3>1, ConcatAssociative DEF Inbox
  <2>4. Promise!Send(Head(plan))
    BY <2>1, <2>3 DEF Promise!Send
  <2> QED BY <2>2, <2>4 DEF Promise!Next, Msg
<1>2. CASE Hangup
  <2>1. Promise!Hangup
    BY <1>2 DEF Hangup, Promise!Hangup, rmcp, Inbox
  <2> QED BY <2>1 DEF Promise!Next
<1>3. CASE Refuse
  <2>1. /\ up = <<>> /\ wire # <<>> /\ wire' = Tail(wire) /\ Probing(Head(wire))
        /\ replies' = Promise!Replied(Head(wire), "unsupported")
        /\ UNCHANGED <<up, begun, gone>> /\ begun \in BOOLEAN
    BY <1>3 DEF Refuse, Reading, Refuses, Reply, Probing, rmcp, Inv, TypeOK
  <2>2. Inbox = wire /\ Inbox' = wire' /\ Head(wire) \in Msg
    <3>1. wire \in Seq(Msg) /\ wire' \in Seq(Msg) /\ Head(wire) \in Msg
      BY <2>1, HeadTailProperties DEF Inv, TypeOK
    <3> QED BY <2>1, <3>1, InboxIs DEF Inbox
  <2>3. Promise!Answer(Head(wire), begun) = "unsupported"
    BY <2>1, <2>2, ProbeAnswer
  <2>4. Promise!Take
    BY <2>1, <2>2, <2>3 DEF Promise!Take, Probing
  <2> QED BY <2>4 DEF Promise!Next
<1>4. CASE RefuseFails
  <2>1. Inbox = wire /\ Inbox' = wire'
    BY <1>4, InboxIs, EmptySeq DEF RefuseFails, Reading, Inbox, Inv, TypeOK
  <2>2. Promise!Drop
    BY <1>4, <2>1 DEF RefuseFails, Reading, Promise!Drop, rmcp
  <2> QED BY <2>2 DEF Promise!Next
<1>5. CASE Pass
  <2>1. /\ up = <<>> /\ wire # <<>> /\ up' = <<Head(wire)>> /\ wire' = Tail(wire)
        /\ wire \in Seq(Msg) /\ UNCHANGED <<begun, replies, gone>>
    BY <1>5 DEF Pass, Reading, rmcp, Inv, TypeOK
  <2>2. Inbox' = wire
    <3>1. /\ <<>> \in Seq(Msg) /\ <<Head(wire)>> \o (Tail(wire) \o <<>>) = wire \o <<>>
          /\ Tail(wire) \in Seq(Msg)
      BY <2>1, EmptySeq, Takes
    <3> QED BY <2>1, <3>1, ConcatEmptySeq DEF Inbox
  <2> QED BY <2>1, <2>2, InboxIs DEF Inbox
<1>6. CASE EndOfInput
  BY <1>6 DEF EndOfInput, rmcp, Inbox
<1>7. CASE Handle
  <2>1. PICK m \in Msg : up = <<m>>
    BY <1>7 DEF Handle, Inv, TypeOK
  <2>2. /\ up' = <<>> /\ UNCHANGED <<wire, gone>>
        /\ replies' = Promise!Replied(m, RmcpAnswers(m))
        /\ begun' = (begun \/ m.kind = "initialize")
    BY <1>7, <2>1 DEF Handle
  <2>3. Inbox # <<>> /\ Head(Inbox) = m /\ Inbox' = Tail(Inbox)
    <3>1. wire \in Seq(Msg)
      BY DEF Inv, TypeOK
    <3> QED BY <2>1, <2>2, <3>1, InboxIs DEF Inbox
  <2>4. Promise!Take
    BY <2>1, <2>2, <2>3, SameAnswer DEF Promise!Take
  <2> QED BY <2>4 DEF Promise!Next
<1>8. CASE UNCHANGED vars
  BY <1>8 DEF vars, rmcp, Inbox
<1> QED BY <1>1, <1>2, <1>3, <1>4, <1>5, <1>6, <1>7, <1>8 DEF Next, Server

\* Guard and rmcp together are a session as a client may expect it: messages are
\* taken in order and each request is answered once and as rmcp would without its
\* latch (probe.rs), for any clients that open as the guard expects, whatever
\* they say then, and whenever they go away.
THEOREM Refinement == Spec => Implements
<1>1. Init => Inv
  BY InitOK
<1>2. Inv /\ [Next]_vars => Inv'
  BY NextOK
<1>3. Init => Promise!Init
  <2>1. <<>> \o <<>> = <<>>
    BY EmptySeq, ConcatEmptySeq
  <2> QED BY <2>1 DEF Init, Inbox, Promise!Init
<1>4. Inv /\ [Next]_vars => [Promise!Next]_(Promise!vars)
  BY StepPromised
<1> QED BY <1>1, <1>2, <1>3, <1>4, PTL DEF Spec, Implements, Promise!Spec

-----------------------------------------------------------------------------
(* Hooks run again.                                                        *)

\* Memories are numbered in the order they are committed; the hook that saved
\* one started when only older ones were there; and one that was kept is not
\* forgotten.
Rows ==
  /\ \E N \in Nat : memory = [i \in 1..N |-> memory[i]]
  /\ \A i \in DOMAIN memory :
       /\ DOMAIN memory[i] = {"ns", "body", "forgotten", "retired", "kept", "before"}
       /\ memory[i].before \subseteq 1..(i - 1)
       /\ memory[i].forgotten \in BOOLEAN /\ memory[i].kept \in BOOLEAN
       /\ memory[i].kept => ~memory[i].forgotten

\* A hook that goes on to save has not started before a memory with its body
\* that is still kept.
HookOK(mem, p, j) ==
  /\ p \in {"take", "look", "save"} => j.before \subseteq DOMAIN mem
  /\ p = "save" =>
       \A i \in j.before :
         ~(mem[i].ns = j.ns /\ mem[i].body = j.body /\ mem[i].kept)

Hooks ==
  /\ DOMAIN pc = Hook /\ DOMAIN job = Hook
  /\ \A h \in Hook : DOMAIN job[h] = DOMAIN Idle /\ HookOK(memory, pc[h], job[h])

HookInv == Rows /\ Hooks /\ RerunIsNoOp

\* A step of one hook that leaves the memories alone.
LEMMA HookStep ==
  ASSUME HookInv, NEW h \in Hook, UNCHANGED memory,
         DOMAIN pc' = Hook, DOMAIN job' = Hook,
         \A g \in Hook \ {h} : pc'[g] = pc[g] /\ job'[g] = job[g],
         DOMAIN job'[h] = DOMAIN Idle, HookOK(memory', pc'[h], job'[h])
  PROVE  HookInv'
<1>1. Rows' /\ RerunIsNoOp'
  BY DEF HookInv, Rows, RerunIsNoOp
<1>2. ASSUME NEW g \in Hook
      PROVE  DOMAIN job'[g] = DOMAIN Idle /\ HookOK(memory', pc'[g], job'[g])
  <2>1. CASE g = h
    BY <2>1
  <2>2. CASE g # h
    <3>1. pc'[g] = pc[g] /\ job'[g] = job[g]
      BY <2>2
    <3> QED BY <3>1 DEF HookInv, Hooks
  <2> QED BY <2>1, <2>2
<1> QED BY <1>1, <1>2 DEF HookInv, Hooks, HookOK

LEMMA EndStep ==
  ASSUME HookInv, NEW h \in Hook, NEW label \in {"skipped", "present", "failed", "stored"},
         End(h, label), UNCHANGED memory
  PROVE  HookInv'
<1>1. /\ DOMAIN pc' = Hook /\ DOMAIN job' = Hook
      /\ \A g \in Hook \ {h} : pc'[g] = pc[g] /\ job'[g] = job[g]
      /\ pc'[h] = label /\ job'[h] = Idle
  BY DEF End, Goto, HookInv, Hooks
<1> QED BY <1>1, HookStep DEF HookOK

LEMMA StartStep ==
  ASSUME HookInv, NEW h \in Hook, NEW s \in Session, NEW own \in Project, Start(h, s, own)
  PROVE  HookInv'
<1>1. /\ DOMAIN pc' = Hook /\ DOMAIN job' = Hook /\ UNCHANGED memory
      /\ \A g \in Hook \ {h} : pc'[g] = pc[g] /\ job'[g] = job[g]
      /\ pc'[h] = "take"
  BY DEF Start, Goto, HookInv, Hooks
<1>2. DOMAIN job'[h] = DOMAIN Idle /\ job'[h].before = DOMAIN memory
  BY DEF Start, Goto, HookInv, Hooks, Idle
<1> QED BY <1>1, <1>2, HookStep DEF HookOK

LEMMA TakeStep ==
  ASSUME HookInv, NEW h \in Hook, Take(h)
  PROVE  HookInv'
<1> DEFINE e == IF job[h].given # Absent THEN job[h].given
                ELSE LastWithText(transcript[job[h].session])
<1>1. CASE e = Absent \/ e.kind = "stub"
  BY <1>1, EndStep DEF Take
<1>2. CASE ~(e = Absent \/ e.kind = "stub")
  <2>1. /\ pc[h] = "take" /\ UNCHANGED memory
        /\ Goto(h, "look", [job[h] EXCEPT !.given = Absent, !.body = Strip(e)])
    BY <1>2 DEF Take
  <2> HIDE DEF e
  <2>2. /\ DOMAIN pc' = Hook /\ DOMAIN job' = Hook
        /\ \A g \in Hook \ {h} : pc'[g] = pc[g] /\ job'[g] = job[g]
        /\ pc'[h] = "look"
        /\ job'[h] = [job[h] EXCEPT !.given = Absent, !.body = Strip(e)]
    BY <2>1 DEF Goto, HookInv, Hooks
  <2>3. DOMAIN job'[h] = DOMAIN Idle /\ job'[h].before = job[h].before
    BY <2>2 DEF HookInv, Hooks, Idle
  <2> QED BY <2>1, <2>2, <2>3, HookStep DEF HookInv, Hooks, HookOK
<1> QED BY <1>1, <1>2

\* What find_by_body does not find was forgotten or is not there.
LEMMA LookStep ==
  ASSUME HookInv, NEW h \in Hook, Look(h)
  PROVE  HookInv'
<1>1. CASE Stored(job[h].ns, job[h].body) # {}
  BY <1>1, EndStep DEF Look
<1>2. CASE Stored(job[h].ns, job[h].body) = {}
  <2>1. /\ pc[h] = "look" /\ UNCHANGED memory
        /\ DOMAIN pc' = Hook /\ DOMAIN job' = Hook
        /\ \A g \in Hook \ {h} : pc'[g] = pc[g] /\ job'[g] = job[g]
        /\ pc'[h] = "save" /\ job'[h] = job[h]
    BY <1>2 DEF Look, Goto, HookInv, Hooks
  <2>2. \A i \in DOMAIN memory :
          ~(memory[i].ns = job[h].ns /\ memory[i].body = job[h].body /\ memory[i].kept)
    BY <1>2 DEF Stored, HookInv, Rows
  <2> QED BY <2>1, <2>2, HookStep DEF HookInv, Hooks, HookOK
<1> QED BY <1>1, <1>2

\* The new memory does not repeat one that its hook could have found, and is too
\* young to have been there for others.
LEMMA SaveStep ==
  ASSUME HookInv, NEW h \in Hook, Save(h)
  PROVE  HookInv'
<1> DEFINE j == job[h]
           new == [ns |-> j.ns, body |-> j.body, forgotten |-> FALSE, retired |-> FALSE,
                   kept |-> TRUE, before |-> j.before]
<1>1. PICK N \in Nat : memory = [i \in 1..N |-> memory[i]]
  BY DEF HookInv, Rows
<1>2. Len(memory) = N /\ DOMAIN memory = 1..N
  BY <1>1
<1>3. memory' = [i \in 1..(N + 1) |-> IF i = N + 1 THEN new ELSE memory[i]]
  BY <1>2 DEF Save
<1>4. /\ DOMAIN memory' = 1..(N + 1) /\ memory'[N + 1] = new
      /\ \A i \in 1..N : memory'[i] = memory[i]
      /\ 1..(N + 1) = (1..N) \cup {N + 1}
  BY <1>3
<1>5. /\ j.before \subseteq 1..N
      /\ \A i \in j.before :
           ~(memory[i].ns = j.ns /\ memory[i].body = j.body /\ memory[i].kept)
  BY <1>2 DEF Save, HookInv, Hooks, HookOK
<1>6. /\ DOMAIN new = {"ns", "body", "forgotten", "retired", "kept", "before"}
      /\ new.ns = j.ns /\ new.body = j.body /\ new.before = j.before
      /\ new.kept = TRUE /\ new.forgotten = FALSE
  OBVIOUS
<1> HIDE DEF new
<1>7. Rows'
  <2>1. memory' = [i \in 1..(N + 1) |-> memory'[i]]
    BY <1>3
  <2>2. ASSUME NEW i \in 1..(N + 1)
        PROVE  /\ DOMAIN memory'[i] = {"ns", "body", "forgotten", "retired", "kept", "before"}
               /\ memory'[i].before \subseteq 1..(i - 1)
               /\ memory'[i].forgotten \in BOOLEAN /\ memory'[i].kept \in BOOLEAN
               /\ memory'[i].kept => ~memory'[i].forgotten
    <3>1. CASE i \in 1..N
      BY <3>1, <1>2, <1>4 DEF HookInv, Rows
    <3>2. CASE i = N + 1
      <4>1. 1..(i - 1) = 1..N
        BY <3>2
      <4> QED BY <3>2, <4>1, <1>4, <1>5, <1>6
    <3> QED BY <3>1, <3>2, <1>4
  <2> QED BY <2>1, <2>2, <1>4 DEF Rows
<1>8. Hooks'
  <2>1. PICK label \in {"stored", "failed"} :
          /\ DOMAIN pc' = Hook /\ DOMAIN job' = Hook
          /\ \A g \in Hook \ {h} : pc'[g] = pc[g] /\ job'[g] = job[g]
          /\ pc'[h] = label /\ job'[h] = Idle
    BY DEF Save, End, Goto, HookInv, Hooks
  <2>2. ASSUME NEW g \in Hook
        PROVE  DOMAIN job'[g] = DOMAIN Idle /\ HookOK(memory', pc'[g], job'[g])
    <3>1. CASE g = h
      BY <2>1, <3>1 DEF HookOK
    <3>2. CASE g # h
      <4>1. pc'[g] = pc[g] /\ job'[g] = job[g]
        BY <2>1, <3>2
      <4>2. DOMAIN job[g] = DOMAIN Idle /\ HookOK(memory, pc[g], job[g])
        BY DEF HookInv, Hooks
      <4> QED BY <4>1, <4>2, <1>2, <1>4 DEF HookOK
    <3> QED BY <3>1, <3>2
  <2> QED BY <2>1, <2>2 DEF Hooks, HookOK
<1>9. RerunIsNoOp'
  <2> SUFFICES ASSUME NEW i \in 1..(N + 1), NEW k \in 1..(N + 1), i # k,
                      memory'[i].ns = memory'[k].ns, memory'[i].body = memory'[k].body,
                      memory'[i].kept
               PROVE  i \notin memory'[k].before
    BY <1>4 DEF RerunIsNoOp
  <2>1. CASE i = N + 1
    <3>1. memory'[k].before \subseteq 1..(k - 1)
      BY <1>4, <1>7 DEF Rows
    <3> QED BY <2>1, <3>1
  <2>2. CASE i \in 1..N /\ k \in 1..N
    BY <2>2, <1>2, <1>4 DEF HookInv, RerunIsNoOp
  <2>3. CASE i \in 1..N /\ k = N + 1
    BY <2>3, <1>4, <1>5, <1>6
  <2> QED BY <2>1, <2>2, <2>3, <1>4
<1> QED BY <1>7, <1>8, <1>9 DEF HookInv

\* No call brings a memory that was forgotten back among those that were kept.
LEMMA MarkStep ==
  ASSUME HookInv, NEW i \in DOMAIN memory, Forget(i) \/ Restore(i) \/ Retire(i)
  PROVE  HookInv'
<1>1. PICK N \in Nat : memory = [k \in 1..N |-> memory[k]]
  BY DEF HookInv, Rows
<1>2. /\ DOMAIN memory = 1..N
      /\ \A k \in 1..N :
           /\ DOMAIN memory[k] = {"ns", "body", "forgotten", "retired", "kept", "before"}
           /\ memory[k].before \subseteq 1..(k - 1)
           /\ memory[k].forgotten \in BOOLEAN /\ memory[k].kept \in BOOLEAN
           /\ memory[k].kept => ~memory[k].forgotten
  BY <1>1 DEF HookInv, Rows
<1>3. UNCHANGED <<pc, job>>
  BY DEF Forget, Restore, Retire, Mark
<1>4. memory' = [k \in 1..N |-> memory'[k]]
  BY <1>1 DEF Forget, Restore, Retire, Mark
<1>5. ASSUME NEW k \in 1..N
      PROVE  /\ DOMAIN memory'[k] = {"ns", "body", "forgotten", "retired", "kept", "before"}
             /\ memory'[k].ns = memory[k].ns /\ memory'[k].body = memory[k].body
             /\ memory'[k].before = memory[k].before
             /\ memory'[k].forgotten \in BOOLEAN /\ memory'[k].kept \in BOOLEAN
             /\ memory'[k].kept => memory[k].kept /\ ~memory'[k].forgotten
  <2>1. CASE Forget(i)
    <3>1. memory' = [memory EXCEPT ![i] = [memory[i] EXCEPT !.forgotten = TRUE, !.kept = FALSE]]
      BY <2>1 DEF Forget, Mark
    <3> QED BY <3>1, <1>2
  <2>2. CASE Restore(i)
    <3>1. memory' = [memory EXCEPT ![i] = [memory[i] EXCEPT !.forgotten = FALSE]]
      BY <2>2 DEF Restore, Mark
    <3> QED BY <3>1, <1>2
  <2>3. CASE Retire(i)
    <3>1. memory' = [memory EXCEPT ![i] = [memory[i] EXCEPT !.retired = TRUE]]
      BY <2>3 DEF Retire, Mark
    <3> QED BY <3>1, <1>2
  <2> QED BY <2>1, <2>2, <2>3
<1>6. DOMAIN memory' = 1..N
  BY <1>4
<1>7. Rows'
  BY <1>2, <1>4, <1>5, <1>6 DEF Rows
<1>8. Hooks'
  <2>1. ASSUME NEW h \in Hook
        PROVE  DOMAIN job[h] = DOMAIN Idle /\ HookOK(memory', pc[h], job[h])
    <3>1. DOMAIN job[h] = DOMAIN Idle /\ HookOK(memory, pc[h], job[h])
      BY DEF HookInv, Hooks
    <3> QED BY <3>1, <1>2, <1>3, <1>5, <1>6 DEF HookOK
  <2> QED BY <2>1, <1>3 DEF HookInv, Hooks, HookOK
<1>9. RerunIsNoOp'
  BY <1>2, <1>5, <1>6 DEF HookInv, RerunIsNoOp
<1> QED BY <1>7, <1>8, <1>9 DEF HookInv

\* The invariant is what a run checks, and what ties a hook that goes on to save
\* to the memories it could have found.
LEMMA HookInitOK ==
  ASSUME IngestInit
  PROVE  HookInv
<1>1. memory = [i \in 1..0 |-> memory[i]]
  BY DEF IngestInit
<1>2. DOMAIN memory = {}
  BY <1>1
<1>3. Rows /\ RerunIsNoOp
  BY <1>1, <1>2 DEF Rows, RerunIsNoOp
<1>4. Hooks
  BY DEF IngestInit, Hooks, HookOK
<1> QED BY <1>3, <1>4 DEF HookInv

LEMMA HookNextOK ==
  ASSUME HookInv, [IngestNext]_ingestVars
  PROVE  HookInv'
<1>1. ASSUME NEW h \in Hook, NEW s \in Session, NEW own \in Project, Start(h, s, own)
      PROVE  HookInv'
  BY <1>1, StartStep
<1>2. ASSUME NEW h \in Hook, Take(h) \/ Look(h) \/ Save(h)
      PROVE  HookInv'
  BY <1>2, TakeStep, LookStep, SaveStep
<1>3. ASSUME NEW h \in Hook, Fail(h)
      PROVE  HookInv'
  BY <1>3, EndStep DEF Fail
<1>4. CASE \E i \in DOMAIN memory : Forget(i) \/ Restore(i) \/ Retire(i)
  BY <1>4, MarkStep
<1>5. CASE UNCHANGED <<memory, pc, job>>
  BY <1>5 DEF HookInv, Rows, Hooks, HookOK, RerunIsNoOp
<1> QED BY <1>1, <1>2, <1>3, <1>4, <1>5 DEF IngestNext, Compact, Continue, ingestVars

\* "Re-running the hook on the same summary is a no-op" (README.md): a hook that
\* starts when its summary is stored in its project stores it again only if it
\* was forgotten, however many hooks run beside it and wherever they are killed.
THEOREM RerunStoresNothing == IngestSpec => []RerunIsNoOp
<1>1. IngestInit => HookInv
  BY HookInitOK
<1>2. HookInv /\ [IngestNext]_ingestVars => HookInv'
  BY HookNextOK
<1>3. HookInv => RerunIsNoOp
  BY DEF HookInv
<1> QED BY <1>1, <1>2, <1>3, PTL DEF IngestSpec

-----------------------------------------------------------------------------
(* Which summary a hook that ends well leaves behind.                      *)

Line == [number : Nat, shape : {"raw", "continued"}, kind : {"summary", "stub", "blank"}]

\* Entries are written in the order of the summaries they hold.
Transcripts ==
  /\ written \in Nat /\ transcript \in [Session -> Seq(Line)]
  /\ \A s \in Session : \A k \in DOMAIN transcript[s] :
       /\ transcript[s][k].number <= written
       /\ \A m \in DOMAIN transcript[s] :
            k <= m => transcript[s][k].number <= transcript[s][m].number

\* What a hook holds, given the transcripts: what was last when it started is
\* still there, its payload and its body come from its session and are no older,
\* and its project is the one its payload named.
HoldsOK(tr, p, j) ==
  p \in {"take", "look", "save"} =>
    /\ j.session \in Session /\ j.due \in Nat
    /\ j.told => j.ns = DirOf[j.session]
    /\ j.due = 0 \/ \E k \in WithText(tr[j.session]) : tr[j.session][k].number = j.due
    /\ p = "take" =>
         \/ j.given = Absent
         \/ \E k \in DOMAIN tr[j.session] :
              j.given = tr[j.session][k] /\ j.given.number >= j.due
    /\ p # "take" =>
         \E k \in DOMAIN tr[j.session] :
           j.body = Strip(tr[j.session][k]) /\ j.body.number >= j.due

Holds == \A h \in Hook : HoldsOK(transcript, pc[h], job[h])

RecordInv == HookInv /\ Transcripts /\ Holds

\* A set of numbers that has one has a least.
LEMMA Least ==
  ASSUME NEW S \in SUBSET Nat, S # {}
  PROVE  \E x \in S : \A y \in S : x <= y
<1> DEFINE Less == {ss \in Nat \X Nat : ss[1] < ss[2]}
<1>1. IsWellFoundedOn(Less, Nat)
  BY NatLessThanWellFounded, Zenon DEF OpToRel
<1>2. PICK x \in S : \A y \in S : ~(<<y, x>> \in Less)
  <2> HIDE DEF Less
  <2> QED BY <1>1, WFMin
<1>3. ASSUME NEW y \in S
      PROVE  x <= y
  <2>1. <<y, x>> \notin Less
    BY <1>2
  <2>2. ~(y < x)
    BY <2>1
  <2> QED BY <2>2
<1> QED BY <1>3

LEMMA LineIs ==
  ASSUME NEW t \in Seq(Line), NEW k \in DOMAIN t
  PROVE  /\ k \in 1..Len(t) /\ Len(t) \in Nat
         /\ t[k] \in Line /\ t[k].number \in Nat
<1>1. k \in 1..Len(t) /\ Len(t) \in Nat
  BY LenProperties
<1>2. t[k] \in Line
  BY <1>1, ElementOfSeq
<1> QED BY <1>1, <1>2 DEF Line

\* The last entry with text, if there is one, has the highest number of them.
LEMMA LastIs ==
  ASSUME NEW t \in Seq(Line), WithText(t) # {},
         \A k, m \in DOMAIN t : k <= m => t[k].number <= t[m].number
  PROVE  \E k \in WithText(t) :
           /\ LastWithText(t) = t[k]
           /\ \A m \in WithText(t) : t[m].number <= t[k].number
<1> DEFINE W == WithText(t)
<1>1. W \subseteq 1..Len(t) /\ Len(t) \in Nat /\ DOMAIN t = 1..Len(t)
  BY LenProperties DEF WithText
<1>2. \E x \in W : \A y \in W : x >= y
  <2> DEFINE B == {b \in Nat : \A y \in W : y <= b}
  <2>1. B \subseteq Nat /\ Len(t) \in B
    BY <1>1
  <2>2. PICK b \in B : \A c \in B : b <= c
    <3> HIDE DEF B
    <3> QED BY <2>1, Least
  <2>3. b \in W
    <3>1. SUFFICES ASSUME b \notin W PROVE FALSE
      OBVIOUS
    <3>2. PICK w \in W : TRUE
      OBVIOUS
    <3>3. b - 1 \in Nat /\ \A y \in W : y <= b - 1
      <4> HIDE DEF W
      <4> QED BY <1>1, <3>1, <3>2
    <3>4. b - 1 \in B
      BY <3>3
    <3> QED BY <2>2, <3>4
  <2> QED BY <2>3, <1>1
<1>3. Max(W) \in W /\ \A y \in W : y <= Max(W)
  <2> HIDE DEF W
  <2>1. Max(W) \in W /\ \A y \in W : Max(W) >= y
    BY <1>2 DEF Max
  <2> QED BY <1>1, <2>1
<1>4. LastWithText(t) = t[Max(W)]
  BY DEF LastWithText
<1>5. W \subseteq DOMAIN t
  BY <1>1
<1> HIDE DEF W
<1> QED BY <1>3, <1>4, <1>5 DEF W

\* What is due is nothing, or an entry with text.
LEMMA NewestIs ==
  ASSUME NEW t \in Seq(Line),
         \A k, m \in DOMAIN t : k <= m => t[k].number <= t[m].number
  PROVE  /\ Newest(t) \in Nat
         /\ \/ Newest(t) = 0
            \/ \E k \in WithText(t) : t[k].number = Newest(t)
<1> DEFINE N == {0} \cup {t[k].number : k \in WithText(t)}
<1>1. Newest(t) = Max(N)
  BY DEF Newest
<1>2. \A k \in WithText(t) : t[k].number \in Nat
  BY LineIs DEF WithText
<1>3. \E x \in N : \A y \in N : x >= y
  <2>1. CASE WithText(t) = {}
    BY <2>1
  <2>2. CASE WithText(t) # {}
    <3>1. PICK k \in WithText(t) : \A m \in WithText(t) : t[m].number <= t[k].number
      BY <2>2, LastIs
    <3>2. t[k].number \in N /\ \A y \in N : t[k].number >= y
      BY <1>2, <3>1
    <3> QED BY <3>2
  <2> QED BY <2>1, <2>2
<1>4. Max(N) \in N
  <2> HIDE DEF N
  <2> QED BY <1>3 DEF Max
<1>5. \A n \in N : n = 0 \/ \E k \in WithText(t) : t[k].number = n
  OBVIOUS
<1> HIDE DEF N
<1>6. Max(N) \in Nat
  BY <1>2, <1>4, <1>5
<1> QED BY <1>1, <1>4, <1>5, <1>6

\* A step that keeps the entries there are.
LEMMA Grows ==
  ASSUME NEW tr, NEW tq, NEW p, NEW j, HoldsOK(tr, p, j),
         \A s \in Session : \A k \in DOMAIN tr[s] : k \in DOMAIN tq[s] /\ tq[s][k] = tr[s][k]
  PROVE  HoldsOK(tq, p, j)
<1>1. \A s \in Session : \A k \in WithText(tr[s]) : k \in WithText(tq[s])
  BY DEF WithText
<1>2. \A s \in Session : \A k \in WithText(tr[s]) : tq[s][k] = tr[s][k]
  BY DEF WithText
<1> QED BY <1>1, <1>2 DEF HoldsOK

\* A step of the client.
LEMMA WriteStep ==
  ASSUME RecordInv, Transcripts', UNCHANGED <<memory, pc, job>>,
         \A s \in Session : \A k \in DOMAIN transcript[s] :
           k \in DOMAIN transcript'[s] /\ transcript'[s][k] = transcript[s][k]
  PROVE  RecordInv'
<1>1. HookInv'
  BY DEF RecordInv, HookInv, Rows, Hooks, HookOK, RerunIsNoOp
<1>2. Holds'
  <2>1. ASSUME NEW h \in Hook
        PROVE  HoldsOK(transcript', pc[h], job[h])
    <3>1. HoldsOK(transcript, pc[h], job[h])
      BY DEF RecordInv, Holds
    <3> QED BY <3>1, Grows
  <2> QED BY <2>1 DEF Holds, HoldsOK
<1> QED BY <1>1, <1>2 DEF RecordInv

LEMMA CompactStep ==
  ASSUME RecordInv, NEW s \in Session, NEW kind \in {"summary", "stub", "blank"},
         Compact(s, kind)
  PROVE  RecordInv'
<1> DEFINE e == [number |-> written + 1, shape |-> "raw", kind |-> kind]
           t == transcript[s]
<1>1. /\ written \in Nat /\ transcript \in [Session -> Seq(Line)] /\ t \in Seq(Line)
      /\ \A k \in DOMAIN t : t[k].number <= written
      /\ \A k, m \in DOMAIN t : k <= m => t[k].number <= t[m].number
  BY DEF RecordInv, Transcripts
<1>2. /\ written' = written + 1 /\ UNCHANGED <<memory, pc, job>>
      /\ transcript' = [transcript EXCEPT ![s] = Append(t, e)]
  BY DEF Compact
<1>3. e \in Line /\ e.number = written + 1
  BY <1>1 DEF Line
<1> HIDE DEF e
<1>4. /\ Append(t, e) \in Seq(Line) /\ DOMAIN t = 1..Len(t) /\ Len(t) \in Nat
      /\ DOMAIN Append(t, e) = 1..(Len(t) + 1)
      /\ \A k \in 1..Len(t) : Append(t, e)[k] = t[k]
      /\ Append(t, e)[Len(t) + 1] = e
  BY <1>1, <1>3, AppendProperties, LenProperties
<1>5. /\ transcript' \in [Session -> Seq(Line)] /\ transcript'[s] = Append(t, e)
      /\ \A r \in Session \ {s} : transcript'[r] = transcript[r]
  BY <1>1, <1>2, <1>4
<1>6. ASSUME NEW r \in Session, NEW k \in DOMAIN transcript'[r]
      PROVE  /\ transcript'[r][k].number <= written'
             /\ \A m \in DOMAIN transcript'[r] :
                  k <= m => transcript'[r][k].number <= transcript'[r][m].number
  <2>1. CASE r # s
    <3>1. transcript'[r] = transcript[r] /\ transcript[r] \in Seq(Line)
      BY <1>1, <1>5, <2>1
    <3>2. transcript[r][k].number \in Nat
      BY <3>1, LineIs
    <3>3. /\ transcript[r][k].number <= written
          /\ \A m \in DOMAIN transcript[r] :
               k <= m => transcript[r][k].number <= transcript[r][m].number
      BY <3>1 DEF RecordInv, Transcripts
    <3> QED BY <1>1, <1>2, <3>1, <3>2, <3>3
  <2>2. CASE r = s
    <3>1. \A i \in 1..Len(t) : t[i].number \in Nat
      BY <1>1, <1>4, LineIs
    <3>2. DOMAIN transcript'[r] = 1..(Len(t) + 1) /\ transcript'[r] = Append(t, e)
      BY <1>4, <1>5, <2>2
    <3>3. \A i \in 1..(Len(t) + 1) : i \in 1..Len(t) \/ i = Len(t) + 1
      BY <1>4
    <3>4. \A i \in 1..(Len(t) + 1) : Append(t, e)[i].number <= written + 1
      BY <1>1, <1>3, <1>4, <3>1, <3>3
    <3>5. ASSUME NEW m \in 1..(Len(t) + 1), k <= m
          PROVE  Append(t, e)[k].number <= Append(t, e)[m].number
      <4>1. CASE m = Len(t) + 1
        BY <1>3, <1>4, <3>2, <3>4, <4>1
      <4>2. CASE m # Len(t) + 1
        <5>1. m \in 1..Len(t) /\ k \in 1..Len(t)
          BY <1>4, <3>2, <3>3, <3>5, <4>2
        <5> QED BY <1>1, <1>4, <3>5, <5>1
      <4> QED BY <4>1, <4>2
    <3> QED BY <1>2, <3>2, <3>4, <3>5
  <2> QED BY <2>1, <2>2
<1>7. Transcripts'
  BY <1>1, <1>2, <1>5, <1>6 DEF Transcripts
<1>8. \A r \in Session : \A k \in DOMAIN transcript[r] :
        k \in DOMAIN transcript'[r] /\ transcript'[r][k] = transcript[r][k]
  BY <1>4, <1>5
<1> QED BY <1>2, <1>7, <1>8, WriteStep

LEMMA ContinueStep ==
  ASSUME RecordInv, NEW s \in Session, NEW from \in Session, Continue(s, from)
  PROVE  RecordInv'
<1> DEFINE t == transcript[from]
           e == [Last(t) EXCEPT !.shape = "continued"]
<1>1. /\ written \in Nat /\ transcript \in [Session -> Seq(Line)] /\ t \in Seq(Line)
      /\ \A k \in DOMAIN t : t[k].number <= written
  BY DEF RecordInv, Transcripts
<1>2. /\ transcript[s] = <<>> /\ t # <<>>
      /\ UNCHANGED <<written, memory, pc, job>>
      /\ transcript' = [transcript EXCEPT ![s] = <<e>>]
  BY DEF Continue
<1>3. e \in Line /\ e.number <= written
  <2>1. Len(t) \in 1..Len(t) /\ DOMAIN t = 1..Len(t)
    BY <1>1, <1>2, EmptySeq, LenProperties
  <2>2. t[Len(t)] \in Line /\ t[Len(t)].number <= written
    BY <1>1, <2>1, ElementOfSeq
  <2> QED BY <2>2 DEF Line, Last
<1> HIDE DEF e
<1>4. <<e>> \in Seq(Line) /\ DOMAIN <<e>> = {1} /\ <<e>>[1] = e /\ DOMAIN transcript[s] = {}
  BY <1>2, <1>3
<1>5. /\ transcript' \in [Session -> Seq(Line)] /\ transcript'[s] = <<e>>
      /\ \A r \in Session \ {s} : transcript'[r] = transcript[r]
  BY <1>1, <1>2, <1>4
<1>6. ASSUME NEW r \in Session, NEW k \in DOMAIN transcript'[r]
      PROVE  /\ transcript'[r][k].number <= written'
             /\ \A m \in DOMAIN transcript'[r] :
                  k <= m => transcript'[r][k].number <= transcript'[r][m].number
  <2>1. CASE r # s
    BY <1>2, <1>5, <2>1 DEF RecordInv, Transcripts
  <2>2. CASE r = s
    <3>1. e.number \in Nat
      BY <1>3 DEF Line
    <3> QED BY <1>2, <1>3, <1>4, <1>5, <2>2, <3>1
  <2> QED BY <2>1, <2>2
<1>7. Transcripts'
  BY <1>1, <1>2, <1>5, <1>6 DEF Transcripts
<1>8. \A r \in Session : \A k \in DOMAIN transcript[r] :
        k \in DOMAIN transcript'[r] /\ transcript'[r][k] = transcript[r][k]
  BY <1>4, <1>5
<1> QED BY <1>2, <1>7, <1>8, WriteStep

\* A step of one hook.
LEMMA HoldStep ==
  ASSUME RecordInv, HookInv', UNCHANGED <<transcript, written>>, NEW h \in Hook,
         \A g \in Hook \ {h} : pc'[g] = pc[g] /\ job'[g] = job[g],
         HoldsOK(transcript, pc'[h], job'[h])
  PROVE  RecordInv'
<1>1. Transcripts'
  BY DEF RecordInv, Transcripts
<1>2. ASSUME NEW g \in Hook
      PROVE  HoldsOK(transcript', pc'[g], job'[g])
  <2>1. CASE g = h
    BY <2>1 DEF HoldsOK
  <2>2. CASE g # h
    <3>1. pc'[g] = pc[g] /\ job'[g] = job[g] /\ transcript' = transcript
      BY <2>2
    <3> QED BY <3>1 DEF RecordInv, Holds
  <2> QED BY <2>1, <2>2
<1> QED BY <1>1, <1>2 DEF RecordInv, Holds, HoldsOK

\* Where a hook goes, and with what.
LEMMA WentTo ==
  ASSUME HookInv, NEW h \in Hook, NEW label, NEW j, Goto(h, label, j)
  PROVE  /\ pc'[h] = label /\ job'[h] = j
         /\ \A g \in Hook \ {h} : pc'[g] = pc[g] /\ job'[g] = job[g]
BY DEF Goto, HookInv, Hooks

LEMMA EndHolds ==
  ASSUME RecordInv, HookInv', UNCHANGED <<transcript, written>>, NEW h \in Hook,
         NEW label \in {"skipped", "present", "failed", "stored"}, End(h, label)
  PROVE  RecordInv'
<1>1. /\ pc'[h] = label
      /\ \A g \in Hook \ {h} : pc'[g] = pc[g] /\ job'[g] = job[g]
  BY WentTo DEF End, RecordInv
<1>2. HoldsOK(transcript, pc'[h], job'[h])
  BY <1>1 DEF HoldsOK
<1> QED BY <1>1, <1>2, HoldStep

LEMMA StartHolds ==
  ASSUME RecordInv, HookInv', NEW h \in Hook, NEW s \in Session, NEW own \in Project,
         Start(h, s, own)
  PROVE  RecordInv'
<1>1. PICK cwd \in {DirOf[s], Absent}, pinned \in BOOLEAN,
           given \in {LastWithText(transcript[s]), Absent} :
        Goto(h, "take",
          [Idle EXCEPT !.session = s, !.given = given,
                           !.ns = Namespace(cwd, own, pinned),
                           !.told = cwd # Absent /\ ~pinned,
                           !.due = Newest(transcript[s]),
                           !.before = DOMAIN memory])
  BY DEF Start
<1>2. UNCHANGED <<transcript, written>>
  BY DEF Start
<1> DEFINE j == job'[h]
<1>3. /\ pc'[h] = "take"
      /\ \A g \in Hook \ {h} : pc'[g] = pc[g] /\ job'[g] = job[g]
      /\ job'[h] = [Idle EXCEPT !.session = s, !.given = given,
                           !.ns = Namespace(cwd, own, pinned),
                           !.told = cwd # Absent /\ ~pinned,
                           !.due = Newest(transcript[s]),
                           !.before = DOMAIN memory]
  BY <1>1, WentTo DEF RecordInv
<1>4. /\ j.session = s /\ j.given = given /\ j.ns = Namespace(cwd, own, pinned)
      /\ j.told = (cwd # Absent /\ ~pinned) /\ j.due = Newest(transcript[s])
  BY <1>3 DEF Idle
<1> HIDE DEF j
<1>5. j.told => j.ns = DirOf[s]
  BY <1>4 DEF Namespace
<1>6. /\ transcript[s] \in Seq(Line)
      /\ \A k, m \in DOMAIN transcript[s] :
           k <= m => transcript[s][k].number <= transcript[s][m].number
  BY DEF RecordInv, Transcripts
<1>7. /\ j.due \in Nat
      /\ j.due = 0 \/ \E k \in WithText(transcript[s]) : transcript[s][k].number = j.due
  BY <1>4, <1>6, NewestIs
<1>8. \/ j.given = Absent
      \/ \E k \in DOMAIN transcript[s] :
           j.given = transcript[s][k] /\ j.given.number >= j.due
  <2>1. CASE WithText(transcript[s]) = {}
    BY <1>4, <2>1 DEF LastWithText
  <2>2. CASE WithText(transcript[s]) # {} /\ given # Absent
    <3>1. PICK k \in WithText(transcript[s]) :
            /\ given = transcript[s][k]
            /\ \A m \in WithText(transcript[s]) :
                 transcript[s][m].number <= transcript[s][k].number
      BY <1>6, <2>2, LastIs
    <3>2. k \in DOMAIN transcript[s] /\ transcript[s][k].number \in Nat
      BY <1>6, LineIs DEF WithText
    <3> QED BY <1>4, <1>7, <3>1, <3>2
  <2> QED BY <1>4, <2>1, <2>2
<1>9. HoldsOK(transcript, "take", j)
  BY <1>4, <1>5, <1>7, <1>8 DEF HoldsOK
<1> QED BY <1>2, <1>3, <1>9, HoldStep DEF j

LEMMA TakeHolds ==
  ASSUME RecordInv, HookInv', NEW h \in Hook, Take(h)
  PROVE  RecordInv'
<1> DEFINE j == job[h]
           t == transcript[j.session]
           e == IF j.given # Absent THEN j.given ELSE LastWithText(t)
<1>1. pc[h] = "take" /\ UNCHANGED <<transcript, written>>
  BY DEF Take
<1>2. CASE e = Absent \/ e.kind = "stub"
  BY <1>1, <1>2, EndHolds DEF Take
<1>3. CASE ~(e = Absent \/ e.kind = "stub")
  <2>1. Goto(h, "look", [j EXCEPT !.given = Absent, !.body = Strip(e)])
    BY <1>3 DEF Take
  <2>2. HoldsOK(transcript, "take", j)
    BY <1>1 DEF RecordInv, Holds
  <2>3. \E k \in DOMAIN t : e = t[k] /\ e.number >= j.due
    <3>1. CASE j.given # Absent
      BY <2>2, <3>1 DEF HoldsOK
    <3>2. CASE j.given = Absent
      <4>1. /\ t \in Seq(Line)
            /\ \A k, m \in DOMAIN t : k <= m => t[k].number <= t[m].number
        BY <2>2 DEF RecordInv, Transcripts, HoldsOK
      <4>2. WithText(t) # {}
        BY <1>3, <3>2 DEF LastWithText
      <4>3. PICK k \in WithText(t) :
              e = t[k] /\ \A m \in WithText(t) : t[m].number <= t[k].number
        BY <3>2, <4>1, <4>2, LastIs
      <4>4. k \in DOMAIN t /\ t[k].number \in Nat
        BY <4>1, LineIs DEF WithText
      <4>5. t[k].number >= j.due
        BY <2>2, <4>3, <4>4 DEF HoldsOK
      <4> QED BY <4>3, <4>4, <4>5
    <3> QED BY <3>1, <3>2
  <2> HIDE DEF e
  <2>4. /\ pc'[h] = "look"
        /\ \A g \in Hook \ {h} : pc'[g] = pc[g] /\ job'[g] = job[g]
        /\ job'[h] = [j EXCEPT !.given = Absent, !.body = Strip(e)]
    BY <2>1, WentTo DEF RecordInv
  <2>5. /\ job'[h].session = j.session /\ job'[h].due = j.due /\ job'[h].told = j.told
        /\ job'[h].ns = j.ns /\ job'[h].body = Strip(e)
    BY <2>4 DEF RecordInv, HookInv, Hooks, Idle
  <2>6. Strip(e).number = e.number
    BY DEF Strip
  <2>7. HoldsOK(transcript, "look", job'[h])
    BY <2>2, <2>3, <2>5, <2>6 DEF HoldsOK
  <2> QED BY <1>1, <2>4, <2>7, HoldStep
<1> QED BY <1>2, <1>3

LEMMA LookHolds ==
  ASSUME RecordInv, HookInv', NEW h \in Hook, Look(h)
  PROVE  RecordInv'
<1>1. pc[h] = "look" /\ UNCHANGED <<transcript, written>>
  BY DEF Look
<1>2. CASE Stored(job[h].ns, job[h].body) # {}
  BY <1>1, <1>2, EndHolds DEF Look
<1>3. CASE Stored(job[h].ns, job[h].body) = {}
  <2>1. /\ pc'[h] = "save" /\ job'[h] = job[h]
        /\ \A g \in Hook \ {h} : pc'[g] = pc[g] /\ job'[g] = job[g]
    BY <1>3, WentTo DEF Look, RecordInv
  <2>2. HoldsOK(transcript, "look", job[h])
    BY <1>1 DEF RecordInv, Holds
  <2>3. HoldsOK(transcript, "save", job[h])
    BY <2>2 DEF HoldsOK
  <2> QED BY <1>1, <2>1, <2>3, HoldStep
<1> QED BY <1>2, <1>3

LEMMA RecordNext ==
  ASSUME RecordInv, [IngestNext]_ingestVars
  PROVE  RecordInv'
<1>1. HookInv'
  BY HookNextOK DEF RecordInv
<1>2. ASSUME NEW h \in Hook, NEW s \in Session, NEW own \in Project, Start(h, s, own)
      PROVE  RecordInv'
  BY <1>1, <1>2, StartHolds
<1>3. ASSUME NEW h \in Hook, Take(h) \/ Look(h)
      PROVE  RecordInv'
  BY <1>1, <1>3, TakeHolds, LookHolds
<1>4. ASSUME NEW h \in Hook, Save(h) \/ Fail(h)
      PROVE  RecordInv'
  BY <1>1, <1>4, EndHolds DEF Save, Fail
<1>5. ASSUME NEW s \in Session, NEW kind \in {"summary", "stub", "blank"}, Compact(s, kind)
      PROVE  RecordInv'
  BY <1>5, CompactStep
<1>6. ASSUME NEW s \in Session, NEW from \in Session, Continue(s, from)
      PROVE  RecordInv'
  BY <1>6, ContinueStep
<1>7. ASSUME NEW i \in DOMAIN memory, Forget(i) \/ Restore(i) \/ Retire(i)
      PROVE  RecordInv'
  <2>1. UNCHANGED <<transcript, written, pc, job>>
    BY <1>7 DEF Forget, Restore, Retire, Mark
  <2> QED BY <1>1, <2>1 DEF RecordInv, Transcripts, Holds, HoldsOK
<1>8. CASE UNCHANGED ingestVars
  BY <1>1, <1>8 DEF ingestVars, RecordInv, Transcripts, Holds, HoldsOK
<1> QED BY <1>2, <1>3, <1>4, <1>5, <1>6, <1>7, <1>8 DEF IngestNext

\* What is left by a step that ends a hook well.
Left(h) ==
  \E i \in DOMAIN memory' :
    /\ ~memory'[i].forgotten
    /\ memory'[i].ns = (IF job[h].told THEN DirOf[job[h].session] ELSE job[h].ns)
    /\ memory'[i].body \in {Strip(e) : e \in ToSet(transcript[job[h].session])}
    /\ memory'[i].body.number >= job[h].due

\* A memory with the body a hook holds, in its project, is one that it leaves.
LEMMA LeavesIt ==
  ASSUME RecordInv, NEW h \in Hook, pc[h] \in {"look", "save"},
         NEW i \in DOMAIN memory', ~memory'[i].forgotten,
         memory'[i].ns = job[h].ns, memory'[i].body = job[h].body
  PROVE  Left(h)
<1>1. HoldsOK(transcript, pc[h], job[h])
  BY DEF RecordInv, Holds
<1>2. job[h].ns = (IF job[h].told THEN DirOf[job[h].session] ELSE job[h].ns)
  BY <1>1 DEF HoldsOK
<1>3. PICK k \in DOMAIN transcript[job[h].session] :
        /\ job[h].body = Strip(transcript[job[h].session][k])
        /\ job[h].body.number >= job[h].due
  BY <1>1 DEF HoldsOK
<1>4. job[h].body \in {Strip(e) : e \in ToSet(transcript[job[h].session])}
  BY <1>3 DEF ToSet
<1> QED BY <1>2, <1>3, <1>4 DEF Left

LEMMA RecordStep ==
  ASSUME RecordInv, [IngestNext]_ingestVars, NEW h \in Hook, EndsWell(h)
  PROVE  Left(h)
<1>1. HookInv /\ pc[h] \notin {"stored", "present"} /\ pc'[h] \in {"stored", "present"}
  BY DEF RecordInv, EndsWell
<1>2. UNCHANGED pc => FALSE
  BY <1>1
<1>3. PICK g \in Hook :
        \/ \E s \in Session, own \in Project : Start(g, s, own)
        \/ Take(g) \/ Look(g) \/ Save(g) \/ Fail(g)
  BY <1>2 DEF IngestNext, ingestVars, Compact, Continue, Forget, Restore, Retire,
              Mark
<1>4. \A label, j : Goto(g, label, j) => g = h /\ pc'[h] = label
  <2>1. ASSUME NEW label, NEW j, Goto(g, label, j)
        PROVE  g = h /\ pc'[h] = label
    BY <1>1, <2>1, WentTo
  <2> QED BY <2>1
<1>5. CASE Save(g)
  <2>1. PICK N \in Nat : memory = [i \in 1..N |-> memory[i]]
    BY <1>1 DEF HookInv, Rows
  <2>2. g = h /\ pc[g] = "save"
    BY <1>4, <1>5 DEF Save, End
  <2> DEFINE new == [ns |-> job[h].ns, body |-> job[h].body, forgotten |-> FALSE, retired |-> FALSE,
                     kept |-> TRUE, before |-> job[h].before]
  <2>3. memory' = [i \in 1..(N + 1) |-> IF i = N + 1 THEN new ELSE memory[i]]
    <3>1. Len(memory) = N
      BY <2>1
    <3> QED BY <1>5, <2>1, <2>2, <3>1 DEF Save
  <2>4. N + 1 \in DOMAIN memory' /\ memory'[N + 1] = new
    BY <2>3
  <2>5. new.ns = job[h].ns /\ new.body = job[h].body /\ new.forgotten = FALSE
    OBVIOUS
  <2> HIDE DEF new
  <2> QED BY <2>2, <2>4, <2>5, LeavesIt
<1>6. CASE Look(g)
  <2>1. pc[g] = "look" /\ UNCHANGED memory
    BY <1>6 DEF Look
  <2>2. Stored(job[g].ns, job[g].body) # {} /\ g = h
    <3>1. CASE Stored(job[g].ns, job[g].body) # {}
      BY <1>4, <1>6, <3>1 DEF Look, End
    <3>2. CASE Stored(job[g].ns, job[g].body) = {}
      <4>1. pc'[h] = "save"
        BY <1>4, <1>6, <3>2 DEF Look
      <4> QED BY <1>1, <4>1
    <3> QED BY <3>1, <3>2
  <2>3. PICK i \in DOMAIN memory :
          memory[i].ns = job[h].ns /\ memory[i].body = job[h].body /\ ~memory[i].forgotten
    BY <2>2 DEF Stored
  <2> QED BY <2>1, <2>2, <2>3, LeavesIt
<1>7. CASE Take(g)
  <2>1. pc'[h] = "skipped" \/ pc'[h] = "look"
    BY <1>4, <1>7 DEF Take, End
  <2> QED BY <1>1, <2>1
<1>8. CASE Fail(g)
  <2>1. pc'[h] = "failed"
    BY <1>4, <1>8 DEF Fail, End
  <2> QED BY <1>1, <2>1
<1>9. CASE \E s \in Session, own \in Project : Start(g, s, own)
  <2>1. pc'[h] = "take"
    BY <1>4, <1>9 DEF Start
  <2> QED BY <1>1, <2>1
<1> QED BY <1>3, <1>5, <1>6, <1>7, <1>8, <1>9

\* "A session that compacted twice must ingest the summary just written, not the
\* first one" (ingest.rs): a hook that ends well leaves a summary of its session,
\* no older than the last one when it started, unforgotten, in the project its
\* payload named, whatever other hooks and callers do meanwhile.
THEOREM NewestRecorded == IngestSpec => Recorded
<1>1. IngestInit => RecordInv
  <2> SUFFICES ASSUME IngestInit PROVE RecordInv
    OBVIOUS
  <2>1. HookInv
    BY HookInitOK
  <2>2. transcript \in [Session -> Seq(Line)]
    BY EmptySeq DEF IngestInit
  <2>3. Transcripts
    BY <2>2 DEF IngestInit, Transcripts
  <2>4. Holds
    BY DEF IngestInit, Holds, HoldsOK
  <2> QED BY <2>1, <2>3, <2>4 DEF RecordInv
<1>2. RecordInv /\ [IngestNext]_ingestVars => RecordInv'
  BY RecordNext
<1>3. RecordInv /\ [IngestNext]_ingestVars
        => [\A h \in Hook : EndsWell(h) => Left(h)]_ingestVars
  <2> SUFFICES ASSUME RecordInv, [IngestNext]_ingestVars, NEW h \in Hook, EndsWell(h)
               PROVE  Left(h)
    OBVIOUS
  <2> QED BY RecordStep
<1> QED BY <1>1, <1>2, <1>3, PTL DEF IngestSpec, Recorded, Left
=============================================================================
