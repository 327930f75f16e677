------------------------- MODULE InputLedgerProofs -------------------------
(***************************************************************************)
(* The types of the reliable-input protocol, and that the outbox always is *)
(* the tail of what was typed: for every number of bytes, sockets and      *)
(* server processes, and for every mishap of the network.  And that input  *)
(* reaches the child in order and once, and is never lost in silence, when *)
(* no frame is typed ahead of its resume, none is read late and every loss *)
(* is heard: for every number of bytes, sockets, processes and reloads.    *)
(***************************************************************************)
EXTENDS InputLedger, SequenceTheorems, TLAPS

-----------------------------------------------------------------------------
(* The inductive invariant.  The outbox stays a tail only because every    *)
(* count a frame carries is a number and every epoch that of a process, so *)
(* the invariant types the wire, the ledgers and the flush pass as well.   *)

Request == [kind : {"input"}, byte : Byte] \cup [kind : {"resume"}, sent : Nat]
Message == [kind : {"ack"}, received : Nat]
             \cup [kind : {"resumeAck"}, received : Nat, lost : BOOLEAN,
                   epoch : 1 .. MaxBoots]

\* The bytes of q are those up to the n-th.
EndsAt(q, n) == \A i \in 1 .. Len(q) : q[i] = n - Len(q) + i

TabInv ==
  /\ typed \in 0 .. MaxInput
  /\ outbox \in Seq(Byte) /\ Len(outbox) <= OutboxCap
  /\ bytesSent \in Nat /\ bytesAcked \in Nat /\ bytesSent <= typed
  /\ Len(outbox) = bytesSent - bytesAcked
  /\ EndsAt(outbox, typed)
  /\ told \subseteq 0 .. MaxInput

LinkInv ==
  /\ lastEpoch \in 0 .. MaxBoots /\ sock \in 0 .. MaxSockets
  /\ phase \in {"down", "open", "acked"} /\ (phase # "down" => sock # 0)

WireInv == up \in [Socket -> Seq(Request)] /\ down \in [Socket -> Seq(Message)]

LedgerInv ==
  /\ boot \in 1 .. MaxBoots
  /\ ledgers \in Seq(Nat) /\ registry \in 0 .. Len(ledgers)
  /\ session \in [Socket -> 0 .. Len(ledgers)]
  /\ handler \in [Socket -> {"none", "reading", "resolved", "wrote", "gone"}]
  /\ resumed \in [Socket -> [received : Nat, lost : BOOLEAN]]
  /\ gen \in [Socket -> Nat] /\ lastAckSent \in [Socket -> Nat]
  /\ dirty \in BOOLEAN

PassInv ==
  /\ DOMAIN pass \subseteq Socket
  /\ \A s \in DOMAIN pass : pass[s].received \in Nat

PtyInv == pty \in Seq(Byte)

IInv == TabInv /\ LinkInv /\ WireInv /\ LedgerInv /\ PassInv /\ PtyInv

tabVars    == <<typed, outbox, bytesSent, bytesAcked, told>>
linkVars   == <<lastEpoch, sock, phase>>
wireVars   == <<up, down>>
ledgerVars == <<boot, registry, ledgers, handler, session, resumed, gen,
                lastAckSent, dirty>>

\* The invariant gives the types and the property the runs check.
LEMMA IInvImplies == IInv => TypeOK /\ OutboxIsTail
<1> SUFFICES ASSUME IInv PROVE TypeOK /\ OutboxIsTail
  OBVIOUS
<1> USE DEF IInv
<1>1. OutboxIsTail
  BY DEF TabInv, EndsAt, OutboxIsTail
<1>2. bytesSent \in 0 .. MaxInput /\ bytesAcked \in 0 .. MaxInput
  BY LedgerAssumption DEF TabInv
<1>3. ToSet(pty) \subseteq Byte
  BY DEF PtyInv, ToSet
<1>4. \A id \in DOMAIN ledgers : ledgers[id] \in Nat
  BY DEF LedgerInv
<1>5. QED
  BY <1>1, <1>2, <1>3, <1>4 DEF TypeOK, TabInv, LinkInv, LedgerInv, PassInv

\* What a step leaves alone keeps its part of the invariant.
LEMMA Untouched ==
  /\ TabInv /\ UNCHANGED tabVars => TabInv'
  /\ LinkInv /\ UNCHANGED linkVars => LinkInv'
  /\ WireInv /\ UNCHANGED wireVars => WireInv'
  /\ LedgerInv /\ UNCHANGED ledgerVars => LedgerInv'
  /\ PassInv /\ UNCHANGED pass => PassInv'
  /\ PtyInv /\ UNCHANGED pty => PtyInv'
<1>1. TabInv /\ UNCHANGED tabVars => TabInv'
  BY DEF TabInv, tabVars
<1>2. LinkInv /\ UNCHANGED linkVars => LinkInv'
  BY DEF LinkInv, linkVars
<1>3. WireInv /\ UNCHANGED wireVars => WireInv'
  BY DEF WireInv, wireVars
<1>4. LedgerInv /\ UNCHANGED ledgerVars => LedgerInv'
  BY DEF LedgerInv, ledgerVars
<1>5. PassInv /\ UNCHANGED pass => PassInv'
  BY DEF PassInv
<1>6. PtyInv /\ UNCHANGED pty => PtyInv'
  BY DEF PtyInv
<1>7. QED
  BY <1>1, <1>2, <1>3, <1>4, <1>5, <1>6

-----------------------------------------------------------------------------
(* The tab.                                                                *)

\* The last k members of a sequence.
LEMMA LastMembers ==
  ASSUME NEW S, NEW q \in Seq(S), NEW k \in 0 .. Len(q)
  PROVE  /\ SubSeq(q, Len(q) - k + 1, Len(q)) \in Seq(S)
         /\ Len(SubSeq(q, Len(q) - k + 1, Len(q))) = k
         /\ \A i \in 1 .. k : SubSeq(q, Len(q) - k + 1, Len(q))[i] = q[Len(q) - k + i]
<1>1. Len(q) \in Nat /\ Len(q) - k + 1 \in Int
  OBVIOUS
<1>2. \A i \in Len(q) - k + 1 .. Len(q) : q[i] \in S
  BY <1>1
<1>3. /\ SubSeq(q, Len(q) - k + 1, Len(q)) \in Seq(S)
      /\ Len(SubSeq(q, Len(q) - k + 1, Len(q))) =
           IF Len(q) - k + 1 <= Len(q) THEN Len(q) - (Len(q) - k + 1) + 1 ELSE 0
      /\ \A i \in 1 .. Len(q) - (Len(q) - k + 1) + 1 :
           SubSeq(q, Len(q) - k + 1, Len(q))[i] = q[(Len(q) - k + 1) + i - 1]
  BY <1>1, <1>2, SubSeqProperties
<1>4. \A i \in 1 .. k : (Len(q) - k + 1) + i - 1 = Len(q) - k + i
  BY <1>1
<1>5. Len(q) - (Len(q) - k + 1) + 1 = k /\ (Len(q) - k + 1 <= Len(q) <=> k > 0)
  BY <1>1
<1>6. Len(SubSeq(q, Len(q) - k + 1, Len(q))) = k
  BY <1>3, <1>5
<1>7. ASSUME NEW i \in 1 .. k
      PROVE  SubSeq(q, Len(q) - k + 1, Len(q))[i] = q[Len(q) - k + i]
  <2>1. i \in 1 .. Len(q) - (Len(q) - k + 1) + 1
    BY <1>5
  <2>2. SubSeq(q, Len(q) - k + 1, Len(q))[i] = q[(Len(q) - k + 1) + i - 1]
    BY <1>3, <2>1
  <2>3. QED
    BY <1>4, <2>2
<1>8. QED
  BY <1>3, <1>6, <1>7

\* So they end where the sequence does.
LEMMA LastMembersEnd ==
  ASSUME NEW n \in Nat, NEW q \in Seq(Nat), EndsAt(q, n), NEW k \in 0 .. Len(q)
  PROVE  EndsAt(SubSeq(q, Len(q) - k + 1, Len(q)), n)
<1>1. Len(q) \in Nat /\ \A i \in 1 .. k : Len(q) - k + i \in 1 .. Len(q)
  OBVIOUS
<1>2. \A i \in 1 .. k : q[Len(q) - k + i] = n - Len(q) + (Len(q) - k + i)
  BY <1>1 DEF EndsAt
<1>3. \A i \in 1 .. k : n - Len(q) + (Len(q) - k + i) = n - k + i
  BY <1>1
<1>4. Len(SubSeq(q, Len(q) - k + 1, Len(q))) = k
  BY LastMembers
<1>5. ASSUME NEW i \in 1 .. k
      PROVE  SubSeq(q, Len(q) - k + 1, Len(q))[i] = n - k + i
  <2>1. SubSeq(q, Len(q) - k + 1, Len(q))[i] = q[Len(q) - k + i]
    BY LastMembers
  <2>2. QED
    BY <1>2, <1>3, <2>1
<1>6. QED
  BY <1>4, <1>5 DEF EndsAt

\* Trimming by any count keeps the newest bytes: what is left is the tail of
\* what was typed, as long as what was sent and not acked.
LEMMA TrimKeepsTail ==
  ASSUME TabInv, NEW n \in Nat
  PROVE  /\ Trimmed(n).acked \in Nat /\ Trimmed(n).rest \in Seq(Byte)
         /\ Len(Trimmed(n).rest) = bytesSent - Trimmed(n).acked
         /\ Len(Trimmed(n).rest) <= OutboxCap
         /\ EndsAt(Trimmed(n).rest, typed)
<1>1. CASE n <= bytesAcked
  <2>1. Trimmed(n).acked = bytesAcked /\ Trimmed(n).rest = outbox
    BY <1>1 DEF Trimmed
  <2>2. QED
    BY <2>1 DEF TabInv
<1>2. CASE n > bytesAcked
  <2> DEFINE acked == IF n < bytesSent THEN n ELSE bytesSent
  <2>1. acked \in Nat /\ bytesSent - acked \in 0 .. Len(outbox)
    BY <1>2 DEF TabInv
  <2>2. Trimmed(n) =
          [acked |-> acked,
           rest  |-> SubSeq(outbox, Len(outbox) - (bytesSent - acked) + 1, Len(outbox))]
    <3>1. ~(n <= bytesAcked)
      BY <1>2 DEF TabInv
    <3>2. QED
      BY <3>1 DEF Trimmed
  <2>3. outbox \in Seq(Byte) /\ outbox \in Seq(Nat) /\ EndsAt(outbox, typed) /\ typed \in Nat
    BY LedgerAssumption DEF TabInv, Byte
  <2> HIDE DEF acked
  <2>4. /\ Trimmed(n).rest \in Seq(Byte) /\ Len(Trimmed(n).rest) = bytesSent - acked
        /\ EndsAt(Trimmed(n).rest, typed)
    BY <2>1, <2>2, <2>3, LastMembers, LastMembersEnd
  <2>5. Len(Trimmed(n).rest) <= OutboxCap
    BY <2>1, <2>4, LedgerAssumption DEF TabInv
  <2>6. QED
    BY <2>1, <2>2, <2>4, <2>5
<1>3. n <= bytesAcked \/ n > bytesAcked
  BY DEF TabInv
<1>4. QED
  BY <1>1, <1>2, <1>3

\* So applying an ack keeps the tab's part of the invariant ...
LEMMA ApplyAckStep ==
  ASSUME TabInv, NEW n \in Nat, ApplyAck(n), UNCHANGED <<typed, bytesSent, told>>
  PROVE  TabInv'
<1>1. /\ bytesAcked' = Trimmed(n).acked /\ outbox' = Trimmed(n).rest
      /\ typed' = typed /\ bytesSent' = bytesSent /\ told' = told
  BY DEF ApplyAck
<1>2. bytesAcked' \in Nat /\ outbox' \in Seq(Byte)
  BY <1>1, TrimKeepsTail
<1>3. Len(outbox') = bytesSent' - bytesAcked' /\ Len(outbox') <= OutboxCap
  BY <1>1, TrimKeepsTail
<1>4. EndsAt(outbox', typed')
  BY <1>1, TrimKeepsTail
<1>5. QED
  BY <1>1, <1>2, <1>3, <1>4 DEF TabInv

\* ... and so does dropping everything.
LEMMA ResetStep ==
  ASSUME TabInv, NEW notify \in BOOLEAN, ResetLedger(notify), UNCHANGED typed
  PROVE  TabInv'
<1>1. ToSet(outbox) \subseteq 0 .. MaxInput
  BY LedgerAssumption DEF ToSet, TabInv, Byte
<1>2. outbox' = <<>> /\ bytesSent' = 0 /\ bytesAcked' = 0 /\ told' \subseteq 0 .. MaxInput
  BY <1>1 DEF ResetLedger, TabInv
<1>3. EndsAt(outbox', typed')
  BY <1>2 DEF EndsAt
<1>4. QED
  BY <1>2, <1>3, LedgerAssumption DEF TabInv

\* Typing appends the next byte.
LEMMA TypeStep == ASSUME TabInv, Type PROVE TabInv'
<1>1. /\ typed + 1 \in Byte /\ typed' = typed + 1 /\ bytesSent' = bytesSent + 1
      /\ outbox' = Append(outbox, typed + 1)
  BY LedgerAssumption DEF TabInv, Type, Byte
<1>2. outbox \in Seq(Byte) /\ Len(outbox) \in Nat /\ Len(outbox) < OutboxCap
  BY DEF TabInv, Type, Room
<1>3. outbox' \in Seq(Byte) /\ Len(outbox') = Len(outbox) + 1
  BY <1>1, <1>2
<1>4. \A i \in 1 .. Len(outbox') :
        outbox'[i] = IF i <= Len(outbox) THEN outbox[i] ELSE typed + 1
  BY <1>1, <1>2, <1>3
<1>5. EndsAt(outbox', typed')
  <2>1. typed \in Nat /\ EndsAt(outbox, typed)
    BY LedgerAssumption DEF TabInv
  <2>2. QED
    BY <1>1, <1>2, <1>3, <1>4, <2>1 DEF EndsAt
<1>6. Len(outbox') <= OutboxCap
  BY <1>2, <1>3, LedgerAssumption
<1>7. typed' \in 0 .. MaxInput /\ bytesSent' \in Nat /\ bytesSent' <= typed'
  BY <1>1, LedgerAssumption DEF TabInv, Byte
<1>8. bytesAcked' = bytesAcked /\ told' = told
  BY DEF Type
<1>9. QED
  BY <1>1, <1>2, <1>3, <1>5, <1>6, <1>7, <1>8 DEF TabInv

-----------------------------------------------------------------------------
(* What goes over the wire.                                                *)

\* A tab that is not down has a socket.
LEMMA SockIsSocket == ASSUME LinkInv, phase # "down" PROVE sock \in Socket
BY LedgerAssumption DEF LinkInv, Socket

\* The tab sends requests.
LEMMA SendStep ==
  ASSUME WireInv, NEW s \in Socket, NEW frames \in Seq(Request), Send(s, frames)
  PROVE  up' \in [Socket -> Seq(Request)]
<1>1. up[s] \o frames \in Seq(Request)
  BY DEF WireInv
<1>2. QED
  BY <1>1 DEF WireInv, Send

\* What arrives at the tab is a message, and consuming it leaves messages.
LEMMA ArrivedIsMessage ==
  ASSUME WireInv, LinkInv, Arriving
  PROVE  /\ Arrived \in Message /\ Arrived.received \in Nat
         /\ Consume => down' \in [Socket -> Seq(Message)]
<1>1. sock \in Socket
  BY SockIsSocket DEF Arriving
<1>2. down[sock] \in Seq(Message) /\ down[sock] # <<>>
  BY <1>1 DEF WireInv, Arriving
<1>3. Head(down[sock]) \in Message /\ Tail(down[sock]) \in Seq(Message)
  BY <1>2
<1>4. QED
  BY <1>1, <1>3 DEF WireInv, Arrived, Consume, Message

\* What a read loop takes is a request, and what it leaves are requests.
LEMMA ReadIsRequest ==
  ASSUME WireInv, NEW s \in Socket, Reading(s)
  PROVE  Head(up[s]) \in Request /\ (Drop(s) => up' \in [Socket -> Seq(Request)])
<1>1. up[s] \in Seq(Request) /\ up[s] # <<>>
  BY DEF WireInv, Reading
<1>2. Head(up[s]) \in Request /\ Tail(up[s]) \in Seq(Request)
  BY <1>1
<1>3. QED
  BY <1>2 DEF WireInv, Drop

\* A socket's count is a number.
LEMMA ReceivedIsNat == ASSUME LedgerInv, NEW s \in Socket PROVE Received(s) \in Nat
BY DEF LedgerInv, Received

\* What a pass delivers is a message.
LEMMA DeliverStep ==
  ASSUME WireInv, NEW s \in Socket, NEW n \in Nat, Deliver(s, n), UNCHANGED up
  PROVE  WireInv'
<1>1. AckFrame(n) \in Message
  BY DEF AckFrame, Message
<1>2. Append(down[s], AckFrame(n)) \in Seq(Message)
  BY <1>1 DEF WireInv
<1>3. down' \in [Socket -> Seq(Message)]
  BY <1>2 DEF WireInv, Deliver
<1>4. QED
  BY <1>3 DEF WireInv

-----------------------------------------------------------------------------
(* The steps of the tab.                                                   *)

\* Every step of the tab keeps the invariant.
LEMMA TabStep ==
  ASSUME IInv, Type \/ Open \/ Abandon \/ Reload \/ RecvAck \/ RecvResumeAck
  PROVE  IInv'
<1> USE DEF IInv
<1>1. CASE Type
  <2>1. TabInv'
    BY <1>1, TypeStep
  <2>2. up' \in [Socket -> Seq(Request)]
    <3>1. CASE phase = "down"
      BY <1>1, <3>1 DEF Type, WireInv
    <3>2. CASE phase # "down"
      <4>1. typed + 1 \in Byte
        BY <1>1, LedgerAssumption DEF Type, TabInv, Byte
      <4>2. <<Input(typed + 1)>> \in Seq(Request)
        BY <4>1 DEF Input, Request
      <4>3. QED
        BY <1>1, <3>2, <4>2, SockIsSocket, SendStep DEF Type
    <3>3. QED
      BY <3>1, <3>2
  <2>3. WireInv'
    BY <1>1, <2>2 DEF Type, WireInv
  <2>4. UNCHANGED <<linkVars, ledgerVars, pass, pty>>
    BY <1>1 DEF Type, server, linkVars, ledgerVars
  <2>5. QED
    BY <2>1, <2>3, <2>4, Untouched
<1>2. CASE Open
  <2>1. sock + 1 \in Socket /\ sock' = sock + 1 /\ phase' = "open" /\ lastEpoch' = lastEpoch
    BY <1>2, LedgerAssumption DEF Open, LinkInv, Socket
  <2>2. LinkInv'
    BY <2>1 DEF LinkInv, Socket
  <2>3. <<Resume(bytesSent)>> \in Seq(Request)
    BY DEF Resume, Request, TabInv
  <2>4. WireInv'
    <3>1. Send(sock + 1, <<Resume(bytesSent)>>) /\ down' = down
      BY <1>2 DEF Open
    <3>2. up' \in [Socket -> Seq(Request)]
      BY <2>1, <2>3, <3>1, SendStep
    <3>3. QED
      BY <3>1, <3>2 DEF WireInv
  <2>5. LedgerInv'
    BY <1>2, <2>1 DEF Open, LedgerInv
  <2>6. UNCHANGED <<tabVars, pass, pty>>
    BY <1>2 DEF Open, tabVars
  <2>7. QED
    BY <2>2, <2>4, <2>5, <2>6, Untouched
<1>3. CASE Abandon
  <2>1. WireInv'
    BY <1>3, SockIsSocket DEF Abandon, WireInv
  <2>2. LinkInv'
    BY <1>3 DEF Abandon, LinkInv
  <2>3. UNCHANGED <<tabVars, ledgerVars, pass, pty>>
    BY <1>3 DEF Abandon, server, tabVars, ledgerVars
  <2>4. QED
    BY <2>1, <2>2, <2>3, Untouched
<1>4. CASE Reload
  <2>1. TabInv'
    <3>1. ToSet(outbox) \subseteq 0 .. MaxInput /\ 0 \in 0 .. MaxInput
      BY LedgerAssumption DEF ToSet, TabInv, Byte
    <3>2. outbox' = <<>> /\ bytesSent' = 0 /\ bytesAcked' = 0 /\ told' \subseteq 0 .. MaxInput
          /\ typed' = typed
      BY <1>4, <3>1 DEF Reload, TabInv
    <3>3. EndsAt(outbox', typed')
      BY <3>2 DEF EndsAt
    <3>4. QED
      BY <3>2, <3>3, LedgerAssumption DEF TabInv
  <2>2. WireInv'
    BY <1>4, SockIsSocket DEF Reload, WireInv
  <2>3. LinkInv'
    BY <1>4, LedgerAssumption DEF Reload, LinkInv
  <2>4. LedgerInv'
    BY <1>4 DEF Reload, LedgerInv
  <2>5. UNCHANGED <<pass, pty>>
    BY <1>4 DEF Reload
  <2>6. QED
    BY <2>1, <2>2, <2>3, <2>4, <2>5, Untouched
<1>5. CASE RecvAck
  <2>1. Arriving /\ Consume /\ ApplyAck(Arrived.received)
    BY <1>5 DEF RecvAck
  <2>2. TabInv'
    BY <1>5, <2>1, ArrivedIsMessage, ApplyAckStep DEF RecvAck
  <2>3. WireInv'
    BY <1>5, <2>1, ArrivedIsMessage DEF RecvAck, WireInv
  <2>4. UNCHANGED <<linkVars, ledgerVars, pass, pty>>
    BY <1>5 DEF RecvAck, server, linkVars, ledgerVars
  <2>5. QED
    BY <2>2, <2>3, <2>4, Untouched
<1>6. CASE RecvResumeAck
  <2>1. Arriving /\ Consume /\ Arrived \in Message /\ Arrived.kind = "resumeAck"
        /\ Arrived.received \in Nat /\ down' \in [Socket -> Seq(Message)]
    BY <1>6, ArrivedIsMessage DEF RecvResumeAck
  <2>2. LinkInv'
    <3>1. Arrived.epoch \in 1 .. MaxBoots
      BY <2>1 DEF Message
    <3>2. lastEpoch' = Arrived.epoch /\ sock' = sock /\ phase' = "acked" /\ phase # "down"
      BY <1>6, <2>1 DEF RecvResumeAck, Arriving
    <3>3. QED
      BY <3>1, <3>2, LedgerAssumption DEF LinkInv
  <2>3. TabInv' /\ up' \in [Socket -> Seq(Request)]
    <3>1. ASSUME NEW notify \in BOOLEAN, ResetLedger(notify), UNCHANGED up, UNCHANGED typed
          PROVE  TabInv' /\ up' \in [Socket -> Seq(Request)]
      BY <3>1, ResetStep DEF WireInv
    <3>2. ASSUME NEW replay, replay = Trimmed(Arrived.received).rest,
                 ApplyAck(Arrived.received),
                 Send(sock, [i \in 1 .. Len(replay) |-> Input(replay[i])]),
                 UNCHANGED <<bytesSent, told>>, UNCHANGED typed
          PROVE  TabInv' /\ up' \in [Socket -> Seq(Request)]
      <4>1. TabInv'
        BY <2>1, <3>2, ApplyAckStep
      <4>2. replay \in Seq(Byte)
        BY <2>1, <3>2, TrimKeepsTail
      <4>3. \A b \in Byte : Input(b) \in Request
        BY DEF Input, Request
      <4>4. Len(replay) \in Nat /\ \A i \in 1 .. Len(replay) : Input(replay[i]) \in Request
        BY <4>2, <4>3
      <4>5. [i \in 1 .. Len(replay) |-> Input(replay[i])] \in Seq(Request)
        BY <4>4
      <4>6. sock \in Socket
        BY <2>1, SockIsSocket DEF Arriving
      <4>7. QED
        BY <3>2, <4>1, <4>5, <4>6, SendStep
    <3>3. typed' = typed
      BY <1>6 DEF RecvResumeAck
    <3>4. (bytesSent > bytesAcked) \in BOOLEAN
      BY DEF TabInv
    <3>5. QED
      BY <1>6, <3>1, <3>2, <3>3, <3>4 DEF RecvResumeAck
  <2>4. WireInv'
    BY <2>1, <2>3 DEF WireInv
  <2>5. UNCHANGED <<ledgerVars, pass, pty>>
    BY <1>6 DEF RecvResumeAck, server, ledgerVars
  <2>6. QED
    BY <2>2, <2>3, <2>4, <2>5, Untouched
<1>7. QED
  BY <1>1, <1>2, <1>3, <1>4, <1>5, <1>6

-----------------------------------------------------------------------------
(* The steps of the server.                                                *)

\* A read loop's steps keep the invariant.
LEMMA ReadLoopStep ==
  ASSUME IInv, NEW s \in Socket,
         ResolveSession(s) \/ SendBatch(s) \/ WritePTY(s) \/ IncrementReceived(s)
           \/ Disconnect(s)
  PROVE  IInv'
<1> USE DEF IInv
<1>1. CASE ResolveSession(s)
  <2>1. WireInv'
    BY <1>1, ReadIsRequest DEF ResolveSession, WireInv
  <2>2. LedgerInv'
    <3> DEFINE created == registry = 0
               id      == IF created THEN Len(ledgers) + 1 ELSE registry
    <3>1. /\ registry' = id
          /\ ledgers' = IF created THEN Append(ledgers, 0) ELSE ledgers
          /\ session' = [session EXCEPT ![s] = id]
          /\ resumed' = [resumed EXCEPT ![s] =
               [received |-> IF created THEN 0 ELSE ledgers[id],
                lost     |-> LedgerLost(created, Head(up[s]).sent)]]
          /\ handler' = [handler EXCEPT ![s] = "resolved"]
          /\ UNCHANGED <<boot, gen, lastAckSent, dirty>>
      BY <1>1 DEF ResolveSession
    <3>2. Head(up[s]) \in Request /\ Head(up[s]).kind = "resume"
      BY <1>1, ReadIsRequest DEF ResolveSession
    <3>3. LedgerLost(created, Head(up[s]).sent) \in BOOLEAN
      BY <3>2 DEF LedgerLost, Request
    <3>4. /\ ledgers' \in Seq(Nat) /\ id \in 0 .. Len(ledgers')
          /\ Len(ledgers) \in Nat /\ Len(ledgers) <= Len(ledgers')
          /\ (IF created THEN 0 ELSE ledgers[id]) \in Nat
      BY <3>1 DEF LedgerInv
    <3> HIDE DEF created, id
    <3>5. session' \in [Socket -> 0 .. Len(ledgers')]
      BY <3>1, <3>4 DEF LedgerInv
    <3>6. resumed' \in [Socket -> [received : Nat, lost : BOOLEAN]]
      BY <3>1, <3>3, <3>4 DEF LedgerInv
    <3>7. QED
      BY <3>1, <3>4, <3>5, <3>6 DEF LedgerInv
  <2>3. UNCHANGED <<tabVars, linkVars, pass, pty>>
    BY <1>1 DEF ResolveSession, tab, tabVars, linkVars
  <2>4. QED
    BY <2>1, <2>2, <2>3, Untouched
<1>2. CASE SendBatch(s)
  <2>1. WireInv'
    <3>1. resumed[s] \in [received : Nat, lost : BOOLEAN]
      BY DEF LedgerInv
    <3>2. ResumeAck(resumed[s], boot) \in Message
      BY <3>1 DEF ResumeAck, Message, LedgerInv
    <3>3. Append(down[s], ResumeAck(resumed[s], boot)) \in Seq(Message)
      BY <3>2 DEF WireInv
    <3>4. QED
      BY <1>2, <3>3 DEF SendBatch, WireInv
  <2>2. LedgerInv'
    <3>1. Unresolved \in [received : Nat, lost : BOOLEAN]
      BY DEF Unresolved
    <3>2. QED
      BY <1>2, <3>1 DEF SendBatch, LedgerInv
  <2>3. UNCHANGED <<tabVars, linkVars, pass, pty>>
    BY <1>2 DEF SendBatch, tab, tabVars, linkVars
  <2>4. QED
    BY <2>1, <2>2, <2>3, Untouched
<1>3. CASE WritePTY(s)
  <2>1. WireInv'
    BY <1>3, ReadIsRequest DEF WritePTY, WireInv
  <2>2. LedgerInv'
    BY <1>3 DEF WritePTY, LedgerInv
  <2>3. PtyInv'
    <3>1. Head(up[s]).byte \in Byte
      BY <1>3, ReadIsRequest DEF WritePTY, Request
    <3>2. QED
      BY <1>3, <3>1 DEF WritePTY, PtyInv
  <2>4. UNCHANGED <<tabVars, linkVars, pass>>
    BY <1>3 DEF WritePTY, tab, tabVars, linkVars
  <2>5. QED
    BY <2>1, <2>2, <2>3, <2>4, Untouched
<1>4. CASE IncrementReceived(s)
  <2>1. LedgerInv'
    <3>1. ledgers' \in Seq(Nat) /\ Len(ledgers') = Len(ledgers)
      BY <1>4 DEF IncrementReceived, LedgerInv
    <3>2. QED
      BY <1>4, <3>1 DEF IncrementReceived, LedgerInv
  <2>2. UNCHANGED <<tabVars, linkVars, wireVars, pass, pty>>
    BY <1>4 DEF IncrementReceived, tab, tabVars, linkVars, wireVars
  <2>3. QED
    BY <2>1, <2>2, Untouched
<1>5. CASE Disconnect(s)
  <2>1. WireInv'
    BY <1>5 DEF Disconnect, WireInv
  <2>2. LedgerInv'
    BY <1>5 DEF Disconnect, LedgerInv
  <2>3. UNCHANGED <<tabVars, linkVars, pass, pty>>
    BY <1>5 DEF Disconnect, tab, tabVars, linkVars
  <2>4. QED
    BY <2>1, <2>2, <2>3, Untouched
<1>6. QED
  BY <1>1, <1>2, <1>3, <1>4, <1>5

\* The scheduler's steps keep the invariant.
LEMMA SchedulerStep ==
  ASSUME IInv,
         Output \/ BuildFrame \/ SweepAcks \/ NoteAcksSent
           \/ \E s \in Socket : WriteFrame(s)
  PROVE  IInv'
<1> USE DEF IInv
<1>1. CASE Output
  <2>1. LedgerInv'
    BY <1>1 DEF Output, LedgerInv
  <2>2. UNCHANGED <<tabVars, linkVars, wireVars, pass, pty>>
    BY <1>1 DEF Output, tab, tabVars, linkVars, wireVars
  <2>3. QED
    BY <2>1, <2>2, Untouched
<1>2. CASE BuildFrame
  <2>1. LedgerInv'
    BY <1>2 DEF BuildFrame, LedgerInv
  <2>2. PassInv'
    BY <1>2, ReceivedIsNat DEF BuildFrame, PassInv, Live
  <2>3. UNCHANGED <<tabVars, linkVars, wireVars, pty>>
    BY <1>2 DEF BuildFrame, tab, tabVars, linkVars, wireVars
  <2>4. QED
    BY <2>1, <2>2, <2>3, Untouched
<1>3. CASE SweepAcks
  <2>1. LedgerInv'
    BY <1>3, ReceivedIsNat DEF SweepAcks, LedgerInv
  <2>2. PassInv'
    BY <1>3, ReceivedIsNat DEF SweepAcks, PassInv, Live
  <2>3. UNCHANGED <<tabVars, linkVars, wireVars, pty>>
    BY <1>3 DEF SweepAcks, tab, tabVars, linkVars, wireVars
  <2>4. QED
    BY <2>1, <2>2, <2>3, Untouched
<1>4. CASE NoteAcksSent
  <2>1. LedgerInv'
    BY <1>4 DEF NoteAcksSent, LedgerInv, PassInv
  <2>2. PassInv'
    BY <1>4 DEF NoteAcksSent, PassInv, Idle
  <2>3. UNCHANGED <<tabVars, linkVars, wireVars, pty>>
    BY <1>4 DEF NoteAcksSent, tab, tabVars, linkVars, wireVars
  <2>4. QED
    BY <2>1, <2>2, <2>3, Untouched
<1>5. ASSUME NEW s \in Socket, WriteFrame(s) PROVE IInv'
  <2>1. pass[s].received \in Nat /\ lastAckSent[s] \in Nat
    BY <1>5 DEF WriteFrame, PassInv, LedgerInv
  <2>2. /\ Deliver(s, pass[s].received) \/ Deliver(s, lastAckSent[s]) \/ UNCHANGED down
        /\ Skip(s) \/ Wrote(s, pass[s].received) \/ Wrote(s, lastAckSent[s])
        /\ UNCHANGED up
    BY <1>5 DEF WriteFrame
  <2>3. WireInv'
    BY <2>1, <2>2, DeliverStep, Untouched DEF wireVars
  <2>4. PassInv'
    BY <2>1, <2>2 DEF Skip, Wrote, PassInv
  <2>5. UNCHANGED <<tabVars, linkVars, ledgerVars, pty>>
    BY <1>5 DEF WriteFrame, tab, tabVars, linkVars, ledgerVars
  <2>6. QED
    BY <2>3, <2>4, <2>5, Untouched
<1>6. QED
  BY <1>1, <1>2, <1>3, <1>4, <1>5

\* Giving up the ledger, or the process, keeps the invariant.
LEMMA LossStep == ASSUME IInv, Forget \/ Restart PROVE IInv'
<1> USE DEF IInv
<1>1. CASE Forget
  <2>1. LedgerInv'
    BY <1>1 DEF Forget, LedgerInv
  <2>2. UNCHANGED <<tabVars, linkVars, wireVars, pass, pty>>
    BY <1>1 DEF Forget, tab, tabVars, linkVars, wireVars
  <2>3. QED
    BY <2>1, <2>2, Untouched
<1>2. CASE Restart
  <2>1. LedgerInv'
    <3>1. Unresolved \in [received : Nat, lost : BOOLEAN]
      BY DEF Unresolved
    <3>2. resumed' \in [Socket -> [received : Nat, lost : BOOLEAN]]
      BY <1>2, <3>1 DEF Restart
    <3>3. ledgers' \in Seq(Nat) /\ registry' \in 0 .. Len(ledgers')
          /\ session' \in [Socket -> 0 .. Len(ledgers')]
      BY <1>2 DEF Restart, LedgerInv
    <3>4. boot' \in 1 .. MaxBoots
          /\ handler' \in [Socket -> {"none", "reading", "resolved", "wrote", "gone"}]
      BY <1>2, LedgerAssumption DEF Restart, LedgerInv
    <3>5. gen' \in [Socket -> Nat] /\ lastAckSent' \in [Socket -> Nat]
          /\ dirty' \in BOOLEAN
      BY <1>2 DEF Restart, LedgerInv
    <3>6. QED
      BY <3>2, <3>3, <3>4, <3>5 DEF LedgerInv
  <2>2. WireInv'
    BY <1>2 DEF Restart, WireInv
  <2>3. PassInv'
    BY <1>2 DEF Restart, PassInv, Idle
  <2>4. UNCHANGED <<tabVars, linkVars, pty>>
    BY <1>2 DEF Restart, tab, tabVars, linkVars
  <2>5. QED
    BY <2>1, <2>2, <2>3, <2>4, Untouched
<1>3. QED
  BY <1>1, <1>2

-----------------------------------------------------------------------------
(* The theorem.                                                            *)

\* A fresh tab and a fresh server.
LEMMA InitIInv == Init => IInv
<1> SUFFICES ASSUME Init PROVE IInv
  OBVIOUS
<1>1. TabInv
  BY LedgerAssumption DEF Init, TabInv, EndsAt
<1>2. LinkInv /\ PtyInv
  BY LedgerAssumption DEF Init, LinkInv, PtyInv
<1>3. WireInv
  BY DEF Init, WireInv
<1>4. LedgerInv
  <2>1. ledgers \in Seq(Nat) /\ registry \in 0 .. Len(ledgers)
        /\ session \in [Socket -> 0 .. Len(ledgers)]
    BY DEF Init
  <2>2. resumed \in [Socket -> [received : Nat, lost : BOOLEAN]]
    BY DEF Init, Unresolved
  <2>3. boot \in 1 .. MaxBoots
    BY LedgerAssumption DEF Init
  <2>4. /\ handler \in [Socket -> {"none", "reading", "resolved", "wrote", "gone"}]
        /\ gen \in [Socket -> Nat] /\ lastAckSent \in [Socket -> Nat]
    BY DEF Init
  <2>5. dirty \in BOOLEAN
    BY DEF Init
  <2>6. QED
    BY <2>1, <2>2, <2>3, <2>4, <2>5 DEF LedgerInv
<1>5. PassInv
  BY DEF Init, PassInv, Idle
<1>6. QED
  BY <1>1, <1>2, <1>3, <1>4, <1>5 DEF IInv

\* Every step, and every stutter.
LEMMA IInvStep == IInv /\ [Next]_vars => IInv'
<1> SUFFICES ASSUME IInv, [Next]_vars PROVE IInv'
  OBVIOUS
<1>1. CASE Next
  BY <1>1, TabStep, ReadLoopStep, SchedulerStep, LossStep DEF Next
<1>2. CASE UNCHANGED vars
  BY <1>2, Untouched
     DEF IInv, vars, tab, server, tabVars, linkVars, wireVars, ledgerVars
<1>3. QED
  BY <1>1, <1>2

\* The types hold, and the outbox is the tail of what was typed, however many
\* sockets, ledgers and processes come and go and whatever the network does.
THEOREM OutboxIsTailAlways == Spec => [](TypeOK /\ OutboxIsTail)
<1>1. QED
  BY InitIInv, IInvStep, IInvImplies, PTL DEF Spec

-----------------------------------------------------------------------------
(* Order, conservation and loss.  What follows holds when no byte is typed *)
(* ahead of a resumeAck, no frame is read late and every loss is heard.    *)

Orderly == Mishaps \subseteq {"reload"}

\* The bytes typed before those the tab's counters are about, and what the ledger
\* under its key has counted.
Base       == typed - bytesSent
Count      == IF registry = 0 THEN 0 ELSE ledgers[registry]
Bytes      == ToSet(pty)
Writing(s) == IF handler[s] = "wrote" THEN 1 ELSE 0
Waiting(s) == handler[s] = "reading" /\ session[s] = 0
Alive(s)   == handler[s] \notin {"none", "gone"}
IsReply(m) == m.kind = "resumeAck"
Counting   == \E s \in Socket : handler[s] = "wrote" /\ session[s] = registry

\* Nothing is on its way into the PTY or into the ledger.
Quiet == \A s \in Socket : Alive(s) => up[s] = <<>> /\ handler[s] # "wrote"

\* A loss is resolved, or told, and the tab has not handled it.
LossPending ==
  /\ phase = "open"
  /\ \/ handler[sock] = "resolved" /\ resumed[sock].lost
     \/ \E i \in 1 .. Len(down[sock]) : IsReply(down[sock][i]) /\ down[sock][i].lost

\* A socket speaks for its ledger only once its resume is read, and by then those
\* before it are silent.
SocketInv ==
  \A s \in Socket :
    /\ (s > sock) <=> (handler[s] = "none")
    /\ handler[s] = "none" => up[s] = <<>>
    /\ handler[s] \in {"none", "gone"} => session[s] = 0
    /\ handler[s] \in {"resolved", "wrote"} => session[s] # 0
    /\ Waiting(s) => Len(up[s]) = 1 /\ up[s][1].kind = "resume"
    /\ session[s] # 0 =>
         /\ \A i \in 1 .. Len(up[s]) : up[s][i].kind = "input"
         /\ \A t \in Socket : t < s /\ Alive(t) => up[t] = <<>> /\ handler[t] # "wrote"
    /\ down[s] # <<>> => s = sock /\ phase # "down"

\* Where the newest socket is, as the tab sees it and as the server does.
PhaseInv ==
  /\ phase # "down" =>
       /\ Waiting(sock) => phase = "open" /\ up[sock][1].sent = bytesSent
       /\ handler[sock] = "resolved" => phase = "open"
       /\ session[sock] # 0 => session[sock] = registry
       /\ \A i \in 1 .. Len(down[sock]) : IsReply(down[sock][i]) =>
            /\ phase = "open"
            /\ ~Waiting(sock) /\ handler[sock] # "resolved"
            /\ \A j \in 1 .. Len(down[sock]) : IsReply(down[sock][j]) => i = j
  /\ phase = "open" /\ session[sock] # 0 => up[sock] = <<>> /\ handler[sock] # "wrote"
  /\ phase = "acked" /\ Alive(sock) => lastEpoch = boot

\* The child's input is in order, and what is on the wire comes after it, in order.
OrderInv ==
  /\ \A b \in Bytes : b <= typed
  /\ \A i, j \in 1 .. Len(pty) : i < j => pty[i] < pty[j]
  /\ \A s \in Socket : session[s] # 0 =>
       /\ \A i \in 1 .. Len(up[s]) :
            up[s][i].byte <= typed /\ \A b \in Bytes : b < up[s][i].byte
       /\ \A i, j \in 1 .. Len(up[s]) : i < j => up[s][i].byte < up[s][j].byte

\* The ledger covers what the child has, and will cover what is on the wire: no
\* count it tells makes the tab send a byte again.
CoverInv ==
  /\ registry # 0 /\ ~LossPending =>
       /\ bytesAcked <= Count
       /\ \A b \in Bytes : b <= Base + Count \/ (Counting /\ b <= Base + Count + 1)
  /\ \A s \in Socket : session[s] # 0 => \A i \in 1 .. Len(up[s]) :
       \/ up[s][i].byte <= Base
       \/ session[s] = registry /\ up[s][i].byte <= Base + Count + Writing(s) + i
  /\ phase = "acked" /\ Alive(sock) =>
       bytesSent <= Count + Writing(sock) + Len(up[sock])

\* A resume that claims nothing is older than everything its ledger will count.
ClaimInv ==
  \A s \in Socket : Waiting(s) /\ up[s][1].sent = 0 =>
    /\ bytesAcked = 0
    /\ \A b \in Bytes : b <= Base
    /\ \A t \in Socket : session[t] # 0 =>
         \A i \in 1 .. Len(up[t]) : up[t][i].byte <= Base

\* No count the scheduler or a batch is about to tell, and none under way to the tab,
\* is ahead of the ledger.
TellInv ==
  /\ \A s \in Socket : handler[s] # "gone" => lastAckSent[s] <= Received(s)
  /\ \A s \in DOMAIN pass : handler[s] # "gone" => pass[s].received <= Received(s)
  /\ \A s \in Socket : handler[s] = "resolved" => resumed[s].received <= Received(s)
AckInv ==
  phase # "down" => \A i \in 1 .. Len(down[sock]) : ~IsReply(down[sock][i]) =>
    \/ down[sock][i].received = 0
    \/ /\ \A s \in Socket : ~Waiting(s)
       /\ registry # 0 => down[sock][i].received <= Count

\* What a resumeAck says is true until the tab has handled it.
Holds(m) ==
  /\ Quiet
  /\ m.lost => m.received = 0
  /\ ~m.lost => bytesAcked <= m.received /\ \A b \in Bytes : b <= Base + m.received
  /\ registry # 0 => Count = m.received
  /\ \A j \in 1 .. Len(down[sock]) : down[sock][j].received <= m.received
  /\ m.epoch # boot => registry = 0 /\ \A s \in Socket : ~Alive(s)
  /\ lastEpoch \notin {0, m.epoch} => m.received = 0
ReplyInv ==
  /\ phase = "open" /\ handler[sock] = "resolved" =>
       resumed[sock].received = Count /\ (resumed[sock].lost => Count = 0)
  /\ phase = "open" => \A i \in 1 .. Len(down[sock]) :
       IsReply(down[sock][i]) => Holds(down[sock][i])

\* A process the tab has not heard of has read no input.
EpochInv ==
  lastEpoch \notin {0, boot} =>
    /\ registry # 0 => Count = 0
    /\ \A s \in Socket : session[s] # 0 => up[s] = <<>> /\ handler[s] # "wrote"

\* As long as the page is not reloaded, the bytes on the wire are exactly those that
\* follow what the ledger has counted.
CountInv ==
  /\ registry # 0 => Count <= bytesSent
  /\ \A s \in Socket : session[s] # 0 =>
       /\ session[s] = registry
       /\ Count + Writing(s) + Len(up[s]) <= bytesSent
       /\ \A i \in 1 .. Len(up[s]) : up[s][i].byte = Base + Count + Writing(s) + i
       /\ handler[s] = "wrote" => Base + Count + 1 \in Bytes

\* Then every count the tab may trim by is of bytes the child has.
Written(n) == \A k \in 1 .. n : Base + k \in Bytes
LossInv ==
  /\ \A b \in 1 .. typed : b \in ToSet(outbox) \cup Bytes \cup told
  /\ registry # 0 => Written(Count)
  /\ phase # "down" => \A i \in 1 .. Len(down[sock]) : Written(down[sock][i].received)

WireOrder == SocketInv /\ PhaseInv /\ OrderInv
Ledger    == CoverInv /\ ClaimInv /\ TellInv /\ AckInv /\ ReplyInv /\ EpochInv
OrderIInv ==
  IInv /\ WireOrder /\ Ledger /\ (~Reloaded => CountInv /\ LossInv)

-----------------------------------------------------------------------------
(* What the types of the protocol give its arithmetic.                     *)

LEMMA Ranges ==
  ASSUME IInv
  PROVE  /\ Base \in Nat /\ Count \in Nat /\ bytesSent \in Nat /\ bytesAcked \in Nat
         /\ typed \in Nat /\ bytesSent = Len(outbox) + bytesAcked
         /\ typed = Base + bytesSent /\ \A b \in Bytes : b \in Nat
         /\ sock \in Nat /\ (phase # "down" => sock \in Socket)
         /\ \A s \in Socket : s \in Nat
<1>1. MaxInput \in Nat /\ MaxSockets \in Nat
  BY LedgerAssumption
<1>2. Count \in Nat
  BY DEF Count, IInv, LedgerInv
<1>3. \A b \in Bytes : b \in Nat
  BY LedgerAssumption DEF Bytes, ToSet, Byte, IInv, PtyInv
<1>5. typed \in Nat /\ Base \in Nat /\ typed = Base + bytesSent
      /\ bytesSent = Len(outbox) + bytesAcked
      /\ bytesSent \in Nat /\ bytesAcked \in Nat
  BY <1>1 DEF IInv, TabInv, Base
<1>6. sock \in Nat /\ (phase # "down" => sock \in Socket)
  BY <1>1 DEF IInv, LinkInv, Socket
<1> QED
  BY <1>1, <1>2, <1>3, <1>5, <1>6 DEF Socket

\* What the child was given.
LEMMA GivenToChild ==
  ASSUME IInv
  PROVE  /\ pty \in Seq(Byte) /\ Len(pty) \in Nat /\ DOMAIN pty = 1 .. Len(pty)
         /\ Bytes = {pty[i] : i \in 1 .. Len(pty)}
         /\ \A i \in 1 .. Len(pty) : pty[i] \in Nat
BY LedgerAssumption DEF Bytes, ToSet, Byte, IInv, PtyInv

\* What is on the wire.
LEMMA OnTheWire ==
  ASSUME IInv, NEW s \in Socket
  PROVE  /\ up[s] \in Seq(Request) /\ Len(up[s]) \in Nat
         /\ down[s] \in Seq(Message) /\ Len(down[s]) \in Nat
         /\ \A i \in 1 .. Len(up[s]) :
              /\ up[s][i].kind \in {"input", "resume"}
              /\ up[s][i].kind = "input" => up[s][i].byte \in Nat
              /\ up[s][i].kind = "resume" => up[s][i].sent \in Nat
         /\ \A i \in 1 .. Len(down[s]) :
              /\ down[s][i].received \in Nat
              /\ IsReply(down[s][i]) =>
                   down[s][i].lost \in BOOLEAN /\ down[s][i].epoch \in 1 .. MaxBoots
<1>1. up[s] \in Seq(Request) /\ down[s] \in Seq(Message)
  BY DEF IInv, WireInv
<1>2. \A r \in Request : /\ r.kind \in {"input", "resume"}
                         /\ r.kind = "input" => r.byte \in Nat
                         /\ r.kind = "resume" => r.sent \in Nat
  BY LedgerAssumption DEF Request, Byte
<1>3. \A m \in Message : /\ m.received \in Nat
                         /\ IsReply(m) => m.lost \in BOOLEAN /\ m.epoch \in 1 .. MaxBoots
  BY DEF Message, IsReply
<1>4. \A i \in 1 .. Len(up[s]) : up[s][i] \in Request
  BY <1>1
<1>5. \A i \in 1 .. Len(down[s]) : down[s][i] \in Message
  BY <1>1
<1>6. Len(up[s]) \in Nat /\ Len(down[s]) \in Nat
  BY <1>1
<1> QED
  BY <1>1, <1>2, <1>3, <1>4, <1>5, <1>6

\* What the server holds for a socket.
LEMMA AtTheServer ==
  ASSUME IInv, NEW s \in Socket
  PROVE  /\ session[s] \in Nat /\ registry \in Nat /\ Received(s) \in Nat
         /\ handler[s] \in {"none", "reading", "resolved", "wrote", "gone"}
         /\ lastAckSent[s] \in Nat /\ gen[s] \in Nat
         /\ resumed[s].received \in Nat /\ resumed[s].lost \in BOOLEAN
         /\ (session[s] # 0 /\ session[s] = registry => Received(s) = Count)
         /\ Writing(s) \in {0, 1}
         /\ DOMAIN pass \subseteq Socket /\ \A t \in DOMAIN pass : pass[t].received \in Nat
<1>1. session[s] \in Nat /\ registry \in Nat
  BY DEF IInv, LedgerInv
<1>2. Received(s) \in Nat
  BY ReceivedIsNat DEF IInv
<1>3. Writing(s) \in {0, 1}
  BY DEF Writing
<1>4. session[s] # 0 /\ session[s] = registry => Received(s) = Count
  BY DEF Received, Count
<1>5. resumed[s].received \in Nat /\ resumed[s].lost \in BOOLEAN
  BY DEF IInv, LedgerInv
<1> QED
  BY <1>1, <1>2, <1>3, <1>4, <1>5 DEF IInv, LedgerInv, PassInv

\* Once a socket's resume is read, only input follows on it.
LEMMA OnlyInput ==
  ASSUME IInv, SocketInv, NEW s \in Socket, session[s] # 0
  PROVE  /\ Len(up[s]) \in Nat
         /\ \A i \in 1 .. Len(up[s]) : up[s][i].kind = "input" /\ up[s][i].byte \in Nat
BY OnTheWire DEF SocketInv

\* The invariant gives the properties the runs check.
LEMMA OrderIInvImplies ==
  OrderIInv => OrderedOnce /\ NoSilentLoss /\ ByteConservation
<1> SUFFICES ASSUME OrderIInv PROVE OrderedOnce /\ NoSilentLoss /\ ByteConservation
  OBVIOUS
<1> USE DEF OrderIInv, WireOrder, Ledger
<1>1. OrderedOnce
  BY GivenToChild DEF OrderedOnce, OrderInv
<1>2. NoSilentLoss
  BY DEF NoSilentLoss, LossInv, Bytes
<1>3. ASSUME Settled, ~Reloaded
      PROVE  /\ bytesAcked <= Received(sock)
             /\ bytesSent = Received(sock) + Len(up[sock])
                   + (IF handler[sock] = "wrote" THEN 1 ELSE 0)
  <2>1. phase = "acked" /\ handler[sock] \in {"reading", "wrote"} /\ sock \in Socket
    BY <1>3, Ranges DEF Settled
  <2>2. session[sock] # 0 /\ session[sock] = registry
    BY <2>1 DEF PhaseInv, SocketInv, Waiting
  <2>3. Received(sock) = Count /\ Len(up[sock]) \in Nat /\ Count \in Nat /\ bytesSent \in Nat
        /\ Writing(sock) \in {0, 1} /\ bytesAcked \in Nat
    BY <2>1, <2>2, Ranges, OnTheWire, AtTheServer
  <2>4. ~LossPending /\ registry # 0
    BY <2>1, <2>2 DEF LossPending
  <2>5. bytesAcked <= Count
    BY <2>4 DEF CoverInv
  <2>7. bytesSent <= Count + Writing(sock) + Len(up[sock])
    BY <2>1 DEF CoverInv, Alive
  <2>6. Count + Writing(sock) + Len(up[sock]) <= bytesSent
    BY <1>3, <2>1, <2>2 DEF CountInv
  <2>8. bytesAcked <= Received(sock) /\ bytesSent = Received(sock) + Len(up[sock]) + Writing(sock)
    BY <2>3, <2>5, <2>6, <2>7
  <2> QED
    BY <2>8 DEF Writing
<1> QED
  BY <1>1, <1>2, <1>3 DEF ByteConservation

-----------------------------------------------------------------------------
(* What a step leaves alone keeps its part of the invariant.               *)

socketVars == <<sock, phase, handler, session, up, down>>
textVars   == <<typed, bytesSent, pty>>
countVars  == <<registry, ledgers>>

\* A pending loss, and what a resumeAck says, depend on these only.
LEMMA LossPendingStays ==
  UNCHANGED <<sock, phase, handler, resumed, down>> => (LossPending' <=> LossPending)
BY DEF LossPending

LEMMA Stays ==
  /\ SocketInv /\ UNCHANGED socketVars => SocketInv'
  /\ PhaseInv /\ UNCHANGED <<socketVars, bytesSent, registry, lastEpoch, boot>> => PhaseInv'
  /\ OrderInv /\ UNCHANGED <<typed, pty, session, up>> => OrderInv'
  /\ CoverInv /\ UNCHANGED <<socketVars, textVars, countVars, resumed, bytesAcked>>
       => CoverInv'
  /\ ClaimInv /\ UNCHANGED <<handler, session, up, textVars, bytesAcked>> => ClaimInv'
  /\ TellInv /\ UNCHANGED <<handler, session, ledgers, resumed, lastAckSent, pass>>
       => TellInv'
  /\ AckInv /\ UNCHANGED <<sock, phase, handler, session, down, countVars>> => AckInv'
  /\ ReplyInv /\ UNCHANGED <<socketVars, textVars, countVars, resumed, bytesAcked,
                             lastEpoch, boot>> => ReplyInv'
  /\ EpochInv /\ UNCHANGED <<lastEpoch, boot, countVars, handler, session, up>>
       => EpochInv'
  /\ CountInv /\ UNCHANGED <<countVars, textVars, handler, session, up>> => CountInv'
  /\ LossInv /\ UNCHANGED <<textVars, outbox, told, countVars, sock, phase, down>>
       => LossInv'
<1> USE DEF socketVars, textVars, countVars, Alive, Count, Bytes, Base, Writing
<1>1. SocketInv /\ UNCHANGED socketVars => SocketInv'
  BY DEF SocketInv, Waiting
<1>2. PhaseInv /\ UNCHANGED <<socketVars, bytesSent, registry, lastEpoch, boot>> => PhaseInv'
  BY DEF PhaseInv, Waiting
<1>3. OrderInv /\ UNCHANGED <<typed, pty, session, up>> => OrderInv'
  BY DEF OrderInv
<1>4. CoverInv /\ UNCHANGED <<socketVars, textVars, countVars, resumed, bytesAcked>>
        => CoverInv'
  BY LossPendingStays DEF CoverInv, Counting
<1>5. ClaimInv /\ UNCHANGED <<handler, session, up, textVars, bytesAcked>> => ClaimInv'
  BY DEF ClaimInv, Waiting
<1>6. TellInv /\ UNCHANGED <<handler, session, ledgers, resumed, lastAckSent, pass>>
        => TellInv'
  BY DEF TellInv, Received
<1>7. AckInv /\ UNCHANGED <<sock, phase, handler, session, down, countVars>> => AckInv'
  BY DEF AckInv, Waiting
<1>8. ReplyInv /\ UNCHANGED <<socketVars, textVars, countVars, resumed, bytesAcked,
                              lastEpoch, boot>> => ReplyInv'
  BY DEF ReplyInv, Holds, Quiet
<1>9. EpochInv /\ UNCHANGED <<lastEpoch, boot, countVars, handler, session, up>>
        => EpochInv'
  BY DEF EpochInv
<1>10. CountInv /\ UNCHANGED <<countVars, textVars, handler, session, up>> => CountInv'
  BY DEF CountInv
<1>11. LossInv /\ UNCHANGED <<textVars, outbox, told, countVars, sock, phase, down>>
         => LossInv'
  BY DEF LossInv, Written
<1> QED
  BY <1>1, <1>2, <1>3, <1>4, <1>5, <1>6, <1>7, <1>8, <1>9, <1>10, <1>11

-----------------------------------------------------------------------------
(* The scheduler.                                                          *)

\* A socket that speaks for the ledger has every older one behind it.
LEMMA NoneWaits ==
  ASSUME IInv, SocketInv, sock \in Socket, session[sock] # 0
  PROVE  \A s \in Socket : ~Waiting(s)
<1> SUFFICES ASSUME NEW s \in Socket, Waiting(s) PROVE FALSE
  OBVIOUS
<1>1. Alive(s) /\ ~(s > sock) /\ s # sock /\ Len(up[s]) = 1
  BY DEF SocketInv, Waiting, Alive
<1>2. s < sock
  BY <1>1, Ranges
<1>3. up[s] = <<>>
  BY <1>1, <1>2 DEF SocketInv
<1> QED
  BY <1>1, <1>3

\* A bare or stamped ack that is not ahead of the ledger does no harm.
LEMMA DeliverInOrder ==
  ASSUME OrderIInv, NEW s \in Socket, NEW n \in Nat, Deliver(s, n), IInv',
         Alive(s) => n <= Received(s),
         UNCHANGED <<tab, up, countVars, boot, handler, session, resumed, pty>>
  PROVE  /\ WireOrder'
         /\ CoverInv' /\ ClaimInv' /\ AckInv' /\ ReplyInv' /\ EpochInv'
         /\ (~Reloaded => CountInv' /\ LossInv')
<1> USE DEF OrderIInv, WireOrder, Ledger
<1>0. UNCHANGED <<textVars, countVars, typed, outbox, bytesSent, bytesAcked, lastEpoch, sock,
                  phase, told, up, boot, handler, session, resumed, pty, registry, ledgers>>
  BY DEF tab, textVars, countVars
<1>1. CASE down' = down
  BY <1>0, <1>1, Stays DEF socketVars
<1>2. CASE s = sock /\ phase # "down" /\ handler[s] # "gone"
           /\ down' = [down EXCEPT ![s] = Append(@, AckFrame(n))]
  <2>1. Alive(sock) /\ sock \in Socket /\ n <= Received(sock)
    BY <1>2, Ranges DEF SocketInv, Alive
  <2>2. /\ Len(down'[sock]) = Len(down[sock]) + 1 /\ Len(down[sock]) \in Nat
        /\ \A i \in 1 .. Len(down[sock]) : down'[sock][i] = down[sock][i]
        /\ down'[sock][Len(down[sock]) + 1] = AckFrame(n)
        /\ \A t \in Socket : t # sock => down'[t] = down[t]
    BY <1>2, <2>1, OnTheWire DEF IInv, WireInv
  <2>3. ~IsReply(AckFrame(n)) /\ AckFrame(n).received = n
    BY DEF IsReply, AckFrame
  <2>4. \A i \in 1 .. Len(down'[sock]) :
          \/ i \in 1 .. Len(down[sock]) /\ down'[sock][i] = down[sock][i]
          \/ ~IsReply(down'[sock][i]) /\ down'[sock][i].received = n
    BY <2>2, <2>3
  <2> HIDE DEF OrderIInv, WireOrder, Ledger
  <2>5. n = 0 \/ (n <= Count /\ registry # 0 /\ \A t \in Socket : ~Waiting(t))
    <3>1. CASE session[sock] = 0
      BY <2>1, <3>1 DEF Received
    <3>2. CASE session[sock] # 0
      BY <1>2, <2>1, <3>2, NoneWaits, AtTheServer
         DEF PhaseInv, OrderIInv, WireOrder
    <3> QED
      BY <3>1, <3>2
  <2>6. LossPending' <=> LossPending
    <3>1. ASSUME NEW i \in 1 .. Len(down[sock])
          PROVE  i \in 1 .. Len(down'[sock]) /\ down'[sock][i] = down[sock][i]
      BY <2>2
    <3>2. (\E i \in 1 .. Len(down'[sock]) : IsReply(down'[sock][i]) /\ down'[sock][i].lost)
            <=> \E i \in 1 .. Len(down[sock]) : IsReply(down[sock][i]) /\ down[sock][i].lost
      BY <2>4, <3>1
    <3> QED
      BY <1>0, <3>2 DEF LossPending
  <2>7. SocketInv'
    BY <1>0, <1>2, <2>2 DEF SocketInv, OrderIInv, WireOrder, Waiting, Alive
  <2>8. PhaseInv'
    <3>1. \A i \in 1 .. Len(down'[sock]) : IsReply(down'[sock][i]) =>
            i \in 1 .. Len(down[sock]) /\ IsReply(down[sock][i])
      BY <2>4
    <3> QED
      BY <1>0, <3>1 DEF PhaseInv, OrderIInv, WireOrder, Waiting, Alive
  <2>9. OrderInv' /\ ClaimInv' /\ EpochInv'
    BY <1>0, Stays DEF OrderIInv, WireOrder, Ledger
  <2>10. CoverInv'
    BY <1>0, <2>6 DEF CoverInv, OrderIInv, Ledger, Count, Bytes, Base, Counting, Writing, Alive
  <2>11. AckInv'
    BY <1>0, <2>4, <2>5 DEF AckInv, OrderIInv, Ledger, Count, Waiting
  <2>12. ReplyInv'
    <3>1. ASSUME NEW i \in 1 .. Len(down[sock]), IsReply(down[sock][i]), phase = "open",
                 Holds(down[sock][i])
          PROVE  Holds(down[sock][i])'
      <4>1. n <= down[sock][i].received
        BY <2>1, <2>5, <3>1, OnTheWire DEF Holds, OrderIInv
      <4>2. \A j \in 1 .. Len(down'[sock]) : down'[sock][j].received <= down[sock][i].received
        BY <2>4, <3>1, <4>1 DEF Holds
      <4>3. down'[sock][i] = down[sock][i]
        BY <2>2
      <4> QED
        BY <1>0, <3>1, <4>2, <4>3 DEF Holds, Quiet, Alive, Count, Bytes, Base
    <3>2. \A i \in 1 .. Len(down'[sock]) : IsReply(down'[sock][i]) =>
            i \in 1 .. Len(down[sock]) /\ down'[sock][i] = down[sock][i]
      BY <2>4
    <3> QED
      BY <1>0, <3>1, <3>2 DEF ReplyInv, OrderIInv, Ledger, Count
  <2>13. ~Reloaded => CountInv' /\ LossInv'
    <3>1. ~Reloaded => CountInv'
      BY <1>0, Stays DEF OrderIInv
    <3>2. ASSUME ~Reloaded PROVE LossInv'
      <4>1. LossInv
        BY <3>2 DEF OrderIInv
      <4>2. Written(n)
        BY <2>5, <4>1, Ranges DEF LossInv, Written, OrderIInv
      <4>3. \A i \in 1 .. Len(down'[sock]) : Written(down'[sock][i].received)
        BY <1>2, <2>4, <4>1, <4>2 DEF LossInv
      <4> QED
        BY <1>0, <4>1, <4>3 DEF LossInv, Written, Bytes, Base, Count
    <3> QED
      BY <3>1, <3>2
  <2> QED
    BY <2>7, <2>8, <2>9, <2>10, <2>11, <2>12, <2>13 DEF WireOrder
<1> QED
  BY <1>1, <1>2 DEF Deliver

\* Scheduling alone disturbs only what is about to be told.
LEMMA AllButTell ==
  ASSUME OrderIInv, IInv', TellInv',
         UNCHANGED <<tab, up, down, boot, countVars, handler, session, resumed, pty>>
  PROVE  OrderIInv'
<1>1. UNCHANGED <<socketVars, textVars, countVars, typed, outbox, bytesSent, bytesAcked,
                  lastEpoch, sock, phase, told, up, down, boot, handler, session, resumed,
                  pty, registry, ledgers>>
  BY DEF tab, socketVars, textVars, countVars
<1>2. Reloaded' <=> Reloaded
  BY <1>1 DEF Reloaded
<1> QED
  BY <1>1, <1>2, Stays DEF OrderIInv, WireOrder, Ledger

\* The scheduler tells only what the ledgers hold.
LEMMA SchedulerInOrder ==
  ASSUME OrderIInv, IInv',
         Output \/ BuildFrame \/ SweepAcks \/ NoteAcksSent
           \/ \E s \in Socket : WriteFrame(s)
  PROVE  OrderIInv'
<1>1. CASE Output
  <2>1. UNCHANGED <<tab, up, down, boot, countVars, handler, session, resumed, lastAckSent,
                    pass, pty>>
    BY <1>1 DEF Output, countVars
  <2> QED
    BY <2>1, Stays, AllButTell DEF OrderIInv, Ledger, countVars
<1>2. CASE BuildFrame \/ SweepAcks \/ NoteAcksSent
  <2>1. UNCHANGED <<tab, up, down, boot, countVars, handler, session, resumed, pty>>
    BY <1>2 DEF BuildFrame, SweepAcks, NoteAcksSent, countVars
  <2>2. \A s \in Socket : Received(s)' = Received(s) /\ (Alive(s) => handler[s] # "gone")
    BY <2>1 DEF Received, countVars, Alive
  <2>3. TellInv
    BY DEF OrderIInv, Ledger
  <2>4. \A s \in Socket : Received(s) \in Nat /\ lastAckSent[s] \in Nat
    BY AtTheServer DEF OrderIInv
  <2>5. TellInv'
    <3>1. CASE BuildFrame
      BY <2>1, <2>2, <2>3, <2>4, <3>1 DEF BuildFrame, TellInv, Live
    <3>2. CASE SweepAcks
      BY <2>1, <2>2, <2>3, <2>4, <3>2 DEF SweepAcks, TellInv, Live
    <3>3. CASE NoteAcksSent
      BY <2>1, <2>2, <2>3, <2>4, <3>3 DEF NoteAcksSent, TellInv, Live, Idle
    <3> QED
      BY <1>2, <3>1, <3>2, <3>3
  <2> QED
    BY <2>1, <2>5, AllButTell
<1>3. ASSUME NEW s \in Socket, WriteFrame(s) PROVE OrderIInv'
  <2>1. s \in DOMAIN pass /\ UNCHANGED <<tab, up, boot, countVars, handler, session, resumed,
                                         lastAckSent, pty>>
    BY <1>3 DEF WriteFrame, countVars
  <2>2. TellInv /\ DOMAIN pass \subseteq Socket
    BY AtTheServer DEF OrderIInv, Ledger
  <2>3. /\ pass[s].received \in Nat /\ lastAckSent[s] \in Nat
        /\ handler[s] # "gone" => pass[s].received <= Received(s)
                                  /\ lastAckSent[s] <= Received(s)
    BY <2>1, <2>2, AtTheServer DEF TellInv, OrderIInv
  <2>4. PICK n \in {pass[s].received, lastAckSent[s]} :
          (Deliver(s, n) \/ UNCHANGED down) /\ (Skip(s) \/ Wrote(s, n))
    BY <1>3 DEF WriteFrame
  <2>5. n \in Nat /\ (handler[s] # "gone" => n <= Received(s))
    BY <2>3, <2>4
  <2>6. TellInv'
    <3>1. \A t \in Socket : Received(t)' = Received(t)
      BY <2>1 DEF Received, countVars
    <3>2. \A t \in DOMAIN pass' : t \in DOMAIN pass
            /\ (pass'[t].received = pass[t].received \/ (t = s /\ pass'[t].received = n))
      BY <2>1, <2>4 DEF Skip, Wrote
    <3> QED
      BY <2>1, <2>2, <2>5, <3>1, <3>2 DEF TellInv
  <2>7. CASE UNCHANGED down
    BY <2>1, <2>6, <2>7, AllButTell
  <2>8. CASE Deliver(s, n)
    <3>1. Reloaded' <=> Reloaded
      BY <2>1 DEF Reloaded, tab
    <3>2. Alive(s) => n <= Received(s)
      BY <2>5 DEF Alive
    <3> QED
      BY <2>1, <2>5, <2>6, <2>8, <3>1, <3>2, DeliverInOrder DEF OrderIInv, Ledger
  <2> QED
    BY <2>4, <2>7, <2>8
<1> QED
  BY <1>1, <1>2, <1>3

-----------------------------------------------------------------------------
(* The tab.                                                                *)

\* A tab that is down has nothing under way to it.
LEMMA NothingDown ==
  ASSUME IInv, SocketInv, NEW s \in Socket, s # sock \/ phase = "down"
  PROVE  down[s] = <<>>
BY DEF SocketInv

\* A new socket's claim is all the tab has sent.
LEMMA OpenInOrder == ASSUME OrderIInv, IInv', Open PROVE OrderIInv'
<1>1. PICK s \in Socket : s = sock + 1
  BY LedgerAssumption DEF Open, OrderIInv, IInv, LinkInv, Socket
<1>2. /\ phase = "down" /\ phase' = "open" /\ sock' = s /\ sock \in Nat
      /\ handler[s] = "none" /\ up[s] = <<>> /\ session[s] = 0
      /\ handler' = [handler EXCEPT ![s] = "reading"]
      /\ up' = [up EXCEPT ![s] = @ \o <<Resume(bytesSent)>>]
      /\ UNCHANGED <<typed, outbox, bytesSent, bytesAcked, lastEpoch, told, down, boot,
                     registry, ledgers, session, resumed, lastAckSent, pass, pty>>
  BY <1>1, Ranges DEF Open, Send, OrderIInv, WireOrder, SocketInv
<1>3. /\ handler'[s] = "reading" /\ Len(up'[s]) = 1 /\ up'[s][1] = Resume(bytesSent)
      /\ \A t \in Socket : t # s => handler'[t] = handler[t] /\ up'[t] = up[t]
  BY <1>2 DEF OrderIInv, IInv, WireInv, LedgerInv
<1>4. Resume(bytesSent).kind = "resume" /\ Resume(bytesSent).sent = bytesSent
  BY DEF Resume
<1>5. \A t \in Socket : down[t] = <<>> /\ Len(down[t]) = 0
  BY <1>2, NothingDown DEF OrderIInv, WireOrder
<1>6. ~LossPending /\ ~LossPending'
  BY <1>2, <1>3, <1>5 DEF LossPending
<1> USE DEF OrderIInv, WireOrder, Ledger
<1>7. SocketInv'
  <2>1. \A t \in Socket : (t > sock') <=> (handler'[t] = "none")
    <3>1. \A t \in Socket : t \in Nat
      BY Ranges
    <3>2. \A t \in Socket : t # s => ((t > s) <=> (t > sock))
      BY <1>1, <1>2, <3>1
    <3>3. ~(s > s)
      BY <3>1
    <3> QED
      BY <1>2, <1>3, <3>2, <3>3 DEF SocketInv
  <2>2. \A t \in Socket : Waiting(t)' => t = s \/ (t # s /\ Waiting(t) /\ up'[t] = up[t])
    BY <1>2, <1>3 DEF Waiting
  <2>3. \A t \in Socket : Waiting(t)' => Len(up'[t]) = 1 /\ up'[t][1].kind = "resume"
    BY <1>3, <1>4, <2>2 DEF SocketInv
  <2>4. ASSUME NEW t \in Socket, session[t] # 0
        PROVE  /\ \A i \in 1 .. Len(up'[t]) : up'[t][i].kind = "input"
               /\ \A v \in Socket : v < t /\ Alive(v)' => up'[v] = <<>> /\ handler'[v] # "wrote"
    <3>1. t # s /\ handler[t] # "none" /\ up'[t] = up[t]
      BY <1>2, <1>3, <2>4 DEF SocketInv
    <3>2. t < s
      <4>1. t \in Nat /\ ~(t > sock)
        BY <3>1, Ranges DEF SocketInv
      <4> QED
        BY <1>1, <1>2, <4>1
    <3>3. \A v \in Socket : v < t => v # s
      BY <1>1, <1>2, <3>2, Ranges
    <3>4. \A v \in Socket : v < t /\ Alive(v)' => v # s /\ Alive(v)
      BY <1>3, <3>3 DEF Alive
    <3> QED
      BY <1>3, <2>4, <3>1, <3>4 DEF SocketInv
  <2>5. \A t \in Socket : /\ handler'[t] = "none" => up'[t] = <<>>
                          /\ handler'[t] \in {"none", "gone"} => session[t] = 0
                          /\ handler'[t] \in {"resolved", "wrote"} => session[t] # 0
    BY <1>2, <1>3 DEF SocketInv
  <2> QED
    BY <1>2, <1>5, <2>1, <2>3, <2>4, <2>5 DEF SocketInv
<1>8. PhaseInv'
  BY <1>2, <1>3, <1>4, <1>5 DEF PhaseInv, Waiting, Alive
<1>9. OrderInv'
  BY <1>2, <1>3 DEF OrderInv, Bytes
<1>10. CoverInv'
  <2>1. Counting' <=> Counting
    BY <1>2, <1>3 DEF Counting
  <2>2. \A t \in Socket : session[t] # 0 => up'[t] = up[t] /\ Writing(t)' = Writing(t)
    BY <1>2, <1>3 DEF Writing
  <2> QED
    BY <1>2, <1>6, <2>1, <2>2 DEF CoverInv, Count, Base, Bytes
<1>11. ClaimInv'
  <2>1. bytesSent = 0 => /\ bytesAcked = 0 /\ Base = typed
    BY Ranges DEF Base, IInv, TabInv
  <2>2. Base' = Base /\ Bytes' = Bytes
    BY <1>2 DEF Base, Bytes
  <2> QED
    BY <1>2, <1>3, <1>4, <2>1, <2>2 DEF ClaimInv, OrderInv, Waiting
<1>12. TellInv'
  BY <1>2, <1>3 DEF TellInv, Received
<1>13. AckInv' /\ ReplyInv'
  BY <1>2, <1>3, <1>5 DEF AckInv, ReplyInv
<1>14. EpochInv'
  BY <1>2, <1>3 DEF EpochInv, Count
<1>15. ~Reloaded' => CountInv' /\ LossInv'
  BY <1>2, <1>3, <1>5 DEF Reloaded, CountInv, LossInv, Count, Base, Bytes, Written, Writing
<1> QED
  BY <1>7, <1>8, <1>9, <1>10, <1>11, <1>12, <1>13, <1>14, <1>15

\* Giving a socket up loses what was under way on it, never a loss.
LEMMA AbandonInOrder ==
  ASSUME Orderly, OrderIInv, IInv', Abandon PROVE OrderIInv'
<1>1. /\ phase # "down" /\ phase' = "down" /\ ~LossUnderWay /\ sock \in Socket
      /\ down' = [down EXCEPT ![sock] = <<>>]
      /\ UNCHANGED <<typed, outbox, bytesSent, bytesAcked, lastEpoch, sock, told, up, boot,
                     registry, ledgers, handler, session, resumed, lastAckSent, pass, pty>>
  BY Ranges DEF Abandon, Orderly, OrderIInv, server
<1>2. \A t \in Socket : down'[t] = <<>>
  BY <1>1, NothingDown DEF OrderIInv, IInv, WireInv, WireOrder
<1>3. ~LossPending /\ ~LossPending'
  <2>1. Len(down[sock]) \in Nat /\ DOMAIN down[sock] = 1 .. Len(down[sock])
    BY <1>1, OnTheWire DEF OrderIInv
  <2> QED
    BY <1>1, <2>1 DEF LossPending, LossUnderWay, IsReply
<1> USE DEF OrderIInv, WireOrder, Ledger
<1>4. SocketInv' /\ PhaseInv'
  BY <1>1, <1>2 DEF SocketInv, PhaseInv, Waiting, Alive
<1>5. CoverInv'
  BY <1>1, <1>3 DEF CoverInv, Counting, Count, Base, Bytes, Writing
<1>6. AckInv' /\ ReplyInv'
  BY <1>1 DEF AckInv, ReplyInv
<1>7. ~Reloaded' => CountInv' /\ LossInv'
  BY <1>1 DEF Reloaded, CountInv, LossInv, Count, Base, Bytes, Written, Writing
<1> QED
  BY <1>1, <1>4, <1>5, <1>6, <1>7, Stays DEF textVars, countVars

\* A reloaded page starts over: everything the child has, or may still get, is older
\* than what its counters are about.
LEMMA ReloadInOrder == ASSUME OrderIInv, IInv', Reload PROVE OrderIInv'
<1>1. /\ phase' = "down" /\ registry' \in {0, registry}
      /\ outbox' = <<>> /\ bytesSent' = 0 /\ bytesAcked' = 0 /\ lastEpoch' = 0
      /\ told' = told \cup ToSet(outbox) \cup {0}
      /\ (phase = "down" => down' = down)
      /\ (phase # "down" => down' = [down EXCEPT ![sock] = <<>>])
      /\ UNCHANGED <<typed, sock, up, boot, ledgers, handler, session, resumed,
                     lastAckSent, pass, pty>>
  BY DEF Reload
<1>2. \A t \in Socket : down'[t] = <<>>
  BY <1>1, NothingDown DEF OrderIInv, IInv, WireInv, WireOrder
<1>3. Base' = typed /\ Bytes' = Bytes /\ Reloaded' /\ typed \in Nat /\ Count' \in Nat
  <2>1. typed \in Nat /\ Count \in Nat
    BY Ranges DEF OrderIInv
  <2> QED
    BY <1>1, <2>1 DEF Base, Bytes, Count, Reloaded
<1>4. \A b \in Bytes : b \in Nat
  BY Ranges DEF OrderIInv
<1> USE DEF OrderIInv, WireOrder, Ledger
<1>5. SocketInv' /\ PhaseInv'
  BY <1>1, <1>2 DEF SocketInv, PhaseInv, Waiting, Alive
<1>6. OrderInv' /\ TellInv'
  BY <1>1, Stays
<1>7. CoverInv' /\ ClaimInv'
  BY <1>1, <1>3, <1>4 DEF OrderInv, CoverInv, ClaimInv
<1>8. AckInv' /\ ReplyInv' /\ EpochInv'
  BY <1>1 DEF AckInv, ReplyInv, EpochInv
<1> QED
  BY <1>3, <1>5, <1>6, <1>7, <1>8

\* A queue of increasing bytes, past those of B and up to n, with the byte after n.
Increasing(q, B, n) ==
  /\ \A i \in 1 .. Len(q) : q[i].byte \in Nat /\ q[i].byte <= n /\ \A b \in B : b < q[i].byte
  /\ \A i, j \in 1 .. Len(q) : i < j => q[i].byte < q[j].byte
LEMMA OneMore ==
  ASSUME NEW n \in Nat, NEW B, \A b \in B : b \in Nat /\ b <= n, NEW q, NEW r,
         Len(q) \in Nat, Len(r) = Len(q) + 1, r[Len(q) + 1].byte = n + 1,
         \A i \in 1 .. Len(q) : r[i] = q[i], Increasing(q, B, n)
  PROVE  Increasing(r, B, n + 1)
<1>1. \A i \in 1 .. Len(r) : (i \in 1 .. Len(q) /\ r[i].byte = q[i].byte)
                              \/ (i = Len(q) + 1 /\ r[i].byte = n + 1)
  OBVIOUS
<1>2. \A i \in 1 .. Len(r) :
        r[i].byte \in Nat /\ r[i].byte <= n + 1 /\ \A b \in B : b < r[i].byte
  BY <1>1 DEF Increasing
<1>3. ASSUME NEW i \in 1 .. Len(r), NEW j \in 1 .. Len(r), i < j
      PROVE  r[i].byte < r[j].byte
  <2>1. i \in 1 .. Len(q) /\ r[i].byte = q[i].byte /\ q[i].byte <= n /\ q[i].byte \in Nat
    BY <1>1, <1>3 DEF Increasing
  <2>2. CASE j \in 1 .. Len(q)
    BY <1>1, <1>3, <2>1, <2>2 DEF Increasing
  <2>3. CASE j = Len(q) + 1
    BY <2>1, <2>3
  <2> QED
    BY <2>2, <2>3
<1> QED
  BY <1>2, <1>3 DEF Increasing

\* Typing: the new byte is past everything, and the ledger will count it in turn.
LEMMA TypeInOrder == ASSUME Orderly, OrderIInv, IInv', Type PROVE OrderIInv'
<1> USE DEF OrderIInv, WireOrder, Ledger
<1>1. /\ phase # "open" /\ typed' = typed + 1 /\ bytesSent' = bytesSent + 1
      /\ outbox' = Append(outbox, typed + 1)
      /\ (phase = "down" => up' = up)
      /\ (phase # "down" => up' = [up EXCEPT ![sock] = @ \o <<Input(typed + 1)>>])
      /\ UNCHANGED <<bytesAcked, lastEpoch, sock, phase, told, down, boot, registry, ledgers,
                     handler, session, resumed, lastAckSent, pass, pty>>
  BY DEF Type, Orderly, server, Send
<1>0. /\ Base \in Nat /\ Count \in Nat /\ bytesSent \in Nat /\ typed \in Nat
      /\ typed = Base + bytesSent /\ \A b \in Bytes : b \in Nat
      /\ \A s \in Socket : s \in Nat
  BY Ranges
<1>2. Base' = Base /\ Bytes' = Bytes /\ Count' = Count /\ (Reloaded' <=> Reloaded)
  <2>1. Base' = Base
    BY <1>0, <1>1 DEF Base
  <2> QED
    BY <1>1, <2>1 DEF Bytes, Count, Reloaded
<1>3. ~LossPending /\ ~LossPending'
  BY <1>1 DEF LossPending
<1>4. TellInv' /\ AckInv' /\ ReplyInv'
  BY <1>1, Stays DEF countVars, ReplyInv
<1>5. \A b \in 1 .. typed' : b \in 1 .. typed \/ b \in ToSet(outbox')
  <2>1. outbox'[Len(outbox) + 1] = typed + 1 /\ Len(outbox) + 1 \in DOMAIN outbox'
    BY <1>1 DEF IInv, TabInv
  <2>2. typed + 1 \in ToSet(outbox')
    BY <2>1 DEF ToSet
  <2> QED
    BY <1>0, <1>1, <2>2
<1>6. ToSet(outbox) \subseteq ToSet(outbox')
  <2>1. \A i \in DOMAIN outbox : i \in DOMAIN outbox' /\ outbox'[i] = outbox[i]
    BY <1>1 DEF IInv, TabInv
  <2> QED
    BY <2>1 DEF ToSet
<1>7. LossInv => LossInv'
  BY <1>1, <1>2, <1>5, <1>6 DEF LossInv, Written
<1>8. CASE phase = "down"
  <2>1. SocketInv' /\ PhaseInv' /\ EpochInv'
    BY <1>1, <1>8, Stays DEF socketVars, countVars, PhaseInv
  <2>2. OrderInv'
    <3>1. \A s \in Socket : session[s] # 0 => \A i \in 1 .. Len(up[s]) : up[s][i].byte \in Nat
      BY OnlyInput
    <3> QED
      BY <1>0, <1>1, <1>2, <1>8, <3>1 DEF OrderInv
  <2>3. CoverInv' /\ ClaimInv'
    BY <1>1, <1>2, <1>3, <1>8 DEF CoverInv, ClaimInv, Counting, Writing, Waiting
  <2>4. CountInv => CountInv'
    <3>1. \A s \in Socket : Writing(s) \in Nat /\ Len(up[s]) \in Nat
      BY OnTheWire DEF Writing
    <3>2. \A s \in Socket : Writing(s)' = Writing(s)
      BY <1>1 DEF Writing
    <3> QED
      BY <1>0, <1>1, <1>2, <1>8, <3>1, <3>2 DEF CountInv
  <2> QED
    BY <1>2, <1>4, <1>7, <2>1, <2>2, <2>3, <2>4
<1>9. CASE phase = "acked"
  <2>1. sock \in Socket /\ up' = [up EXCEPT ![sock] = @ \o <<Input(typed + 1)>>]
    BY <1>1, <1>9, Ranges
  <2>2. /\ Len(up[sock]) \in Nat /\ Len(up'[sock]) = Len(up[sock]) + 1
        /\ \A i \in 1 .. Len(up[sock]) : up'[sock][i] = up[sock][i]
        /\ up'[sock][Len(up[sock]) + 1] = Input(typed + 1)
        /\ \A t \in Socket : t # sock => up'[t] = up[t]
    BY <2>1, OnTheWire DEF IInv, WireInv
  <2>3. Input(typed + 1).kind = "input" /\ Input(typed + 1).byte = typed + 1
    BY DEF Input
  <2>4. \A i \in 1 .. Len(up'[sock]) :
          \/ i \in 1 .. Len(up[sock]) /\ up'[sock][i] = up[sock][i]
          \/ i = Len(up[sock]) + 1 /\ up'[sock][i].kind = "input"
                                   /\ up'[sock][i].byte = typed + 1
    BY <2>2, <2>3
  <2>5. \A s \in Socket : Writing(s)' = Writing(s) /\ (Waiting(s)' <=> Waiting(s))
                          /\ (Alive(s)' <=> Alive(s))
    BY <1>1 DEF Writing, Waiting, Alive
  <2>15. \A s \in Socket : (s > sock => s # sock) /\ (sock < s => s > sock)
    BY <1>0, <2>1
  <2>6. handler[sock] # "none" /\ ~Waiting(sock) /\ (Alive(sock) <=> session[sock] # 0)
    BY <1>9, <2>1, AtTheServer, Ranges DEF SocketInv, PhaseInv, Waiting, Alive
  <2>7. SocketInv'
    <3>1. \A t \in Socket : session[t] # 0 => ~(sock < t)
      BY <2>15 DEF SocketInv
    <3>2. ASSUME NEW s \in Socket, session[s] # 0
          PROVE  /\ \A i \in 1 .. Len(up'[s]) : up'[s][i].kind = "input"
                 /\ \A t \in Socket : t < s /\ Alive(t) => up'[t] = <<>> /\ handler[t] # "wrote"
      BY <2>2, <2>4, <3>1, <3>2 DEF SocketInv
    <3>3. \A s \in Socket : (handler[s] = "none" \/ Waiting(s)) => up'[s] = up[s]
      BY <2>2, <2>6
    <3> QED
      BY <1>1, <1>9, <2>5, <3>2, <3>3 DEF SocketInv
  <2>8. PhaseInv'
    BY <1>1, <1>9, <2>1, <2>5, <2>6 DEF PhaseInv
  <2>9. \A s \in Socket : session[s] # 0 => \A i \in 1 .. Len(up[s]) : up[s][i].byte \in Nat
    BY OnlyInput
  <2>10. OrderInv'
    <3>1. \A s \in Socket : session[s] # 0 => Increasing(up[s], Bytes, typed)
      BY <2>9 DEF OrderInv, Increasing
    <3>2. ASSUME NEW s \in Socket, session[s] # 0
          PROVE  Increasing(up'[s], Bytes, typed + 1)
      <4>1. CASE s # sock
        <5>1. up'[s] = up[s] /\ Increasing(up[s], Bytes, typed)
          BY <2>2, <3>1, <3>2, <4>1
        <5>2. ASSUME NEW i \in 1 .. Len(up[s]) PROVE up[s][i].byte <= typed + 1
          BY <1>0, <5>1 DEF Increasing
        <5> QED
          BY <5>1, <5>2 DEF Increasing
      <4>2. CASE s = sock
        <5>1. up'[sock][Len(up[sock]) + 1].byte = typed + 1
          BY <2>2, <2>3
        <5>2. \A b \in Bytes : b \in Nat /\ b <= typed
          BY <1>0 DEF OrderInv
        <5>3. Increasing(up[sock], Bytes, typed)
          BY <3>1, <3>2, <4>2
        <5> QED
          BY <1>0, <2>2, <4>2, <5>1, <5>2, <5>3, OneMore
      <4> QED
        BY <4>1, <4>2
    <3>3. \A b \in Bytes : b <= typed + 1
      BY <1>0 DEF OrderInv
    <3> QED
      BY <1>1, <1>2, <3>2, <3>3 DEF OrderInv, Increasing
  <2>11. CoverInv'
    <3>1. ASSUME Alive(sock) PROVE bytesSent <= Count + Writing(sock) + Len(up[sock])
      BY <1>9, <3>1 DEF CoverInv
    <3>2. Writing(sock) \in Nat
      BY DEF Writing
    <3>3. ASSUME session[sock] # 0
          PROVE  /\ session[sock] = registry
                 /\ typed + 1 <= Base + Count + Writing(sock) + (Len(up[sock]) + 1)
      <4>1. session[sock] = registry
        BY <1>9, <3>3 DEF PhaseInv
      <4>2. bytesSent <= Count + Writing(sock) + Len(up[sock])
        BY <2>6, <3>1, <3>3
      <4>3. Len(up[sock]) \in Nat /\ Count \in Nat /\ Base \in Nat /\ bytesSent \in Nat
        BY <1>0, <2>2
      <4>4. typed + 1 = Base + bytesSent + 1
        BY <1>0
      <4>5. Base + bytesSent + 1 <= Base + Count + Writing(sock) + (Len(up[sock]) + 1)
        BY <3>2, <4>2, <4>3
      <4> QED
        BY <4>1, <4>4, <4>5
    <3>4. ASSUME NEW s \in Socket, session[s] # 0, NEW i \in 1 .. Len(up'[s])
          PROVE  \/ up'[s][i].byte <= Base
                 \/ session[s] = registry /\ up'[s][i].byte <= Base + Count + Writing(s) + i
      <4>1. CASE i \in 1 .. Len(up[s]) /\ up'[s][i] = up[s][i]
        BY <3>4, <4>1 DEF CoverInv
      <4>2. CASE s = sock /\ i = Len(up[sock]) + 1 /\ up'[s][i].byte = typed + 1
        BY <3>3, <3>4, <4>2
      <4> QED
        BY <2>2, <2>4, <3>4, <4>1, <4>2
    <3>5. ASSUME Alive(sock) PROVE bytesSent + 1 <= Count + Writing(sock) + Len(up'[sock])
      <4>1. bytesSent <= Count + Writing(sock) + Len(up[sock])
        BY <3>1, <3>5
      <4> QED
        BY <1>0, <2>2, <3>2, <4>1
    <3>6. Counting' <=> Counting
      BY <1>1 DEF Counting
    <3>7. UNCHANGED <<registry, bytesAcked, session, phase, sock>> /\ bytesSent' = bytesSent + 1
      BY <1>1
    <3>8. registry' # 0 /\ ~LossPending' =>
            /\ bytesAcked' <= Count'
            /\ \A b \in Bytes' :
                 b <= Base' + Count' \/ (Counting' /\ b <= Base' + Count' + 1)
      BY <1>2, <1>3, <3>6, <3>7 DEF CoverInv
    <3> QED
      BY <1>2, <2>1, <2>5, <3>4, <3>5, <3>7, <3>8 DEF CoverInv
  <2>12. ClaimInv'
    <3>1. session[sock] # 0 => \A s \in Socket : ~Waiting(s)
      BY <2>1, NoneWaits
    <3>2. \A t \in Socket : t = sock \/ up'[t] = up[t]
      BY <2>2
    <3> QED
      BY <1>1, <1>2, <2>5, <2>6, <3>1, <3>2 DEF ClaimInv
  <2>13. EpochInv'
    BY <1>1, <1>2, <1>9, <2>2, <2>6 DEF EpochInv, PhaseInv
  <2>14. CountInv => CountInv'
    <3> SUFFICES ASSUME CountInv PROVE CountInv'
      OBVIOUS
    <3>2. ASSUME NEW s \in Socket, session[s] # 0
          PROVE  /\ Count + Writing(s) + Len(up'[s]) <= bytesSent + 1
                 /\ \A i \in 1 .. Len(up'[s]) : up'[s][i].byte = Base + Count + Writing(s) + i
      <4>1. Writing(s) \in Nat /\ Len(up[s]) \in Nat
        BY OnlyInput, <3>2 DEF Writing
      <4>2. /\ Count + Writing(s) + Len(up[s]) <= bytesSent
            /\ \A i \in 1 .. Len(up[s]) : up[s][i].byte = Base + Count + Writing(s) + i
        BY <3>2 DEF CountInv
      <4>3. CASE s # sock
        <5>1. up'[s] = up[s]
          BY <2>2, <4>3
        <5> QED
          BY <1>0, <4>1, <4>2, <5>1
      <4>4. CASE s = sock
        <5>1. bytesSent <= Count + Writing(sock) + Len(up[sock])
          BY <1>9, <2>6, <3>2, <4>4 DEF CoverInv
        <5>2. Writing(sock) \in Nat /\ Len(up[sock]) \in Nat /\ Count \in Nat /\ Base \in Nat
              /\ bytesSent \in Nat
          BY <1>0, <4>1, <4>4
        <5>6. Count + Writing(sock) + Len(up[sock]) <= bytesSent
          BY <4>2, <4>4
        <5>5. bytesSent = Count + Writing(sock) + Len(up[sock])
          BY <5>1, <5>2, <5>6
        <5>3. typed + 1 = Base + Count + Writing(sock) + (Len(up[sock]) + 1)
          <6>1. typed + 1 = Base + bytesSent + 1
            BY <1>0
          <6> QED
            BY <5>2, <5>5, <6>1
        <5>4. Count + Writing(sock) + Len(up'[sock]) <= bytesSent + 1
          BY <2>2, <5>2, <5>5
        <5> QED
          BY <2>2, <2>4, <4>2, <4>4, <5>3, <5>4
      <4> QED
        BY <4>3, <4>4
    <3>3. \A s \in Socket : session[s] # 0 =>
            session[s] = registry /\ (handler[s] = "wrote" => Base + Count + 1 \in Bytes)
      BY DEF CountInv
    <3>4. registry # 0 => Count <= bytesSent + 1
      BY <1>0 DEF CountInv
    <3>5. UNCHANGED <<registry, session, handler>> /\ bytesSent' = bytesSent + 1
      BY <1>1
    <3> QED
      BY <1>2, <2>5, <3>2, <3>3, <3>4, <3>5 DEF CountInv
  <2> QED
    BY <1>2, <1>4, <1>7, <2>7, <2>8, <2>10, <2>11, <2>12, <2>13, <2>14
<1> QED
  BY <1>1, <1>8, <1>9 DEF IInv, LinkInv

\* What the tab handles was the first on the socket, and the rest is next.
LEMMA Consumed ==
  ASSUME IInv, Arriving, Consume
  PROVE  /\ sock \in Socket /\ phase # "down" /\ 1 \in 1 .. Len(down[sock])
         /\ Arrived = down[sock][1] /\ Len(down[sock]) \in Nat
         /\ Len(down'[sock]) = Len(down[sock]) - 1
         /\ \A i \in 1 .. Len(down'[sock]) :
              i + 1 \in 1 .. Len(down[sock]) /\ down'[sock][i] = down[sock][i + 1]
         /\ \A t \in Socket : t # sock => down'[t] = down[t]
<1>1. sock \in Socket /\ phase # "down" /\ down[sock] # <<>>
  BY Ranges DEF Arriving
<1>2. down[sock] \in Seq(Message) /\ down' = [down EXCEPT ![sock] = Tail(down[sock])]
      /\ down \in [Socket -> Seq(Message)]
  BY <1>1, OnTheWire DEF IInv, WireInv, Consume
<1>3. down'[sock] = Tail(down[sock]) /\ \A t \in Socket : t # sock => down'[t] = down[t]
  BY <1>1, <1>2
<1>4. /\ Len(down[sock]) \in Nat /\ Len(down[sock]) >= 1 /\ Head(down[sock]) = down[sock][1]
      /\ Len(Tail(down[sock])) = Len(down[sock]) - 1
      /\ \A i \in 1 .. Len(Tail(down[sock])) :
           i + 1 \in 1 .. Len(down[sock]) /\ Tail(down[sock])[i] = down[sock][i + 1]
  BY <1>1, <1>2
<1> QED
  BY <1>1, <1>3, <1>4 DEF Arrived

\* An ack trims no further than it says, and what it trims the child has if the count
\* is of bytes it has.
LEMMA TrimBy ==
  ASSUME IInv, NEW n \in Nat
  PROVE  /\ Trimmed(n).acked \in Nat
         /\ \/ n <= bytesAcked /\ Trimmed(n).acked = bytesAcked /\ Trimmed(n).rest = outbox
            \/ /\ bytesAcked < n /\ Trimmed(n).acked <= n
               /\ Trimmed(n).acked \in {n, bytesSent}
         /\ Trimmed(n).acked <= bytesSent
         /\ Written(n) =>
              \A b \in ToSet(outbox) : b \in ToSet(Trimmed(n).rest) \cup Bytes
<1>1. /\ Trimmed(n).acked \in Nat
      /\ \/ n <= bytesAcked /\ Trimmed(n).acked = bytesAcked /\ Trimmed(n).rest = outbox
         \/ /\ bytesAcked < n /\ Trimmed(n).acked <= n
            /\ Trimmed(n).acked \in {n, bytesSent}
      /\ Trimmed(n).acked <= bytesSent
  <2>1. bytesAcked \in Nat /\ bytesSent \in Nat /\ bytesAcked <= bytesSent
    BY DEF IInv, TabInv
  <2>2. CASE n <= bytesAcked
    BY <2>1, <2>2 DEF Trimmed
  <2>3. CASE bytesAcked < n
    <3>1. Trimmed(n).acked = IF n < bytesSent THEN n ELSE bytesSent
      BY <2>1, <2>3 DEF Trimmed
    <3> QED
      BY <2>1, <2>3, <3>1
  <2> QED
    BY <2>1, <2>2, <2>3
<1>2. ASSUME Written(n), NEW b \in ToSet(outbox), bytesAcked < n
      PROVE  b \in ToSet(Trimmed(n).rest) \cup Bytes
  <2> DEFINE rest == Trimmed(n).rest
  <2>1. /\ Len(rest) = bytesSent - Trimmed(n).acked /\ rest \in Seq(Byte)
        /\ \A i \in 1 .. Len(rest) : rest[i] = typed - Len(rest) + i
    BY TrimKeepsTail DEF IInv, EndsAt
  <2>2. PICK i \in 1 .. Len(outbox) : b = outbox[i]
    BY DEF ToSet, IInv, TabInv
  <2>3. /\ b = typed - Len(outbox) + i /\ Len(outbox) = bytesSent - bytesAcked
        /\ typed \in Nat /\ bytesSent \in Nat /\ bytesAcked \in Nat /\ Len(outbox) \in Nat
    BY <2>2, LedgerAssumption DEF IInv, TabInv, EndsAt
  <2>7. /\ Len(rest) \in Nat /\ Len(rest) = bytesSent - Trimmed(n).acked /\ i \in Nat
        /\ Trimmed(n).acked \in Nat /\ Trimmed(n).acked <= n /\ Trimmed(n).acked <= bytesSent
        /\ b \in Int /\ b > typed - bytesSent + bytesAcked /\ b <= typed
    <3>1. i \in Nat /\ 1 <= i /\ i <= Len(outbox)
      BY <2>2, <2>3
    <3>2. Trimmed(n).acked \in Nat /\ Trimmed(n).acked <= n /\ Trimmed(n).acked <= bytesSent
      BY <1>1, <1>2, <2>3
    <3> QED
      BY <2>1, <2>3, <3>1, <3>2
  <2>8. typed \in Nat /\ bytesSent \in Nat /\ Len(rest) \in Nat /\ b \in Int /\ b <= typed
    BY <2>3, <2>7
  <2> HIDE DEF rest
  <2>4. CASE b > typed - Len(rest)
    <3>0. b - (typed - Len(rest)) \in Int
      BY <2>8
    <3>1. PICK j \in Int : j = b - (typed - Len(rest))
      BY <3>0
    <3>2. j \in 1 .. Len(rest) /\ typed - Len(rest) + j = b
      BY <2>4, <2>8, <3>1
    <3>3. b = rest[j] /\ j \in DOMAIN rest
      BY <2>1, <3>2
    <3>4. b \in ToSet(rest)
      BY <3>3 DEF ToSet
    <3> QED
      BY <3>4 DEF rest
  <2>5. CASE b <= typed - Len(rest)
    <3>1. Base \in Nat /\ typed = Base + bytesSent
      BY Ranges
    <3>2. bytesSent \in Nat
      BY <2>3
    <3>3. PICK k \in Int : k = b - Base
      BY <2>7, <3>1
    <3>4. k <= n
      BY <2>3, <2>5, <2>7, <3>1, <3>3
    <3>5. k \in 1 .. n /\ b = Base + k
      BY <2>3, <2>7, <3>1, <3>3, <3>4
    <3> QED
      BY <1>2, <3>5 DEF Written
  <2>6. b > typed - Len(rest) \/ b <= typed - Len(rest)
    BY <2>8
  <2> QED
    BY <2>4, <2>5, <2>6
<1> QED
  BY <1>1, <1>2

\* Handling an ack.
LEMMA RecvAckInOrder == ASSUME OrderIInv, IInv', RecvAck PROVE OrderIInv'
<1> USE DEF OrderIInv, WireOrder, Ledger
<1>1. PICK m : m = down[sock][1]
  OBVIOUS
<1>2. /\ sock \in Socket /\ phase # "down" /\ m = Arrived /\ ~IsReply(m)
      /\ Len(down[sock]) \in Nat /\ 1 \in 1 .. Len(down[sock])
      /\ Len(down'[sock]) = Len(down[sock]) - 1
      /\ \A i \in 1 .. Len(down'[sock]) :
           i + 1 \in 1 .. Len(down[sock]) /\ down'[sock][i] = down[sock][i + 1]
      /\ \A t \in Socket : t # sock => down'[t] = down[t]
  BY <1>1, Consumed DEF RecvAck, IsReply
<1>3. PICK n \in Nat : n = m.received
  BY <1>1, <1>2, OnTheWire
<1>4. /\ bytesAcked' = Trimmed(n).acked /\ outbox' = Trimmed(n).rest
      /\ UNCHANGED <<typed, bytesSent, lastEpoch, sock, phase, told, up, boot, registry,
                     ledgers, handler, session, resumed, lastAckSent, pass, pty>>
  BY <1>2, <1>3 DEF RecvAck, ApplyAck, server
<1>5. /\ Base' = Base /\ Bytes' = Bytes /\ Count' = Count /\ (Reloaded' <=> Reloaded)
      /\ Base \in Nat /\ Count \in Nat /\ bytesSent \in Nat /\ bytesAcked \in Nat
  <2>1. Base \in Nat /\ Count \in Nat /\ bytesSent \in Nat /\ bytesAcked \in Nat
    BY Ranges
  <2> QED
    BY <1>4, <2>1 DEF Base, Bytes, Count, Reloaded
<1>6. n = 0 \/ ((\A s \in Socket : ~Waiting(s)) /\ (registry # 0 => n <= Count))
  BY <1>1, <1>2, <1>3 DEF AckInv
<1>7. bytesAcked' = bytesAcked \/ bytesAcked' <= n
  BY <1>4, TrimBy
<1>8. bytesAcked' \in Nat /\ (n = 0 => bytesAcked' = bytesAcked)
  BY <1>4, <1>5, TrimBy
<1>9. \A i \in 1 .. Len(down[sock]) : IsReply(down[sock][i]) =>
        i - 1 \in 1 .. Len(down'[sock]) /\ down'[sock][i - 1] = down[sock][i]
  <2>1. ASSUME NEW i \in 1 .. Len(down[sock]), IsReply(down[sock][i])
        PROVE  i - 1 \in 1 .. Len(down'[sock]) /\ (i - 1) + 1 = i
    <3>1. i # 1
      BY <1>1, <1>2, <2>1
    <3>2. Len(down[sock]) \in Nat /\ Len(down'[sock]) = Len(down[sock]) - 1
      BY <1>2
    <3> QED
      BY <3>1, <3>2
  <2> QED
    BY <1>2, <2>1
<1>10. LossPending' <=> LossPending
  <2>1. (\E i \in 1 .. Len(down'[sock]) : IsReply(down'[sock][i]) /\ down'[sock][i].lost)
          <=> \E i \in 1 .. Len(down[sock]) : IsReply(down[sock][i]) /\ down[sock][i].lost
    BY <1>2, <1>9
  <2> QED
    BY <1>4, <2>1 DEF LossPending
<1>11. SocketInv'
  BY <1>2, <1>4 DEF SocketInv, Waiting, Alive
<1>12. PhaseInv'
  <2>1. ASSUME NEW i \in 1 .. Len(down'[sock]), IsReply(down'[sock][i])
        PROVE  /\ phase = "open" /\ ~Waiting(sock) /\ handler[sock] # "resolved"
               /\ \A j \in 1 .. Len(down'[sock]) : IsReply(down'[sock][j]) => i = j
    <3>1. i + 1 \in 1 .. Len(down[sock]) /\ IsReply(down[sock][i + 1])
      BY <1>2, <2>1
    <3>2. ASSUME NEW j \in 1 .. Len(down'[sock]), IsReply(down'[sock][j]) PROVE i = j
      <4>1. i + 1 = j + 1
        BY <1>2, <3>1, <3>2 DEF PhaseInv
      <4> QED
        BY <4>1
    <3>3. phase = "open" /\ ~Waiting(sock) /\ handler[sock] # "resolved"
      BY <1>2, <3>1 DEF PhaseInv
    <3> QED
      BY <3>2, <3>3
  <2> QED
    BY <1>2, <1>4, <2>1 DEF PhaseInv, Waiting, Alive
<1>13. CoverInv'
  <2>1. registry # 0 /\ ~LossPending => bytesAcked' <= Count
    BY <1>5, <1>6, <1>7, <1>8 DEF CoverInv
  <2>2. UNCHANGED <<registry, phase, sock, session, up, bytesSent>> /\ (Counting' <=> Counting)
        /\ \A s \in Socket : Writing(s)' = Writing(s) /\ (Alive(s)' <=> Alive(s))
    BY <1>4 DEF Counting, Writing, Alive
  <2> QED
    BY <1>2, <1>5, <1>10, <2>1, <2>2 DEF CoverInv
<1>14. ClaimInv'
  BY <1>4, <1>5, <1>6, <1>8 DEF ClaimInv, Waiting
<1>15. OrderInv' /\ TellInv' /\ EpochInv' /\ (CountInv => CountInv')
  BY <1>4, Stays DEF textVars, countVars
<1>16. AckInv'
  <2>1. \A s \in Socket : Waiting(s)' <=> Waiting(s)
    BY <1>4 DEF Waiting
  <2> QED
    BY <1>2, <1>4, <1>5, <2>1 DEF AckInv
<1>17. ReplyInv'
  <2>1. ASSUME phase = "open", NEW i \in 1 .. Len(down'[sock]), IsReply(down'[sock][i])
        PROVE  Holds(down[sock][i])'
    <3>1. PICK r : r = down[sock][i + 1] /\ r = down'[sock][i] /\ IsReply(r) /\ Holds(r)
      BY <1>2, <2>1 DEF ReplyInv
    <3>2. r.received \in Nat /\ r.lost \in BOOLEAN
      BY <1>2, <2>1, <3>1, OnTheWire
    <3>3. n <= r.received
      BY <1>1, <1>2, <1>3, <3>1 DEF Holds
    <3>4. ~r.lost => bytesAcked' <= r.received
      BY <1>5, <1>7, <1>8, <3>1, <3>2, <3>3 DEF Holds
    <3>5. \A j \in 1 .. Len(down'[sock]) : down'[sock][j].received <= r.received
      BY <1>2, <3>1 DEF Holds
    <3>6. Quiet' <=> Quiet
      BY <1>4 DEF Quiet, Alive
    <3>7. Holds(r)'
      BY <1>4, <1>5, <3>1, <3>4, <3>5, <3>6 DEF Holds, Alive
    <3> QED
      BY <1>4, <3>1, <3>7
  <2> QED
    BY <1>4, <1>5, <2>1 DEF ReplyInv
<1>18. LossInv => LossInv'
  <2> SUFFICES ASSUME LossInv PROVE LossInv'
    OBVIOUS
  <2>1. Written(n)
    BY <1>1, <1>2, <1>3 DEF LossInv
  <2>2. \A b \in ToSet(outbox) : b \in ToSet(outbox') \cup Bytes
    BY <1>4, <2>1, TrimBy
  <2>3. \A b \in 1 .. typed : b \in ToSet(outbox') \cup Bytes \cup told
    BY <2>2 DEF LossInv
  <2> QED
    BY <1>2, <1>4, <1>5, <2>3 DEF LossInv, Written
<1> QED
  BY <1>5, <1>11, <1>12, <1>13, <1>14, <1>15, <1>16, <1>17, <1>18

\* A resumeAck arrives on a socket that waits for one, and what follows it are acks.
LEMMA ReplyArrives ==
  ASSUME OrderIInv, RecvResumeAck
  PROVE  /\ phase = "open" /\ sock \in Socket /\ IsReply(Arrived) /\ Holds(Arrived)
         /\ Arrived.received \in Nat /\ Arrived.lost \in BOOLEAN /\ Arrived.epoch \in Nat
         /\ ~Waiting(sock) /\ handler[sock] # "resolved"
         /\ \A t \in Socket : t # sock => down'[t] = down[t]
         /\ \A i \in 1 .. Len(down'[sock]) :
              /\ ~IsReply(down'[sock][i])
              /\ \E j \in 1 .. Len(down[sock]) : down'[sock][i] = down[sock][j]
<1> USE DEF OrderIInv, WireOrder, Ledger
<1>1. /\ sock \in Socket /\ phase # "down" /\ 1 \in 1 .. Len(down[sock])
      /\ Arrived = down[sock][1] /\ IsReply(Arrived)
      /\ \A i \in 1 .. Len(down'[sock]) :
           i + 1 \in 1 .. Len(down[sock]) /\ down'[sock][i] = down[sock][i + 1]
      /\ \A t \in Socket : t # sock => down'[t] = down[t]
  BY Consumed DEF RecvResumeAck, IsReply
<1>2. /\ phase = "open" /\ ~Waiting(sock) /\ handler[sock] # "resolved"
      /\ \A j \in 1 .. Len(down[sock]) : IsReply(down[sock][j]) => 1 = j
  BY <1>1 DEF PhaseInv
<1>3. ASSUME NEW i \in 1 .. Len(down'[sock])
      PROVE  ~IsReply(down'[sock][i]) /\ \E j \in 1 .. Len(down[sock]) : down'[sock][i] = down[sock][j]
  <2>1. i + 1 # 1
    OBVIOUS
  <2> QED
    BY <1>1, <1>2, <2>1
<1>4. Holds(Arrived)
  BY <1>1, <1>2 DEF ReplyInv
<1>5. Arrived.received \in Nat /\ Arrived.lost \in BOOLEAN /\ Arrived.epoch \in Nat
  BY <1>1, OnTheWire
<1> QED
  BY <1>1, <1>2, <1>3, <1>4, <1>5

\* A reset outbox starts over past everything typed so far.
LEMMA ResetInOrder ==
  ASSUME OrderIInv, IInv', RecvResumeAck, NEW notify \in BOOLEAN, ResetLedger(notify),
         UNCHANGED up, notify \/ bytesSent <= bytesAcked,
         Arrived.received = 0
  PROVE  OrderIInv'
<1> USE DEF OrderIInv, WireOrder, Ledger
<1>1. /\ phase = "open" /\ sock \in Socket /\ Holds(Arrived)
      /\ ~Waiting(sock) /\ handler[sock] # "resolved"
      /\ \A t \in Socket : t # sock => down'[t] = down[t]
      /\ \A i \in 1 .. Len(down'[sock]) :
           /\ ~IsReply(down'[sock][i])
           /\ \E j \in 1 .. Len(down[sock]) : down'[sock][i] = down[sock][j]
  BY ReplyArrives
<1>2. /\ lastEpoch' = Arrived.epoch /\ phase' = "acked"
      /\ outbox' = <<>> /\ bytesSent' = 0 /\ bytesAcked' = 0
      /\ told \subseteq told' /\ (notify => ToSet(outbox) \subseteq told')
      /\ UNCHANGED <<typed, sock, up, boot, registry, ledgers, handler, session, resumed,
                     lastAckSent, pass, pty>>
  BY DEF RecvResumeAck, server, ResetLedger
<1>3. /\ Base' = typed /\ Bytes' = Bytes /\ Count' = Count
      /\ typed \in Nat /\ Count \in Nat /\ \A b \in Bytes : b \in Nat
      /\ \A s \in Socket : Waiting(s)' = Waiting(s) /\ Writing(s)' = Writing(s)
                           /\ (Alive(s)' <=> Alive(s))
  <2>1. typed \in Nat /\ Count \in Nat /\ \A b \in Bytes : b \in Nat
    BY Ranges
  <2> QED
    BY <1>2, <2>1 DEF Base, Bytes, Count, Waiting, Writing, Alive
<1>4. /\ Quiet /\ (registry # 0 => Count = 0)
      /\ (Arrived.epoch # boot => registry = 0 /\ \A s \in Socket : ~Alive(s))
      /\ \A j \in 1 .. Len(down[sock]) : down[sock][j].received <= 0
  BY <1>1 DEF Holds
<1>5. \A s \in Socket : session[s] # 0 => Alive(s) /\ up[s] = <<>> /\ handler[s] # "wrote"
  <2>1. \A s \in Socket : session[s] # 0 => Alive(s)
    BY DEF SocketInv, Alive
  <2> QED
    BY <1>4, <2>1 DEF Quiet
<1>6. \A i \in 1 .. Len(down'[sock]) : down'[sock][i].received = 0
  <2>1. \A j \in 1 .. Len(down[sock]) : down[sock][j].received = 0
    BY <1>1, <1>4, OnTheWire
  <2> QED
    BY <1>1, <2>1
<1>7. SocketInv' /\ OrderInv' /\ TellInv'
  <2>1. SocketInv'
    BY <1>1, <1>2, <1>3 DEF SocketInv
  <2> QED
    BY <1>2, <2>1, Stays
<1>8. PhaseInv'
  BY <1>1, <1>2, <1>3, <1>4 DEF PhaseInv
<1>9. CoverInv'
  <2>1. \A b \in Bytes : b <= typed + Count
    BY <1>3 DEF OrderInv
  <2>2. Alive(sock) => 0 <= Count + Writing(sock) + Len(up[sock])
    BY <1>1, <1>3, OnTheWire DEF Writing
  <2> QED
    BY <1>1, <1>2, <1>3, <1>5, <2>1, <2>2 DEF CoverInv
<1>10. ClaimInv'
  BY <1>2, <1>3, <1>5 DEF ClaimInv, OrderInv
<1>11. AckInv' /\ ReplyInv'
  BY <1>2, <1>6 DEF AckInv, ReplyInv
<1>12. EpochInv'
  BY <1>2, <1>3, <1>4, <1>5 DEF EpochInv
<1>13. ~Reloaded' => ~Reloaded
  BY <1>2 DEF Reloaded
<1>14. CountInv => CountInv'
  <2> SUFFICES ASSUME CountInv PROVE CountInv'
    OBVIOUS
  <2>1. ASSUME NEW s \in Socket, session[s] # 0
        PROVE  /\ session[s] = registry /\ Writing(s) = 0 /\ Count = 0 /\ Len(up[s]) = 0
               /\ handler[s] # "wrote"
    <3>1. session[s] = registry /\ up[s] = <<>> /\ handler[s] # "wrote"
      BY <1>5, <2>1 DEF CountInv
    <3> QED
      BY <1>4, <2>1, <3>1 DEF Writing
  <2> QED
    BY <1>2, <1>3, <1>4, <2>1 DEF CountInv
<1>15. LossInv => LossInv'
  <2> SUFFICES ASSUME LossInv PROVE LossInv'
    OBVIOUS
  <2>1. ToSet(outbox) \subseteq told'
    <3>1. CASE notify
      BY <1>2, <3>1
    <3>2. CASE bytesSent <= bytesAcked
      <4>1. Len(outbox) = 0 /\ outbox \in Seq(Byte)
        BY <3>2 DEF IInv, TabInv
      <4>2. outbox = <<>>
        BY <4>1
      <4> QED
        BY <4>2 DEF ToSet
    <3> QED
      BY <3>1, <3>2
  <2>2. \A b \in 1 .. typed : b \in ToSet(outbox') \cup Bytes \cup told'
    BY <1>2, <2>1 DEF LossInv
  <2>3. Written(0)' /\ (registry # 0 => Written(Count)')
    BY <1>3, <1>4 DEF Written
  <2> QED
    BY <1>2, <1>3, <1>6, <2>2, <2>3 DEF LossInv
<1> QED
  BY <1>7, <1>8, <1>9, <1>10, <1>11, <1>12, <1>13, <1>14, <1>15

\* What is accepted is replayed: the tail of what was typed that the ledger does not
\* cover, and the ledger will count it in turn.
LEMMA AcceptInOrder ==
  ASSUME OrderIInv, IInv', RecvResumeAck, ~Arrived.lost, ApplyAck(Arrived.received),
         NEW replay, replay = Trimmed(Arrived.received).rest,
         Send(sock, [i \in 1 .. Len(replay) |-> Input(replay[i])]),
         UNCHANGED <<bytesSent, told>>
  PROVE  OrderIInv'
<1> USE DEF OrderIInv, WireOrder, Ledger
<1>1. /\ phase = "open" /\ sock \in Socket /\ Holds(Arrived)
      /\ ~Waiting(sock) /\ handler[sock] # "resolved"
      /\ \A t \in Socket : t # sock => down'[t] = down[t]
      /\ \A i \in 1 .. Len(down'[sock]) :
           /\ ~IsReply(down'[sock][i])
           /\ \E j \in 1 .. Len(down[sock]) : down'[sock][i] = down[sock][j]
  BY ReplyArrives
<1>2. PICK n \in Nat : n = Arrived.received
  BY ReplyArrives
<1>3. PICK a \in Nat : a = Trimmed(n).acked
  BY TrimBy
<1>4. /\ lastEpoch' = Arrived.epoch /\ phase' = "acked"
      /\ outbox' = replay /\ bytesAcked' = a
      /\ up' = [up EXCEPT ![sock] = @ \o [i \in 1 .. Len(replay) |-> Input(replay[i])]]
      /\ UNCHANGED <<typed, bytesSent, told, sock, boot, registry, ledgers, handler, session,
                     resumed, lastAckSent, pass, pty>>
  BY <1>2, <1>3 DEF RecvResumeAck, server, ApplyAck, Send
<1>5. /\ Base \in Nat /\ Count \in Nat /\ bytesSent \in Nat /\ bytesAcked \in Nat
      /\ typed \in Nat /\ typed = Base + bytesSent
  BY Ranges
<1>6. /\ Base' = Base /\ Bytes' = Bytes /\ Count' = Count /\ (Reloaded' <=> Reloaded)
      /\ \A s \in Socket : Waiting(s)' = Waiting(s) /\ Writing(s)' = Writing(s)
                           /\ (Alive(s)' <=> Alive(s))
  BY <1>4 DEF Base, Bytes, Count, Waiting, Writing, Alive, Reloaded
<1>7. /\ Quiet /\ (registry # 0 => Count = n)
      /\ (Arrived.epoch # boot => registry = 0 /\ \A s \in Socket : ~Alive(s))
      /\ (\A j \in 1 .. Len(down[sock]) : down[sock][j].received <= n)
      /\ bytesAcked <= n /\ \A b \in Bytes : b <= Base + n
  BY <1>1, <1>2 DEF Holds
<1>8. \A s \in Socket : session[s] # 0 => Alive(s) /\ up[s] = <<>> /\ handler[s] # "wrote"
  <2>1. \A s \in Socket : session[s] # 0 => Alive(s)
    BY DEF SocketInv, Alive
  <2> QED
    BY <1>7, <2>1 DEF Quiet
<1>9. a <= n /\ a <= bytesSent /\ (n <= bytesSent => a = n) /\ (n > bytesSent => a = bytesSent)
  <2>1. /\ (n <= bytesAcked /\ a = bytesAcked) \/ (bytesAcked < n /\ a <= n /\ a \in {n, bytesSent})
        /\ a <= bytesSent
    BY <1>3, TrimBy
  <2> QED
    BY <1>5, <1>7, <2>1
<1>10. /\ Len(replay) \in Nat /\ Len(replay) = bytesSent - a
       /\ \A i \in 1 .. Len(replay) : replay[i] = typed - Len(replay) + i
  BY <1>2, <1>3, TrimKeepsTail DEF IInv, EndsAt
<1>11. \A i \in 1 .. Len(replay) : replay[i] = Base + a + i
  <2>1. typed - Len(replay) = Base + a
    BY <1>5, <1>9, <1>10
  <2> QED
    BY <1>10, <2>1
<1>12. session[sock] # 0 =>
         /\ Len(up'[sock]) = Len(replay)
         /\ \A i \in 1 .. Len(replay) : up'[sock][i] = Input(replay[i])
  BY <1>1, <1>4, <1>8, <1>10 DEF IInv, WireInv
<1>13. ASSUME NEW s \in Socket, session[s] # 0
       PROVE  \/ s # sock /\ up'[s] = <<>> /\ Len(up'[s]) = 0
              \/ /\ s = sock /\ Len(up'[s]) = Len(replay)
                 /\ \A i \in 1 .. Len(up'[s]) :
                      up'[s][i].kind = "input" /\ up'[s][i].byte = Base + a + i
  <2>1. CASE s = sock
    BY <1>11, <1>12, <1>13, <2>1 DEF Input
  <2>2. CASE s # sock
    BY <1>4, <1>8, <1>13, <2>2 DEF IInv, WireInv
  <2> QED
    BY <2>1, <2>2
<1>14. Len(replay) > 0 => a = n /\ Base + a + Len(replay) = typed
  BY <1>5, <1>9, <1>10
<1>15. handler[sock] # "none" /\ (Alive(sock) <=> session[sock] # 0)
       /\ \A s \in Socket : s # sock => up'[s] = up[s]
  <2>1. handler[sock] # "none"
    <3>1. ~(sock > sock)
      BY Ranges
    <3> QED
      BY <1>1, <3>1 DEF SocketInv
  <2>2. Alive(sock) <=> session[sock] # 0
    BY <1>1, <2>1, AtTheServer DEF SocketInv, Waiting, Alive
  <2> QED
    BY <1>4, <2>1, <2>2 DEF IInv, WireInv
<1>16. SocketInv'
  <2>1. ASSUME NEW s \in Socket, session[s] # 0
        PROVE  /\ \A i \in 1 .. Len(up'[s]) : up'[s][i].kind = "input"
               /\ \A t \in Socket : t < s /\ Alive(t) => up'[t] = <<>> /\ handler[t] # "wrote"
    <3>1. \A i \in 1 .. Len(up'[s]) : up'[s][i].kind = "input"
      BY <1>13, <2>1
    <3>2. ~(s > sock)
      BY <1>8, <2>1 DEF SocketInv, Alive
    <3>3. ASSUME NEW t \in Socket, t < s, Alive(t)
          PROVE  up'[t] = <<>> /\ handler[t] # "wrote"
      <4>1. t # sock
        BY <3>2, <3>3, Ranges
      <4> QED
        BY <1>7, <1>15, <3>3, <4>1 DEF Quiet
    <3> QED
      BY <3>1, <3>3
  <2>2. \A s \in Socket : handler[s] = "none" \/ Waiting(s) => up'[s] = up[s]
    BY <1>1, <1>15
  <2>3. \A s \in Socket : down'[s] # <<>> => s = sock
    BY <1>1 DEF SocketInv
  <2>4. UNCHANGED <<sock, handler, session>> /\ phase' = "acked"
    BY <1>4
  <2>5. ASSUME NEW s \in Socket, Waiting(s)'
        PROVE  Len(up'[s]) = 1 /\ up'[s][1].kind = "resume"
    BY <1>6, <2>2, <2>5 DEF SocketInv
  <2> QED
    BY <1>6, <2>1, <2>2, <2>3, <2>4, <2>5 DEF SocketInv
<1>17. PhaseInv'
  BY <1>1, <1>4, <1>6, <1>7 DEF PhaseInv
<1>18. OrderInv'
  <2>1. ASSUME NEW s \in Socket, session[s] # 0, NEW i \in 1 .. Len(up'[s])
        PROVE  /\ up'[s][i].byte = Base + a + i /\ i <= Len(replay) /\ a = n
               /\ up'[s][i].byte <= typed /\ \A b \in Bytes : b < up'[s][i].byte
    <3>1. up'[s][i].byte = Base + a + i /\ i \in 1 .. Len(replay)
      BY <1>13, <2>1
    <3>2. a = n /\ Base + a + Len(replay) = typed
      BY <1>10, <1>14, <3>1
    <3>3. Base + a + i <= typed
      BY <1>5, <1>10, <3>1, <3>2
    <3>4. \A b \in Bytes : b < Base + a + i
      BY <1>5, <1>7, <3>1, <3>2, Ranges
    <3> QED
      BY <3>1, <3>2, <3>3, <3>4
  <2>2. \A s \in Socket : session[s] # 0 =>
          \A i, j \in 1 .. Len(up'[s]) : i < j => up'[s][i].byte < up'[s][j].byte
    BY <1>5, <2>1
  <2> QED
    BY <1>4, <1>6, <2>1, <2>2 DEF OrderInv
<1>19. CoverInv'
  <2>1. registry # 0 => bytesAcked' <= Count /\ \A b \in Bytes : b <= Base + Count
    BY <1>4, <1>7, <1>9
  <2>2. ASSUME session[sock] # 0
        PROVE  session[sock] = registry /\ Count = n /\ Writing(sock) = 0
               /\ Len(up'[sock]) = bytesSent - a
    BY <1>1, <1>7, <1>8, <1>10, <1>12, <2>2 DEF PhaseInv, Writing
  <2>3. ASSUME NEW s \in Socket, session[s] # 0, NEW i \in 1 .. Len(up'[s])
        PROVE  session[s] = registry /\ up'[s][i].byte <= Base + Count + Writing(s) + i
    <3>1. s = sock /\ up'[s][i].byte = Base + a + i
      BY <1>13, <2>3
    <3>2. session[sock] = registry /\ Count = n /\ Writing(sock) = 0
      BY <2>2, <2>3, <3>1
    <3>3. Base + a + i <= Base + n + 0 + i
      BY <1>5, <1>9
    <3> QED
      BY <3>1, <3>2, <3>3
  <2>4. session[sock] # 0 => bytesSent <= Count + Writing(sock) + Len(up'[sock])
    <3> SUFFICES ASSUME session[sock] # 0
                 PROVE  bytesSent <= Count + Writing(sock) + Len(up'[sock])
      OBVIOUS
    <3>1. Count = n /\ Writing(sock) = 0 /\ Len(up'[sock]) = bytesSent - a
      BY <2>2
    <3>2. bytesSent <= n + 0 + (bytesSent - a)
      BY <1>5, <1>9
    <3> QED
      BY <3>1, <3>2
  <2>5. UNCHANGED <<registry, session, sock, bytesSent>> /\ phase' = "acked"
    BY <1>4
  <2>6. \A b \in Bytes' :
          registry' # 0 => b <= Base' + Count' \/ (Counting' /\ b <= Base' + Count' + 1)
    BY <1>6, <2>1, <2>5
  <2>7. Alive(sock)' => bytesSent' <= Count' + Writing(sock)' + Len(up'[sock])
    BY <1>1, <1>6, <1>15, <2>4, <2>5
  <2> QED
    BY <1>1, <1>6, <2>1, <2>3, <2>5, <2>6, <2>7 DEF CoverInv
<1>20. ClaimInv'
  <2>1. \A s \in Socket : ~Waiting(s)
    <3>1. ASSUME NEW s \in Socket, Waiting(s) PROVE FALSE
      <4>1. Alive(s) /\ Len(up[s]) = 1
        BY <3>1 DEF SocketInv, Waiting, Alive
      <4>2. up[s] = <<>>
        BY <1>7, <4>1 DEF Quiet
      <4> QED
        BY <4>1, <4>2
    <3> QED
      BY <3>1
  <2> QED
    BY <1>6, <2>1 DEF ClaimInv
<1>21. TellInv'
  BY <1>4, Stays
<1>22. AckInv' /\ ReplyInv'
  <2>1. \A i \in 1 .. Len(down[sock]) : ~IsReply(down[sock][i]) =>
          \/ down[sock][i].received = 0
          \/ /\ \A s \in Socket : ~Waiting(s)
             /\ registry # 0 => down[sock][i].received <= Count
    BY <1>1 DEF AckInv
  <2> QED
    BY <1>1, <1>4, <1>6, <2>1 DEF AckInv, ReplyInv
<1>23. EpochInv'
  <2>1. Arrived.epoch # boot => registry = 0 /\ \A s \in Socket : session[s] = 0
    BY <1>7, <1>8
  <2> QED
    BY <1>4, <1>6, <2>1 DEF EpochInv
<1>24. CountInv => CountInv'
  <2> SUFFICES ASSUME CountInv PROVE CountInv'
    OBVIOUS
  <2>1. ASSUME NEW s \in Socket, session[s] # 0
        PROVE  /\ session[s] = registry /\ Writing(s) = 0 /\ handler[s] # "wrote"
               /\ Count = n /\ n <= bytesSent
    <3>1. session[s] = registry /\ handler[s] # "wrote"
      BY <1>8, <2>1 DEF CountInv
    <3>2. Count = n /\ Count <= bytesSent
      BY <1>7, <2>1, <3>1 DEF CountInv
    <3> QED
      BY <3>1, <3>2 DEF Writing
  <2>2. ASSUME NEW s \in Socket, session[s] # 0
        PROVE  /\ Count + Writing(s) + Len(up'[s]) <= bytesSent
               /\ \A i \in 1 .. Len(up'[s]) : up'[s][i].byte = Base + Count + Writing(s) + i
    <3>1. a = n /\ Count = n /\ Writing(s) = 0 /\ n <= bytesSent
      BY <1>9, <2>1, <2>2
    <3>2. CASE s # sock /\ up'[s] = <<>> /\ Len(up'[s]) = 0
      BY <1>5, <3>1, <3>2
    <3>3. CASE s = sock /\ Len(up'[s]) = Len(replay)
               /\ \A i \in 1 .. Len(up'[s]) : up'[s][i].byte = Base + a + i
      <4>1. n + 0 + (bytesSent - n) <= bytesSent /\ Len(up'[s]) = bytesSent - n
        BY <1>5, <1>10, <3>1, <3>3
      <4>2. \A i \in 1 .. Len(up'[s]) : Base + n + i = Base + n + 0 + i
        BY <1>5
      <4> QED
        BY <3>1, <3>3, <4>1, <4>2
    <3> QED
      BY <1>13, <2>2, <3>2, <3>3
  <2> QED
    BY <1>4, <1>6, <2>1, <2>2 DEF CountInv
<1>25. LossInv => LossInv'
  <2> SUFFICES ASSUME LossInv PROVE LossInv'
    OBVIOUS
  <2>1. Written(n)
    <3>1. 1 \in 1 .. Len(down[sock]) /\ Arrived = down[sock][1] /\ phase # "down"
      BY Consumed DEF RecvResumeAck
    <3> QED
      BY <1>2, <3>1 DEF LossInv
  <2>2. \A b \in ToSet(outbox) : b \in ToSet(outbox') \cup Bytes
    BY <1>2, <1>4, <2>1, TrimBy
  <2>3. \A b \in 1 .. typed : b \in ToSet(outbox') \cup Bytes \cup told
    BY <2>2 DEF LossInv
  <2>4. \A i \in 1 .. Len(down'[sock]) : Written(down'[sock][i].received)
    BY <1>1 DEF LossInv
  <2> QED
    BY <1>4, <1>6, <2>3, <2>4 DEF LossInv, Written
<1> QED
  BY <1>6, <1>16, <1>17, <1>18, <1>19, <1>20, <1>21, <1>22, <1>23, <1>24, <1>25

\* Handling a resumeAck.
LEMMA RecvResumeAckInOrder == ASSUME OrderIInv, IInv', RecvResumeAck PROVE OrderIInv'
<1>1. /\ Holds(Arrived) /\ Arrived.received \in Nat /\ Arrived.epoch \in Nat
      /\ bytesAcked \in Nat /\ bytesSent \in Nat
  BY ReplyArrives, Ranges DEF OrderIInv
<1>2. CASE Restarted /\ ResetLedger(TRUE) /\ UNCHANGED up
  BY <1>1, <1>2, ResetInOrder DEF Restarted, Holds
<1>3. CASE /\ Arrived.lost \/ (Arrived.received = 0 /\ bytesAcked > 0)
           /\ ResetLedger(bytesSent > bytesAcked) /\ UNCHANGED up
  <2>1. Arrived.received = 0
    BY <1>1, <1>3 DEF Holds
  <2>2. (bytesSent > bytesAcked) \in BOOLEAN /\ (bytesSent > bytesAcked \/ bytesSent <= bytesAcked)
    BY <1>1
  <2> QED
    BY <1>3, <2>1, <2>2, ResetInOrder
<1>4. CASE /\ ~Arrived.lost /\ ApplyAck(Arrived.received)
           /\ LET replay == Trimmed(Arrived.received).rest IN
                Send(sock, [i \in 1 .. Len(replay) |-> Input(replay[i])])
           /\ UNCHANGED <<bytesSent, told>>
  BY <1>4, AcceptInOrder
<1> QED
  BY <1>2, <1>3, <1>4 DEF RecvResumeAck

-----------------------------------------------------------------------------
(* The read loops.                                                         *)

\* While something is read or counted on a socket, no newer one has been resumed,
\* and no resumeAck is under way.
LEMMA NoneNewer ==
  ASSUME OrderIInv, NEW s \in Socket, Alive(s), up[s] # <<>> \/ handler[s] = "wrote"
  PROVE  /\ \A t \in Socket : s < t => session[t] = 0
         /\ phase # "down" /\ s # sock => session[sock] = 0
         /\ ~Quiet
         /\ phase = "open" => \A i \in 1 .. Len(down[sock]) : ~IsReply(down[sock][i])
<1> USE DEF OrderIInv, WireOrder, Ledger
<1>1. \A t \in Socket : s < t => session[t] = 0
  BY DEF SocketInv
<1>2. phase # "down" /\ s # sock => sock \in Socket /\ s < sock
  <2>1. ~(s > sock) /\ s \in Nat /\ sock \in Nat /\ (phase # "down" => sock \in Socket)
    BY Ranges DEF SocketInv, Alive
  <2> QED
    BY <2>1
<1>3. ~Quiet
  BY DEF Quiet
<1>4. phase = "open" => \A i \in 1 .. Len(down[sock]) : ~IsReply(down[sock][i])
  BY <1>3 DEF ReplyInv, Holds
<1> QED
  BY <1>1, <1>2, <1>3, <1>4

\* What a read takes and leaves.
LEMMA Taken ==
  ASSUME OrderIInv, NEW s \in Socket, Reading(s), Drop(s)
  PROVE  /\ handler[s] = "reading" /\ Alive(s) /\ up[s] # <<>>
         /\ Len(up[s]) \in Nat /\ 1 \in 1 .. Len(up[s]) /\ Head(up[s]) = up[s][1]
         /\ Len(up'[s]) = Len(up[s]) - 1
         /\ \A i \in 1 .. Len(up'[s]) :
              i + 1 \in 1 .. Len(up[s]) /\ up'[s][i] = up[s][i + 1]
         /\ \A t \in Socket : t # s => up'[t] = up[t]
<1>1. handler[s] = "reading" /\ up[s] # <<>> /\ up[s] \in Seq(Request)
  BY OnTheWire DEF Reading, OrderIInv
<1>2. up'[s] = Tail(up[s]) /\ \A t \in Socket : t # s => up'[t] = up[t]
  BY DEF Drop, OrderIInv, IInv, WireInv
<1>3. /\ Len(up[s]) \in Nat /\ 1 \in 1 .. Len(up[s]) /\ Head(up[s]) = up[s][1]
      /\ Len(Tail(up[s])) = Len(up[s]) - 1
      /\ \A i \in 1 .. Len(Tail(up[s])) :
           i + 1 \in 1 .. Len(up[s]) /\ Tail(up[s])[i] = up[s][i + 1]
  BY <1>1
<1> QED
  BY <1>1, <1>2, <1>3 DEF Alive

\* A byte read is a byte being counted.
LEMMA MovesOn ==
  ASSUME NEW c \in Nat, NEW n \in Nat
  PROVE  c + 1 + (n - 1) = c + 0 + n
OBVIOUS

\* The PTY write.
LEMMA WriteInOrder ==
  ASSUME OrderIInv, IInv', NEW s \in Socket, WritePTY(s) PROVE OrderIInv'
<1> USE DEF OrderIInv, WireOrder, Ledger
<1>1. PICK b : b = up[s][1].byte
  OBVIOUS
<1>2. /\ handler[s] = "reading" /\ Alive(s) /\ up[s] # <<>>
      /\ Len(up[s]) \in Nat /\ 1 \in 1 .. Len(up[s]) /\ up[s][1].kind = "input"
      /\ Len(up'[s]) = Len(up[s]) - 1
      /\ \A i \in 1 .. Len(up'[s]) :
           i + 1 \in 1 .. Len(up[s]) /\ up'[s][i] = up[s][i + 1]
      /\ \A t \in Socket : t # s => up'[t] = up[t]
      /\ pty' = Append(pty, b)
  BY <1>1, Taken DEF WritePTY
<1>3. session[s] # 0
  BY <1>2 DEF SocketInv, Waiting
<1>4. /\ handler' = [handler EXCEPT ![s] = "wrote"] /\ handler'[s] = "wrote"
      /\ (\A t \in Socket : t # s => handler'[t] = handler[t])
      /\ UNCHANGED <<typed, outbox, bytesSent, bytesAcked, lastEpoch, sock, phase, told, down,
                     boot, registry, ledgers, session, resumed, lastAckSent, pass>>
  BY DEF WritePTY, tab, IInv, LedgerInv
<1>5. /\ \A t \in Socket : s < t => session[t] = 0
      /\ phase # "down" /\ s # sock => session[sock] = 0
      /\ ~Quiet
      /\ phase = "open" => \A i \in 1 .. Len(down[sock]) : ~IsReply(down[sock][i])
  BY <1>2, NoneNewer
<1>6. \A t \in Socket : t # s /\ session[t] # 0 =>
        Alive(t) /\ up[t] = <<>> /\ handler[t] # "wrote" /\ up'[t] = <<>>
  <2>1. \A t \in Socket : t # s /\ session[t] # 0 => t < s /\ Alive(t)
    BY <1>5, Ranges DEF SocketInv, Alive
  <2> QED
    BY <1>2, <1>3, <2>1 DEF SocketInv
<1>7. /\ Base' = Base /\ Count' = Count /\ (Reloaded' <=> Reloaded)
      /\ Bytes' = Bytes \cup {b}
  <2>1. DOMAIN pty' = 1 .. Len(pty) + 1 /\ pty'[Len(pty) + 1] = b
        /\ \A i \in 1 .. Len(pty) : pty'[i] = pty[i]
    BY <1>2, GivenToChild
  <2>2. ToSet(pty') = ToSet(pty) \cup {b}
    <3>1. Len(pty) \in Nat /\ DOMAIN pty = 1 .. Len(pty)
      BY GivenToChild
    <3>2. \A i \in DOMAIN pty' : i \in DOMAIN pty \/ i = Len(pty) + 1
      BY <2>1, <3>1
    <3>3. DOMAIN pty \subseteq DOMAIN pty' /\ Len(pty) + 1 \in DOMAIN pty'
      BY <2>1, <3>1
    <3> QED
      BY <2>1, <3>1, <3>2, <3>3 DEF ToSet
  <2> QED
    BY <1>4, <2>2 DEF Base, Count, Bytes, Reloaded
<1>8. /\ Base \in Nat /\ Count \in Nat /\ typed \in Nat /\ b \in Nat /\ b <= typed
      /\ \A c \in Bytes : c \in Nat /\ c < b
      /\ Len(up[s]) \in Nat
      /\ \A i \in 1 .. Len(up[s]) : up[s][i].kind = "input" /\ up[s][i].byte \in Nat
  BY <1>1, <1>2, <1>3, Ranges, OnlyInput DEF OrderInv
<1>9. /\ \A t \in Socket : Alive(t)' <=> Alive(t)
      /\ \A t \in Socket : Waiting(t)' <=> Waiting(t)
      /\ Writing(s) = 0 /\ Writing(s)' = 1
      /\ \A t \in Socket : t # s => Writing(t)' = Writing(t)
  BY <1>2, <1>3, <1>4 DEF Alive, Waiting, Writing
<1>10. LossPending' <=> LossPending
  BY <1>2, <1>4 DEF LossPending
<1>11. SocketInv'
  <2>1. ASSUME NEW t \in Socket, session[t] # 0
        PROVE  /\ \A i \in 1 .. Len(up'[t]) : up'[t][i].kind = "input"
               /\ \A v \in Socket : v < t /\ Alive(v) => up'[v] = <<>> /\ handler'[v] # "wrote"
    <3>1. \A i \in 1 .. Len(up'[t]) : up'[t][i].kind = "input"
      <4>1. CASE t = s
        BY <1>2, <1>8, <4>1
      <4>2. CASE t # s
        BY <1>2, <2>1, <4>2 DEF SocketInv
      <4> QED
        BY <4>1, <4>2
    <3>2. \A v \in Socket : v < t /\ Alive(v) => v # s
      BY <1>5, <2>1
    <3> QED
      BY <1>2, <1>4, <2>1, <3>1, <3>2 DEF SocketInv
  <2>2. \A t \in Socket : Waiting(t) \/ handler'[t] = "none" => up'[t] = up[t]
    BY <1>2, <1>3, <1>4 DEF Waiting
  <2>3. \A t \in Socket : handler'[t] = "none" <=> handler[t] = "none"
    BY <1>2, <1>4
  <2> QED
    BY <1>3, <1>4, <1>9, <2>1, <2>2, <2>3 DEF SocketInv
<1>12. PhaseInv'
  <2>1. s = sock => phase # "open"
    BY <1>2, <1>3 DEF PhaseInv
  <2>2. Waiting(sock) => sock # s
    BY <1>3 DEF Waiting
  <2>3. phase # "down" => sock \in Socket
    BY Ranges
  <2>4. phase # "down" => /\ (Waiting(sock)' <=> Waiting(sock)) /\ (Alive(sock)' <=> Alive(sock))
                          /\ (handler'[sock] = "resolved" <=> handler[sock] = "resolved")
    BY <1>2, <1>4, <1>9, <2>3
  <2>5. phase # "down" /\ s # sock => up'[sock] = up[sock] /\ handler'[sock] = handler[sock]
    BY <1>2, <1>4, <2>3
  <2> QED
    BY <1>4, <2>1, <2>2, <2>4, <2>5 DEF PhaseInv
<1>13. OrderInv'
  <2>1. \A i, j \in 1 .. Len(pty') : i < j => pty'[i] < pty'[j]
    <3>1. /\ Len(pty) \in Nat /\ Len(pty') = Len(pty) + 1 /\ pty'[Len(pty) + 1] = b
          /\ \A i \in 1 .. Len(pty) : pty'[i] = pty[i] /\ pty[i] < b
      BY <1>2, <1>8, GivenToChild
    <3>2. \A i, j \in 1 .. Len(pty) : i < j => pty[i] < pty[j]
      BY DEF OrderInv
    <3>3. ASSUME NEW i \in 1 .. Len(pty'), NEW j \in 1 .. Len(pty'), i < j
          PROVE  pty'[i] < pty'[j]
      <4>1. i \in 1 .. Len(pty)
        BY <3>1, <3>3
      <4>2. CASE j \in 1 .. Len(pty)
        BY <3>1, <3>2, <3>3, <4>1, <4>2
      <4>3. CASE j = Len(pty) + 1
        BY <3>1, <4>1, <4>3
      <4> QED
        BY <3>1, <4>2, <4>3
    <3> QED
      BY <3>3
  <2>2. ASSUME NEW t \in Socket, session[t] # 0
        PROVE  /\ \A i \in 1 .. Len(up'[t]) :
                    up'[t][i].byte <= typed /\ \A c \in Bytes \cup {b} : c < up'[t][i].byte
               /\ \A i, j \in 1 .. Len(up'[t]) : i < j => up'[t][i].byte < up'[t][j].byte
    <3>1. CASE t # s
      <4>1. up'[t] = <<>> /\ Len(up'[t]) = 0
        BY <1>6, <2>2, <3>1
      <4> QED
        BY <4>1
    <3>2. CASE t = s
      <4>1. /\ \A i \in 1 .. Len(up[s]) : up[s][i].byte <= typed /\ \A c \in Bytes : c < up[s][i].byte
            /\ \A i, j \in 1 .. Len(up[s]) : i < j => up[s][i].byte < up[s][j].byte
        BY <1>3 DEF OrderInv
      <4>2. ASSUME NEW i \in 1 .. Len(up'[s])
            PROVE  /\ up'[s][i].byte <= typed
                   /\ \A c \in Bytes \cup {b} : c < up'[s][i].byte
        <5>1. i + 1 \in 1 .. Len(up[s]) /\ 1 < i + 1
          BY <1>2, <1>8
        <5>2. up'[s][i] = up[s][i + 1]
          BY <1>2
        <5>3. b < up[s][i + 1].byte
          BY <1>1, <1>2, <4>1, <5>1
        <5> QED
          BY <4>1, <5>1, <5>2, <5>3
      <4>3. ASSUME NEW i \in 1 .. Len(up'[s]), NEW j \in 1 .. Len(up'[s]), i < j
            PROVE  up'[s][i].byte < up'[s][j].byte
        <5>1. i + 1 < j + 1
          BY <4>3
        <5>2. /\ i + 1 \in 1 .. Len(up[s]) /\ up'[s][i] = up[s][i + 1]
              /\ j + 1 \in 1 .. Len(up[s]) /\ up'[s][j] = up[s][j + 1]
          BY <1>2
        <5>3. up[s][i + 1].byte < up[s][j + 1].byte
          BY <4>1, <5>1, <5>2
        <5> QED
          BY <5>2, <5>3
      <4> QED
        BY <3>2, <4>2, <4>3
    <3> QED
      BY <3>1, <3>2
  <2>3. \A c \in Bytes \cup {b} : c <= typed
    BY <1>8 DEF OrderInv
  <2> QED
    BY <1>4, <1>7, <2>1, <2>2, <2>3 DEF OrderInv
<1>14. b <= Base \/ (session[s] = registry /\ b <= Base + Count + 1)
  <2>1. b <= Base \/ (session[s] = registry /\ b <= Base + Count + Writing(s) + 1)
    BY <1>1, <1>2, <1>3 DEF CoverInv
  <2> QED
    BY <1>8, <1>9, <2>1
<1>15. CoverInv'
  <2>1. ~Counting
    BY <1>2, <1>6 DEF Counting, SocketInv
  <2>2. registry # 0 /\ ~LossPending =>
          bytesAcked <= Count /\ \A c \in Bytes : c <= Base + Count
    BY <2>1 DEF CoverInv
  <2>3. session[s] = registry => Counting'
    BY <1>4 DEF Counting
  <2>4. registry # 0 /\ ~LossPending =>
          \A c \in Bytes \cup {b} : c <= Base + Count \/ (Counting' /\ c <= Base + Count + 1)
    BY <1>8, <1>14, <2>2, <2>3
  <2>5. ASSUME NEW t \in Socket, session[t] # 0, NEW i \in 1 .. Len(up'[t])
        PROVE  \/ up'[t][i].byte <= Base
               \/ session[t] = registry /\ up'[t][i].byte <= Base + Count + Writing(t)' + i
    <3>1. t = s
      <4>1. t # s => up'[t] = <<>> /\ Len(up'[t]) = 0
        BY <1>6, <2>5
      <4> QED
        BY <2>5, <4>1
    <3>2. i + 1 \in 1 .. Len(up[s]) /\ up'[s][i] = up[s][i + 1]
      BY <1>2, <2>5, <3>1
    <3>3. \/ up[s][i + 1].byte <= Base
          \/ session[s] = registry /\ up[s][i + 1].byte <= Base + Count + Writing(s) + (i + 1)
      BY <1>3, <3>2 DEF CoverInv
    <3>4. Base + Count + 0 + (i + 1) = Base + Count + 1 + i
      BY <1>8
    <3> QED
      BY <1>9, <3>1, <3>2, <3>3, <3>4
  <2>6. phase = "acked" /\ Alive(sock) => bytesSent <= Count + Writing(sock)' + Len(up'[sock])
    <3> SUFFICES ASSUME phase = "acked", Alive(sock)
                 PROVE  bytesSent <= Count + Writing(sock)' + Len(up'[sock])
      OBVIOUS
    <3>1. sock \in Socket /\ bytesSent <= Count + Writing(sock) + Len(up[sock])
      BY Ranges DEF CoverInv
    <3>2. CASE sock = s
      <4>1. Writing(s) = 0 /\ Writing(s)' = 1 /\ Len(up'[s]) = Len(up[s]) - 1
        BY <1>2, <1>9
      <4>2. Count \in Nat /\ Len(up[s]) \in Nat /\ bytesSent \in Nat
        BY <1>8, Ranges
      <4>3. bytesSent <= Count + 0 + Len(up[s])
        BY <3>1, <3>2, <4>1
      <4>4. bytesSent <= Count + 1 + (Len(up[s]) - 1)
        BY <4>2, <4>3, MovesOn
      <4>5. Writing(sock)' = 1 /\ Len(up'[sock]) = Len(up[s]) - 1
        BY <1>4, <3>2, <4>1
      <4> QED
        BY <4>4, <4>5
    <3>3. CASE sock # s
      <4>1. up'[sock] = up[sock] /\ Writing(sock)' = Writing(sock)
        BY <1>2, <1>4, <1>9, <3>1, <3>3 DEF Writing
      <4> QED
        BY <3>1, <4>1
    <3> QED
      BY <3>2, <3>3
  <2>7. (phase = "acked" /\ Alive(sock))' <=> phase = "acked" /\ Alive(sock)
    BY <1>4, <1>9, Ranges
  <2> QED
    BY <1>4, <1>7, <1>10, <2>2, <2>4, <2>5, <2>6, <2>7 DEF CoverInv
<1>16. ClaimInv'
  <2>1. ASSUME NEW t \in Socket, Waiting(t), up'[t][1].sent = 0
        PROVE  /\ bytesAcked = 0 /\ (\A c \in Bytes : c <= Base)
               /\ \A i \in 1 .. Len(up[s]) : up[s][i].byte <= Base
               /\ \A v \in Socket : session[v] # 0 => \A i \in 1 .. Len(up[v]) : up[v][i].byte <= Base
    <3>1. up'[t] = up[t]
      BY <1>2, <1>3, <2>1 DEF Waiting
    <3> QED
      BY <1>3, <2>1, <3>1 DEF ClaimInv
  <2>2. ASSUME NEW t \in Socket, Waiting(t), up'[t][1].sent = 0
        PROVE  /\ \A c \in Bytes \cup {b} : c <= Base
               /\ \A v \in Socket : session[v] # 0 =>
                    \A i \in 1 .. Len(up'[v]) : up'[v][i].byte <= Base
    BY <1>1, <1>2, <2>1, <2>2
  <2> QED
    BY <1>4, <1>7, <1>9, <2>1, <2>2 DEF ClaimInv
<1>17. TellInv'
  <2>1. \A t \in Socket : Received(t)' = Received(t)
    BY <1>4 DEF Received
  <2>2. \A t \in Socket : /\ (handler'[t] # "gone" <=> handler[t] # "gone")
                          /\ (handler'[t] = "resolved" => handler[t] = "resolved")
    BY <1>2, <1>4
  <2> QED
    BY <1>4, <2>1, <2>2, AtTheServer DEF TellInv
<1>18. AckInv'
  BY <1>4, <1>7, <1>9 DEF AckInv
<1>19. ReplyInv'
  BY <1>2, <1>4, <1>5, <1>7 DEF ReplyInv
<1>20. EpochInv'
  BY <1>2, <1>3, <1>4, <1>7 DEF EpochInv
<1>21. CountInv => CountInv'
  <2> SUFFICES ASSUME CountInv PROVE CountInv'
    OBVIOUS
  <2>1. /\ session[s] = registry /\ Count + 0 + Len(up[s]) <= bytesSent
        /\ \A i \in 1 .. Len(up[s]) : up[s][i].byte = Base + Count + 0 + i
    BY <1>3, <1>9 DEF CountInv
  <2>2. Count + 1 + Len(up'[s]) <= bytesSent /\ bytesSent \in Nat
    <3>1. Count \in Nat /\ Len(up[s]) \in Nat /\ bytesSent \in Nat
      BY <1>8, Ranges
    <3>2. Count + 0 + Len(up[s]) <= bytesSent /\ Len(up'[s]) = Len(up[s]) - 1
      BY <1>2, <2>1
    <3>3. Count + 1 + (Len(up[s]) - 1) = Count + 0 + Len(up[s])
      BY <3>1, MovesOn
    <3> QED
      BY <3>1, <3>2, <3>3
  <2>3. \A i \in 1 .. Len(up'[s]) : up'[s][i].byte = Base + Count + 1 + i
    <3> SUFFICES ASSUME NEW i \in 1 .. Len(up'[s]) PROVE up'[s][i].byte = Base + Count + 1 + i
      OBVIOUS
    <3>1. up'[s][i].byte = Base + Count + 0 + (i + 1)
      BY <1>2, <2>1
    <3> QED
      BY <1>8, <3>1
  <2>4. b = Base + Count + 1
    BY <1>1, <1>2, <1>8, <2>1
  <2>5. ASSUME NEW t \in Socket, session[t] # 0, t # s
        PROVE  /\ session[t] = registry /\ Count + Writing(t)' + Len(up'[t]) <= bytesSent
               /\ Len(up'[t]) = 0 /\ handler'[t] # "wrote"
    <3>1. session[t] = registry /\ up'[t] = up[t] /\ Writing(t)' = Writing(t)
          /\ Count + Writing(t) + Len(up[t]) <= bytesSent
      BY <1>2, <1>9, <2>5 DEF CountInv
    <3> QED
      BY <1>4, <1>6, <2>5, <3>1
  <2>6. registry # 0 => Count <= bytesSent
    BY DEF CountInv
  <2>7. ASSUME NEW t \in Socket, session[t] # 0
        PROVE  /\ session[t] = registry
               /\ Count + Writing(t)' + Len(up'[t]) <= bytesSent
               /\ \A i \in 1 .. Len(up'[t]) : up'[t][i].byte = Base + Count + Writing(t)' + i
               /\ handler'[t] = "wrote" => Base + Count + 1 \in Bytes \cup {b}
    <3>1. CASE t = s
      BY <1>9, <2>1, <2>2, <2>3, <2>4, <3>1
    <3>2. CASE t # s
      BY <2>5, <2>7, <3>2
    <3> QED
      BY <3>1, <3>2
  <2> QED
    BY <1>4, <1>7, <2>6, <2>7 DEF CountInv
<1>22. LossInv => LossInv'
  BY <1>4, <1>7 DEF LossInv, Written
<1> QED
  BY <1>7, <1>11, <1>12, <1>13, <1>15, <1>16, <1>17, <1>18, <1>19, <1>20, <1>21, <1>22

\* Only one socket at a time has input to write or to count.
LEMMA OthersSilent ==
  ASSUME OrderIInv, NEW s \in Socket, Alive(s), session[s] # 0,
         up[s] # <<>> \/ handler[s] = "wrote"
  PROVE  \A t \in Socket : t # s /\ session[t] # 0 =>
           Alive(t) /\ t < s /\ up[t] = <<>> /\ handler[t] # "wrote"
<1> USE DEF OrderIInv, WireOrder
<1>1. \A t \in Socket : t # s /\ session[t] # 0 => t < s /\ Alive(t)
  BY NoneNewer, Ranges DEF SocketInv, Alive
<1> QED
  BY <1>1 DEF SocketInv

\* The count of what was written.
LEMMA IncrementInOrder ==
  ASSUME OrderIInv, IInv', NEW s \in Socket, IncrementReceived(s) PROVE OrderIInv'
<1> USE DEF OrderIInv, WireOrder, Ledger
<1>1. /\ handler[s] = "wrote" /\ Alive(s) /\ session[s] # 0
      /\ handler' = [handler EXCEPT ![s] = "reading"] /\ handler'[s] = "reading"
      /\ (\A t \in Socket : t # s => handler'[t] = handler[t])
      /\ UNCHANGED <<typed, outbox, bytesSent, bytesAcked, lastEpoch, sock, phase, told, up, down,
                     boot, registry, session, resumed, lastAckSent, pass, pty>>
  BY DEF IncrementReceived, tab, IInv, LedgerInv, SocketInv, Alive
<1>2. ledgers' = [ledgers EXCEPT ![session[s]] = @ + 1]
  BY <1>1 DEF IncrementReceived
<1>3. /\ \A t \in Socket : s < t => session[t] = 0
      /\ phase # "down" /\ s # sock => session[sock] = 0
      /\ phase = "open" => \A i \in 1 .. Len(down[sock]) : ~IsReply(down[sock][i])
  BY <1>1, NoneNewer
<1>4. \A t \in Socket : t # s /\ session[t] # 0 =>
        Alive(t) /\ t < s /\ up[t] = <<>> /\ handler[t] # "wrote"
  BY <1>1, OthersSilent
<1>5. /\ Base' = Base /\ Bytes' = Bytes /\ (Reloaded' <=> Reloaded)
      /\ Base \in Nat /\ Count \in Nat /\ bytesSent \in Nat /\ bytesAcked \in Nat
      /\ \A b \in Bytes : b \in Nat
  BY <1>1, Ranges DEF Base, Bytes, Reloaded
<1>6. /\ session[s] = registry => Count' = Count + 1
      /\ session[s] # registry => Count' = Count
      /\ \A t \in Socket : session[t] # 0 => Received(t)' >= Received(t)
      /\ Count' \in Nat /\ Count' >= Count
  <2>1. /\ ledgers \in Seq(Nat) /\ registry \in 0 .. Len(ledgers)
        /\ \A t \in Socket : session[t] \in 0 .. Len(ledgers)
    BY DEF IInv, LedgerInv
  <2>2. /\ \A k \in 1 .. Len(ledgers) :
             /\ ledgers[k] \in Nat
             /\ ledgers'[k] = IF k = session[s] THEN ledgers[k] + 1 ELSE ledgers[k]
    BY <1>1, <1>2, <2>1
  <2>3. registry # 0 => registry \in 1 .. Len(ledgers)
    BY <2>1
  <2>4. \A t \in Socket : session[t] # 0 => session[t] \in 1 .. Len(ledgers)
    BY <2>1
  <2>5. registry # 0 => /\ Count = ledgers[registry] /\ Count' = ledgers'[registry]
    BY <1>1 DEF Count
  <2>6. registry = 0 => Count' = Count /\ session[s] # registry
    BY <1>1 DEF Count
  <2>7. \A t \in Socket : session[t] # 0 =>
          Received(t) = ledgers[session[t]] /\ Received(t)' = ledgers'[session[t]]
    BY <1>1 DEF Received
  <2>8. \A t \in Socket : session[t] # 0 => Received(t)' >= Received(t)
    BY <2>2, <2>4, <2>7
  <2>9. /\ session[s] = registry => Count' = Count + 1
        /\ session[s] # registry => Count' = Count
    BY <2>2, <2>3, <2>5, <2>6
  <2>10. Count' \in Nat /\ Count' >= Count
    BY <1>5, <2>9
  <2> QED
    BY <2>8, <2>9, <2>10
<1>7. /\ \A t \in Socket : Alive(t)' <=> Alive(t)
      /\ \A t \in Socket : Waiting(t)' <=> Waiting(t)
      /\ Writing(s) = 1 /\ Writing(s)' = 0
      /\ \A t \in Socket : t # s => Writing(t)' = Writing(t)
  BY <1>1 DEF Alive, Waiting, Writing
<1>8. LossPending' <=> LossPending
  BY <1>1 DEF LossPending
<1>9. SocketInv'
  <2>1. \A t \in Socket : (handler'[t] = "wrote" => handler[t] = "wrote")
          /\ (handler'[t] = "none" <=> handler[t] = "none")
          /\ (handler'[t] \in {"resolved", "wrote"} => handler[t] \in {"resolved", "wrote"})
          /\ (handler'[t] \in {"none", "gone"} => handler[t] \in {"none", "gone"})
    BY <1>1
  <2> QED
    BY <1>1, <1>7, <2>1 DEF SocketInv
<1>10. PhaseInv'
  <2>1. phase # "down" => sock \in Socket
    BY Ranges
  <2>2. phase # "down" =>
          /\ (Waiting(sock)' <=> Waiting(sock)) /\ (Alive(sock)' <=> Alive(sock))
          /\ (handler'[sock] = "resolved" <=> handler[sock] = "resolved")
          /\ (handler'[sock] = "wrote" => handler[sock] = "wrote")
    BY <1>1, <1>7, <2>1
  <2> QED
    BY <1>1, <2>2 DEF PhaseInv
<1>11. OrderInv'
  BY <1>1, Stays
<1>12. Counting => session[s] = registry
  BY <1>1, <1>4 DEF Counting, SocketInv
<1>13. registry # 0 /\ ~LossPending => bytesAcked <= Count' /\ \A b \in Bytes : b <= Base + Count'
  <2> SUFFICES ASSUME registry # 0, ~LossPending
               PROVE  bytesAcked <= Count' /\ \A b \in Bytes : b <= Base + Count'
    OBVIOUS
  <2>1. bytesAcked <= Count
    BY DEF CoverInv
  <2>2. bytesAcked <= Count'
    BY <1>5, <1>6, <2>1
  <2>3. ASSUME NEW b \in Bytes PROVE b <= Base + Count'
    <3>1. b <= Base + Count \/ (session[s] = registry /\ b <= Base + Count + 1)
      BY <1>12 DEF CoverInv
    <3>2. b \in Nat
      BY <1>5
    <3>3. b <= Base + Count \/ (Count' = Count + 1 /\ b <= Base + Count + 1)
      BY <1>6, <3>1
    <3>4. Base \in Nat /\ Count \in Nat /\ Count' \in Nat /\ Count' >= Count
      BY <1>5, <1>6
    <3>5. PICK d : d = Count'
      OBVIOUS
    <3>6. /\ b \in Nat /\ Base \in Nat /\ Count \in Nat /\ d \in Nat /\ d >= Count
          /\ b <= Base + Count \/ (d = Count + 1 /\ b <= Base + Count + 1)
      BY <3>2, <3>3, <3>4, <3>5
    <3>7. b <= Base + d
      BY <3>6
    <3> QED
      BY <3>5, <3>7
  <2> QED
    BY <2>2, <2>3
<1>14. ASSUME NEW t \in Socket, session[t] # 0, NEW i \in 1 .. Len(up[t])
       PROVE  \/ up[t][i].byte <= Base
              \/ session[t] = registry /\ up[t][i].byte <= Base + Count' + Writing(t)' + i
  <2>1. t = s
    <3>1. t # s => up[t] = <<>> /\ Len(up[t]) = 0
      BY <1>4, <1>14
    <3> QED
      BY <1>14, <3>1
  <2>2. \/ up[s][i].byte <= Base
        \/ session[s] = registry /\ up[s][i].byte <= Base + Count + Writing(s) + i
    BY <1>14, <2>1 DEF CoverInv
  <2>3. session[s] = registry => Base + Count + Writing(s) + i = Base + Count' + Writing(s)' + i
    <3>1. session[s] = registry => Base + Count + 1 + i = Base + (Count + 1) + 0 + i
      BY <1>5
    <3> QED
      BY <1>6, <1>7, <3>1
  <2> QED
    BY <2>1, <2>2, <2>3
<1>15. phase = "acked" /\ Alive(sock) => bytesSent <= Count' + Writing(sock)' + Len(up[sock])
  <2> SUFFICES ASSUME phase = "acked", Alive(sock)
               PROVE  bytesSent <= Count' + Writing(sock)' + Len(up[sock])
    OBVIOUS
  <2>1. /\ sock \in Socket /\ bytesSent <= Count + Writing(sock) + Len(up[sock])
        /\ session[sock] # 0 => session[sock] = registry
    BY Ranges DEF CoverInv, PhaseInv
  <2>2. Len(up[sock]) \in Nat /\ Count \in Nat /\ Count' \in Nat /\ bytesSent \in Nat
        /\ Count' >= Count
    BY <1>5, <1>6, <2>1, OnTheWire
  <2>3. CASE sock = s
    <3>1. Count' = Count + 1 /\ Writing(sock) = 1 /\ Writing(sock)' = 0
      BY <1>1, <1>6, <1>7, <2>1, <2>3 DEF Writing
    <3>2. bytesSent <= Count + 1 + Len(up[sock])
      BY <2>1, <3>1
    <3>3. PICK n : n = Len(up[sock])
      OBVIOUS
    <3>4. Count + 1 + n = (Count + 1) + 0 + n
      BY <2>2, <3>3
    <3> QED
      BY <3>1, <3>2, <3>3, <3>4
  <2>4. CASE sock # s
    <3>1. Writing(sock)' = Writing(sock) /\ Writing(sock) \in {0, 1}
      BY <1>1, <2>1, <2>4 DEF Writing
    <3>2. PICK n, d, w : n = Len(up[sock]) /\ d = Count' /\ w = Writing(sock)
      OBVIOUS
    <3>3. n \in Nat /\ d \in Nat /\ w \in Nat /\ d >= Count /\ bytesSent <= Count + w + n
      BY <2>1, <2>2, <3>1, <3>2
    <3>4. bytesSent <= d + w + n
      BY <2>2, <3>3
    <3> QED
      BY <3>1, <3>2, <3>4
  <2> QED
    BY <2>3, <2>4
<1>16. CoverInv'
  <2>1. phase = "acked" => (Alive(sock)' <=> Alive(sock))
    BY <1>1, <1>7, Ranges
  <2> QED
    BY <1>1, <1>5, <1>8, <1>13, <1>14, <1>15, <2>1 DEF CoverInv
<1>17. ClaimInv'
  BY <1>1, <1>5, <1>7 DEF ClaimInv
<1>18. TellInv'
  <2>1. ASSUME NEW t \in Socket, handler'[t] # "gone"
        PROVE  /\ handler[t] # "gone" /\ Received(t) \in Nat /\ Received(t)' \in Nat
               /\ Received(t)' >= Received(t)
    <3>1. session[t] = 0 => Received(t)' = Received(t)
      BY <1>1 DEF Received
    <3>2. Received(t) \in Nat /\ Received(t)' \in Nat
      <4>1. LedgerInv'
        BY DEF IInv
      <4>2. session'[t] = 0 \/ ledgers'[session'[t]] \in Nat
        BY <4>1 DEF LedgerInv
      <4> QED
        BY <4>2, AtTheServer DEF Received
    <3>3. Received(t)' >= Received(t)
      BY <1>6, <3>1, <3>2
    <3> QED
      BY <1>1, <2>1, <3>2, <3>3
  <2>2. \A t \in Socket : lastAckSent[t] \in Nat /\ resumed[t].received \in Nat
    BY AtTheServer
  <2>3. \A t \in Socket : handler'[t] # "gone" => lastAckSent[t] <= Received(t)'
    BY <2>1, <2>2 DEF TellInv
  <2>4. ASSUME NEW t \in DOMAIN pass, handler'[t] # "gone" PROVE pass[t].received <= Received(t)'
    <3>1. t \in Socket /\ pass[t].received \in Nat
      BY DEF IInv, PassInv
    <3> QED
      BY <2>1, <2>4, <3>1 DEF TellInv
  <2>5. ASSUME NEW t \in Socket, handler'[t] = "resolved" PROVE resumed[t].received <= Received(t)'
    <3>1. handler[t] = "resolved" /\ resumed[t].received <= Received(t)
      BY <1>1, <2>5 DEF TellInv
    <3> QED
      BY <2>1, <2>2, <2>5, <3>1
  <2> QED
    BY <1>1, <2>3, <2>4, <2>5 DEF TellInv
<1>19. AckInv'
  <2> SUFFICES ASSUME phase # "down", NEW i \in 1 .. Len(down[sock]), ~IsReply(down[sock][i])
               PROVE  \/ down[sock][i].received = 0
                      \/ /\ \A t \in Socket : ~Waiting(t)
                         /\ registry # 0 => down[sock][i].received <= Count'
    BY <1>1, <1>7 DEF AckInv, IsReply
  <2>1. \/ down[sock][i].received = 0
        \/ /\ \A t \in Socket : ~Waiting(t)
           /\ registry # 0 => down[sock][i].received <= Count
    BY DEF AckInv
  <2>2. down[sock][i].received \in Nat
    BY Ranges, OnTheWire
  <2>3. \A n \in Nat : n <= Count => n <= Count'
    BY <1>5, <1>6
  <2> QED
    BY <2>1, <2>2, <2>3
<1>20. ReplyInv'
  <2>1. ~(phase = "open" /\ handler'[sock] = "resolved")
    BY <1>1, <1>3, Ranges DEF SocketInv
  <2>2. phase = "open" => \A i \in 1 .. Len(down[sock]) : ~IsReply(down[sock][i])'
    BY <1>1, <1>3 DEF IsReply
  <2> QED
    BY <1>1, <2>1, <2>2 DEF ReplyInv, IsReply
<1>21. EpochInv'
  BY <1>1 DEF EpochInv
<1>22. CountInv => CountInv'
  <2> SUFFICES ASSUME CountInv PROVE CountInv'
    OBVIOUS
  <2>1. /\ session[s] = registry /\ Count + Writing(s) + Len(up[s]) <= bytesSent
        /\ \A i \in 1 .. Len(up[s]) : up[s][i].byte = Base + Count + Writing(s) + i
    BY <1>1 DEF CountInv
  <2>2. Count' = Count + 1 /\ Writing(s) = 1 /\ Writing(s)' = 0
    BY <1>6, <1>7, <2>1
  <2>3. Len(up[s]) \in Nat
    BY OnTheWire
  <2>4. Count' + Writing(s)' + Len(up[s]) <= bytesSent /\ Count' + 0 + 0 <= bytesSent
        /\ Count' <= bytesSent
    <3>1. Count + 1 + Len(up[s]) <= bytesSent
      BY <2>1, <2>2
    <3>2. PICK n, d : n = Len(up[s]) /\ d = Count'
      OBVIOUS
    <3>3. /\ d = Count + 1 /\ Count \in Nat /\ n \in Nat /\ bytesSent \in Nat
          /\ Count + 1 + n <= bytesSent
      BY <1>5, <2>2, <2>3, <3>1, <3>2
    <3>4. d + 0 + n <= bytesSent /\ d + 0 + 0 <= bytesSent /\ d <= bytesSent
      BY <3>3
    <3> QED
      BY <2>2, <3>2, <3>4
  <2>5. \A i \in 1 .. Len(up[s]) : up[s][i].byte = Base + Count' + Writing(s)' + i
    <3> SUFFICES ASSUME NEW i \in 1 .. Len(up[s])
                 PROVE  up[s][i].byte = Base + Count' + Writing(s)' + i
      OBVIOUS
    <3>1. up[s][i].byte = Base + Count + 1 + i
      BY <2>1, <2>2
    <3>2. Base + (Count + 1) + 0 + i = Base + Count + 1 + i
      BY <1>5
    <3> QED
      BY <2>2, <3>1, <3>2
  <2>6. ASSUME NEW t \in Socket, session[t] # 0, t # s
        PROVE  /\ session[t] = registry /\ Len(up[t]) = 0 /\ Writing(t)' = 0
               /\ handler'[t] # "wrote"
    <3>1. up[t] = <<>>
      BY <1>4, <2>6
    <3>2. Len(up[t]) = 0
      BY <3>1
    <3> QED
      BY <1>1, <1>4, <2>6, <3>2 DEF CountInv, Writing
  <2>7. ASSUME NEW t \in Socket, session[t] # 0
        PROVE  /\ session[t] = registry
               /\ Count' + Writing(t)' + Len(up[t]) <= bytesSent
               /\ \A i \in 1 .. Len(up[t]) : up[t][i].byte = Base + Count' + Writing(t)' + i
               /\ handler'[t] # "wrote"
    <3>1. CASE t = s
      BY <1>1, <2>1, <2>4, <2>5, <3>1
    <3>2. CASE t # s
      BY <2>4, <2>6, <2>7, <3>2
    <3> QED
      BY <3>1, <3>2
  <2> QED
    BY <1>1, <1>5, <2>4, <2>7 DEF CountInv
<1>23. CountInv /\ LossInv => LossInv'
  <2> SUFFICES ASSUME CountInv, LossInv PROVE LossInv'
    OBVIOUS
  <2>1. session[s] = registry /\ Base + Count + 1 \in Bytes /\ registry # 0 /\ Written(Count)
    BY <1>1 DEF CountInv, LossInv
  <2>2. Count' = Count + 1
    BY <1>6, <2>1
  <2>3. Written(Count + 1)
    <3>1. ASSUME NEW k \in 1 .. Count + 1 PROVE Base + k \in Bytes
      <4>1. k \in 1 .. Count \/ k = Count + 1
        BY <1>5
      <4>2. k = Count + 1 => Base + k = Base + Count + 1
        BY <1>5
      <4> QED
        BY <2>1, <4>1, <4>2 DEF Written
    <3> QED
      BY <3>1 DEF Written
  <2>4. \A n : Written(n)' <=> Written(n)
    BY <1>5 DEF Written
  <2> QED
    BY <1>1, <1>5, <2>2, <2>3, <2>4 DEF LossInv, Written
<1> QED
  BY <1>5, <1>9, <1>10, <1>11, <1>16, <1>17, <1>18, <1>19, <1>20, <1>21, <1>22, <1>23

\* The resume of a socket: what came before it is in, and nothing came after.
LEMMA ResolveInOrder ==
  ASSUME Orderly, OrderIInv, IInv', NEW s \in Socket, ResolveSession(s) PROVE OrderIInv'
<1> USE DEF OrderIInv, WireOrder, Ledger
<1>1. PICK sent, created, id :
        /\ sent = up[s][1].sent /\ created \in BOOLEAN /\ (created <=> registry = 0)
        /\ id = IF created THEN Len(ledgers) + 1 ELSE registry
  OBVIOUS
<1>2. /\ Reading(s) /\ Drop(s) /\ Head(up[s]).kind = "resume" /\ Drained(s)
      /\ UNCHANGED <<typed, outbox, bytesSent, bytesAcked, lastEpoch, sock, phase, told, down,
                     boot, lastAckSent, pass, pty>>
      /\ handler' = [handler EXCEPT ![s] = "resolved"]
  BY DEF ResolveSession, tab, Orderly
<1>3. /\ handler[s] = "reading" /\ Alive(s) /\ up[s] # <<>> /\ Head(up[s]) = up[s][1]
      /\ 1 \in 1 .. Len(up[s]) /\ up[s][1].kind = "resume"
      /\ Len(up'[s]) = Len(up[s]) - 1
      /\ \A t \in Socket : t # s => up'[t] = up[t]
  BY <1>2, Taken
<1>4. session[s] = 0 /\ Waiting(s) /\ Len(up[s]) = 1
  BY <1>3 DEF SocketInv, Waiting
<1>5. up'[s] = <<>> /\ Len(up'[s]) = 0
  <2>1. Len(up'[s]) = 0
    BY <1>3, <1>4
  <2>2. up'[s] \in Seq(Request)
    BY DEF IInv, WireInv
  <2> QED
    BY <2>1, <2>2
<1>6. sent \in Nat
  BY <1>1, <1>3, OnTheWire
<1>7. /\ \A t \in Socket : s < t => session[t] = 0
      /\ phase = "open" => \A i \in 1 .. Len(down[sock]) : ~IsReply(down[sock][i])
  BY <1>3, NoneNewer
<1>8. \A t \in Socket : t < s /\ Alive(t) => up[t] = <<>> /\ handler[t] # "wrote"
  BY <1>2 DEF Drained, Live, Alive
<1>9. \A t \in Socket : t # s /\ session[t] # 0 =>
        t < s /\ Alive(t) /\ up[t] = <<>> /\ handler[t] # "wrote"
  <2>1. \A t \in Socket : t # s /\ session[t] # 0 => t < s /\ Alive(t)
    BY <1>7, Ranges DEF SocketInv, Alive
  <2> QED
    BY <1>8, <2>1
<1>10. /\ registry' = id /\ session' = [session EXCEPT ![s] = id]
       /\ ledgers' = IF created THEN Append(ledgers, 0) ELSE ledgers
       /\ resumed' = [resumed EXCEPT ![s] =
                       [received |-> IF created THEN 0 ELSE ledgers[id],
                        lost     |-> LedgerLost(created, sent)]]
       /\ resumed'[s].lost /\ (s # sock \/ phase = "down") => "unheardLoss" \in Mishaps
  BY <1>1, <1>3 DEF ResolveSession
<1>11. /\ session'[s] = id /\ (\A t \in Socket : t # s => session'[t] = session[t])
       /\ handler'[s] = "resolved" /\ (\A t \in Socket : t # s => handler'[t] = handler[t])
       /\ resumed'[s] = [received |-> IF created THEN 0 ELSE ledgers[id],
                         lost     |-> LedgerLost(created, sent)]
       /\ (\A t \in Socket : t # s => resumed'[t] = resumed[t])
  BY <1>2, <1>10 DEF IInv, LedgerInv
<1>12. /\ Base' = Base /\ Bytes' = Bytes /\ (Reloaded' <=> Reloaded)
       /\ Base \in Nat /\ Count \in Nat /\ bytesSent \in Nat /\ bytesAcked \in Nat
       /\ \A b \in Bytes : b \in Nat
  BY <1>2, Ranges DEF Base, Bytes, Reloaded
<1>13. /\ id # 0 /\ Count' = Count /\ resumed'[s].received = Count
       /\ created => Count = 0
       /\ resumed'[s].lost <=> created /\ sent > 0
       /\ Received(s)' = Count
       /\ \A t \in Socket : t # s => Received(t)' = Received(t)
  <2>1. /\ ledgers \in Seq(Nat) /\ Len(ledgers) \in Nat /\ registry \in 0 .. Len(ledgers)
        /\ \A t \in Socket : session[t] \in 0 .. Len(ledgers)
    BY DEF IInv, LedgerInv
  <2>2. /\ \A k \in 1 .. Len(ledgers) : ledgers'[k] = ledgers[k]
        /\ created => ledgers'[Len(ledgers) + 1] = 0
    BY <1>10, <2>1
  <2>3. id # 0 /\ (created => Count = 0) /\ (~created => Count = ledgers[registry] /\ id = registry)
    BY <1>1, <2>1 DEF Count
  <2>4. ledgers'[id] = Count
    <3>1. CASE created
      BY <1>1, <2>2, <2>3, <3>1
    <3>2. CASE ~created
      BY <1>1, <2>1, <2>2, <2>3, <3>2
    <3> QED
      BY <1>1, <3>1, <3>2
  <2>5. Count' = Count /\ Received(s)' = Count
    BY <1>10, <1>11, <2>3, <2>4 DEF Count, Received
  <2>6. resumed'[s].received = Count
    BY <1>11, <2>3
  <2>7. resumed'[s].lost <=> created /\ sent > 0
    <3>1. resumed'[s].lost = LedgerLost(created, sent)
      BY <1>11
    <3>2. LedgerLost(created, sent) <=> created /\ sent > 0
      BY DEF LedgerLost
    <3> QED
      BY <3>1, <3>2
  <2>8. ASSUME NEW t \in Socket, t # s PROVE Received(t)' = Received(t)
    <3>1. session'[t] = session[t] /\ session[t] \in 0 .. Len(ledgers)
      BY <1>11, <2>1, <2>8
    <3>2. session[t] # 0 => ledgers'[session[t]] = ledgers[session[t]]
      BY <2>1, <2>2, <3>1
    <3> QED
      BY <3>1, <3>2 DEF Received
  <2> QED
    BY <2>3, <2>5, <2>6, <2>7, <2>8
<1>14. resumed'[s].lost => s = sock /\ phase = "open"
  BY <1>4, <1>10 DEF Orderly, PhaseInv
<1>15. phase # "down" => sock \in Socket /\ (sock # s => session[sock] = 0)
  <2>1. ~(s > sock)
    BY <1>3 DEF SocketInv
  <2>2. phase # "down" /\ sock # s => s < sock
    BY <2>1, Ranges
  <2> QED
    BY <1>7, <2>2, Ranges
<1>16. /\ \A t \in Socket : Alive(t)' <=> Alive(t)
       /\ ~Waiting(s)' /\ \A t \in Socket : t # s => (Waiting(t)' <=> Waiting(t))
       /\ \A t \in Socket : Waiting(t)' => t # s /\ Waiting(t) /\ up'[t] = up[t]
       /\ \A t \in Socket : session'[t] # 0 =>
            up'[t] = <<>> /\ Len(up'[t]) = 0 /\ handler'[t] # "wrote"
  <2>1. \A t \in Socket : t # s /\ session'[t] # 0 =>
          up'[t] = <<>> /\ Len(up'[t]) = 0 /\ handler'[t] # "wrote"
    BY <1>3, <1>9, <1>11
  <2> QED
    BY <1>3, <1>5, <1>11, <2>1 DEF Alive, Waiting
<1>17. SocketInv'
  <2>1. ASSUME NEW t \in Socket
        PROVE  /\ (handler'[t] = "none" <=> handler[t] = "none")
               /\ handler'[t] = "none" => up'[t] = up[t]
               /\ handler'[t] \in {"none", "gone"} => session'[t] = 0
               /\ handler'[t] \in {"resolved", "wrote"} => session'[t] # 0
    BY <1>3, <1>11, <1>13 DEF SocketInv
  <2>2. ASSUME NEW t \in Socket, session'[t] # 0, NEW v \in Socket, v < t, Alive(v)
        PROVE  up'[v] = <<>> /\ handler'[v] # "wrote"
    <3>1. t \in Nat /\ s \in Nat /\ v \in Nat /\ (t = s \/ t < s)
      BY <1>9, <1>11, <2>2, Ranges
    <3>2. v < s /\ v # s
      BY <2>2, <3>1
    <3> QED
      BY <1>3, <1>8, <1>11, <2>2, <3>2
  <2> QED
    BY <1>2, <1>16, <2>1, <2>2 DEF SocketInv
<1>18. PhaseInv'
  <2>1. ASSUME phase # "down", s = sock
        PROVE  /\ phase = "open" /\ ~Waiting(sock)' /\ session'[sock] = registry'
               /\ up'[sock] = <<>> /\ handler'[sock] # "wrote"
               /\ \A i \in 1 .. Len(down[sock]) : ~IsReply(down[sock][i])
    <3>1. phase = "open"
      BY <1>4, <2>1 DEF PhaseInv
    <3>2. /\ ~Waiting(sock)' /\ session'[sock] = registry'
          /\ up'[sock] = <<>> /\ handler'[sock] # "wrote"
      <4>1. ~Waiting(s)' /\ session'[s] = registry' /\ up'[s] = <<>> /\ handler'[s] # "wrote"
        BY <1>5, <1>10, <1>11, <1>16
      <4> QED
        BY <1>2, <2>1, <4>1 DEF Waiting
    <3> QED
      BY <1>7, <3>1, <3>2
  <2>2. ASSUME phase # "down", s # sock
        PROVE  /\ (Waiting(sock)' <=> Waiting(sock)) /\ (Alive(sock)' <=> Alive(sock))
               /\ handler'[sock] = handler[sock] /\ session'[sock] = 0 /\ up'[sock] = up[sock]
               /\ \A i \in 1 .. Len(down[sock]) : ~IsReply(down[sock][i])
    <3>1. \A i \in 1 .. Len(down[sock]) : ~IsReply(down[sock][i])
      BY <1>7, <2>2 DEF PhaseInv
    <3>2. sock \in Socket /\ session'[sock] = 0 /\ handler'[sock] = handler[sock]
          /\ up'[sock] = up[sock]
      BY <1>3, <1>11, <1>15, <2>2
    <3>3. (Waiting(sock)' <=> Waiting(sock)) /\ (Alive(sock)' <=> Alive(sock))
      BY <1>2, <1>11, <3>2, <2>2 DEF Waiting, Alive
    <3> QED
      BY <3>1, <3>2, <3>3
  <2>3. CASE phase # "down" /\ s = sock
    BY <1>2, <2>1, <2>3 DEF PhaseInv, IsReply
  <2>4. CASE phase # "down" /\ s # sock
    BY <1>2, <2>2, <2>4 DEF PhaseInv, IsReply
  <2> QED
    BY <1>2, <2>3, <2>4 DEF PhaseInv
<1>19. OrderInv'
  BY <1>2, <1>12, <1>16 DEF OrderInv
<1>20. registry' # 0 /\ ~LossPending' => bytesAcked <= Count /\ \A b \in Bytes : b <= Base + Count
  <2> SUFFICES ASSUME ~LossPending'
               PROVE  bytesAcked <= Count /\ \A b \in Bytes : b <= Base + Count
    OBVIOUS
  <2>1. ~resumed'[s].lost
    BY <1>2, <1>11, <1>14 DEF LossPending
  <2>2. CASE created
    <3>1. sent = 0
      BY <1>6, <1>13, <2>1, <2>2
    <3>2. bytesAcked = 0 /\ \A b \in Bytes : b <= Base
      BY <1>1, <1>4, <3>1 DEF ClaimInv
    <3>3. Count = 0
      BY <1>13, <2>2
    <3> QED
      BY <1>12, <3>2, <3>3
  <2>3. CASE ~created
    <3>1. phase = "open" /\ handler[sock] = "resolved" => FALSE
      BY <1>3, <1>15 DEF SocketInv
    <3>2. ~LossPending
      BY <1>7, <3>1 DEF LossPending
    <3>3. ~Counting
      BY <1>3, <1>9 DEF Counting, SocketInv
    <3> QED
      BY <1>1, <2>3, <3>2, <3>3 DEF CoverInv
  <2> QED
    BY <1>1, <2>2, <2>3
<1>21. CoverInv'
  <2>1. phase = "acked" => sock # s /\ sock \in Socket
    BY <1>4, Ranges DEF PhaseInv
  <2>2. phase = "acked" => /\ up'[sock] = up[sock] /\ Writing(sock)' = Writing(sock)
                           /\ (Alive(sock)' <=> Alive(sock))
    BY <1>2, <1>3, <1>11, <1>16, <2>1 DEF Writing
  <2>3. phase = "acked" /\ Alive(sock)' => bytesSent <= Count + Writing(sock)' + Len(up'[sock])
    BY <2>2 DEF CoverInv
  <2> QED
    BY <1>2, <1>12, <1>13, <1>16, <1>20, <2>3 DEF CoverInv
<1>22. ClaimInv'
  <2>1. ASSUME NEW t \in Socket, Waiting(t)', up'[t][1].sent = 0
        PROVE  bytesAcked = 0 /\ \A b \in Bytes : b <= Base
    BY <1>16, <2>1 DEF ClaimInv
  <2> QED
    BY <1>2, <1>12, <1>16, <2>1 DEF ClaimInv
<1>23. TellInv'
  <2>1. lastAckSent[s] <= Count /\ (s \in DOMAIN pass => pass[s].received <= Count)
    <3>1. Received(s) = 0
      BY <1>4 DEF Received
    <3>2. lastAckSent[s] <= 0 /\ (s \in DOMAIN pass => pass[s].received <= 0)
      BY <1>3, <3>1 DEF TellInv
    <3>3. lastAckSent[s] \in Nat /\ (s \in DOMAIN pass => pass[s].received \in Nat)
      BY AtTheServer
    <3> QED
      BY <1>12, <3>2, <3>3
  <2>2. Count <= Count
    BY <1>12
  <2>3. DOMAIN pass \subseteq Socket
    BY DEF IInv, PassInv
  <2>4. \A t \in Socket : handler'[t] # "gone" => lastAckSent[t] <= Received(t)'
    BY <1>11, <1>13, <2>1 DEF TellInv
  <2>5. \A t \in DOMAIN pass : handler'[t] # "gone" => pass[t].received <= Received(t)'
    BY <1>11, <1>13, <2>1, <2>3 DEF TellInv
  <2>6. \A t \in Socket : handler'[t] = "resolved" => resumed'[t].received <= Received(t)'
    BY <1>11, <1>13, <2>2 DEF TellInv
  <2> QED
    BY <1>2, <2>4, <2>5, <2>6 DEF TellInv
<1>24. AckInv'
  <2>1. phase # "down" => \A i \in 1 .. Len(down[sock]) :
          ~IsReply(down[sock][i]) => down[sock][i].received = 0
    BY <1>4 DEF AckInv
  <2> QED
    BY <1>2, <2>1 DEF AckInv, IsReply
<1>25. ReplyInv'
  <2>1. phase = "open" /\ handler'[sock] = "resolved" => s = sock
    BY <1>11, <1>15 DEF SocketInv
  <2>2. phase = "open" /\ handler'[sock] = "resolved" =>
          resumed'[sock].received = Count' /\ (resumed'[sock].lost => Count' = 0)
    BY <1>13, <2>1
  <2> QED
    BY <1>2, <1>7, <2>2 DEF ReplyInv, IsReply
<1>26. EpochInv'
  <2>1. lastEpoch \notin {0, boot} => Count = 0
    BY <1>1, <1>13 DEF EpochInv
  <2> QED
    BY <1>2, <1>13, <1>16, <2>1 DEF EpochInv
<1>27. CountInv => CountInv'
  <2> SUFFICES ASSUME CountInv PROVE CountInv'
    OBVIOUS
  <2>1. Count <= bytesSent
    <3>1. created => 0 <= bytesSent
      BY <1>12
    <3> QED
      BY <1>1, <1>13, <3>1 DEF CountInv
  <2>2. ASSUME NEW t \in Socket, session'[t] # 0
        PROVE  session'[t] = registry' /\ Count' + Writing(t)' + Len(up'[t]) <= bytesSent
    <3>1. session'[t] = registry'
      <4>1. t # s => session[t] = registry /\ registry # 0
        BY <1>11, <2>2 DEF CountInv
      <4> QED
        BY <1>1, <1>10, <1>11, <4>1
    <3>2. Writing(t)' = 0 /\ Len(up'[t]) = 0 /\ Count' = Count
      BY <1>13, <1>16, <2>2 DEF Writing
    <3>3. Count + 0 + 0 <= bytesSent
      BY <1>12, <2>1
    <3> QED
      BY <3>1, <3>2, <3>3
  <2> QED
    BY <1>2, <1>13, <1>16, <2>1, <2>2 DEF CountInv
<1>28. LossInv => LossInv'
  <2> SUFFICES ASSUME LossInv PROVE LossInv'
    OBVIOUS
  <2>1. Written(Count)
    <3>1. created => 1 .. Count = {}
      BY <1>13
    <3> QED
      BY <1>1, <3>1 DEF LossInv, Written
  <2>2. \A n : Written(n)' <=> Written(n)
    BY <1>12 DEF Written
  <2>3. Written(Count)'
    BY <1>12, <1>13, <2>1 DEF Written
  <2> QED
    BY <1>2, <1>12, <2>2, <2>3 DEF LossInv
<1> QED
  BY <1>12, <1>17, <1>18, <1>19, <1>21, <1>22, <1>23, <1>24, <1>25, <1>26, <1>27, <1>28

\* A batch changes nothing the ledger's story depends on but what it tells.
LEMMA BatchKeeps ==
  ASSUME OrderIInv, IInv', NEW s \in Socket, SendBatch(s)
  PROVE  /\ handler[s] = "resolved" /\ Alive(s) /\ session[s] # 0
         /\ handler'[s] = "reading" /\ (\A t \in Socket : t # s => handler'[t] = handler[t])
         /\ \A t \in Socket : t # s => resumed'[t] = resumed[t]
         /\ UNCHANGED <<typed, outbox, bytesSent, bytesAcked, lastEpoch, sock, phase, told, up,
                        boot, registry, ledgers, session, pass, pty>>
         /\ Base' = Base /\ Count' = Count /\ Bytes' = Bytes /\ (Reloaded' <=> Reloaded)
         /\ (Counting' <=> Counting) /\ (Quiet' <=> Quiet)
         /\ \A t \in Socket : /\ Alive(t)' <=> Alive(t)
                              /\ Waiting(t)' <=> Waiting(t)
                              /\ Writing(t)' = Writing(t)
                              /\ handler'[t] = "wrote" <=> handler[t] = "wrote"
         /\ OrderInv' /\ ClaimInv' /\ TellInv' /\ EpochInv' /\ (CountInv => CountInv')
<1> USE DEF OrderIInv, WireOrder, Ledger
<1>1. /\ handler[s] = "resolved" /\ Alive(s) /\ session[s] # 0
      /\ handler'[s] = "reading" /\ (\A t \in Socket : t # s => handler'[t] = handler[t])
      /\ resumed'[s] = Unresolved /\ (\A t \in Socket : t # s => resumed'[t] = resumed[t])
      /\ lastAckSent'[s] = resumed[s].received
      /\ (\A t \in Socket : t # s => lastAckSent'[t] = lastAckSent[t])
      /\ UNCHANGED <<typed, outbox, bytesSent, bytesAcked, lastEpoch, sock, phase, told, up,
                     boot, registry, ledgers, session, pass, pty>>
  BY DEF SendBatch, tab, IInv, LedgerInv, SocketInv, Alive
<1>2. \A t \in Socket : /\ Alive(t)' <=> Alive(t)
                        /\ Waiting(t)' <=> Waiting(t)
                        /\ Writing(t)' = Writing(t)
                        /\ handler'[t] = "wrote" <=> handler[t] = "wrote"
  BY <1>1 DEF Alive, Waiting, Writing
<1>3. Base' = Base /\ Count' = Count /\ Bytes' = Bytes /\ (Reloaded' <=> Reloaded)
  BY <1>1 DEF Base, Count, Bytes, Reloaded
<1>4. (Counting' <=> Counting) /\ (Quiet' <=> Quiet)
  BY <1>1, <1>2 DEF Counting, Quiet
<1>5. OrderInv'
  BY <1>1, Stays
<1>6. ClaimInv' /\ EpochInv' /\ (CountInv => CountInv')
  BY <1>1, <1>2, <1>3 DEF ClaimInv, EpochInv, CountInv
<1>7. TellInv'
  <2>1. \A t \in Socket : Received(t)' = Received(t)
    BY <1>1 DEF Received
  <2>2. resumed[s].received <= Received(s)
    BY <1>1 DEF TellInv
  <2>3. \A t \in Socket : handler'[t] # "gone" => lastAckSent'[t] <= Received(t)'
    BY <1>1, <2>1, <2>2 DEF TellInv
  <2>4. \A t \in DOMAIN pass' : handler'[t] # "gone" => pass'[t].received <= Received(t)'
    <3>1. DOMAIN pass \subseteq Socket
      BY DEF IInv, PassInv
    <3> QED
      BY <1>1, <2>1, <3>1 DEF TellInv
  <2>5. \A t \in Socket : handler'[t] = "resolved" => resumed'[t].received <= Received(t)'
    BY <1>1, <2>1 DEF TellInv
  <2> QED
    BY <2>3, <2>4, <2>5 DEF TellInv
<1> QED
  BY <1>1, <1>2, <1>3, <1>4, <1>5, <1>6, <1>7

\* A batch the tab no longer listens for.
LEMMA BatchUnheard ==
  ASSUME OrderIInv, IInv', NEW s \in Socket, SendBatch(s), s # sock \/ phase = "down"
  PROVE  OrderIInv'
<1> USE DEF OrderIInv, WireOrder, Ledger
<1>1. /\ handler[s] = "resolved" /\ Alive(s) /\ session[s] # 0
      /\ handler'[s] = "reading" /\ (\A t \in Socket : t # s => handler'[t] = handler[t])
      /\ \A t \in Socket : t # s => resumed'[t] = resumed[t]
      /\ UNCHANGED <<typed, outbox, bytesSent, bytesAcked, lastEpoch, sock, phase, told, up,
                     boot, registry, ledgers, session, pass, pty>>
      /\ Base' = Base /\ Count' = Count /\ Bytes' = Bytes /\ (Reloaded' <=> Reloaded)
      /\ (Counting' <=> Counting) /\ (Quiet' <=> Quiet)
      /\ \A t \in Socket : /\ Alive(t)' <=> Alive(t)
                           /\ Waiting(t)' <=> Waiting(t)
                           /\ Writing(t)' = Writing(t)
                           /\ handler'[t] = "wrote" <=> handler[t] = "wrote"
  BY BatchKeeps
<1>2. OrderInv' /\ ClaimInv' /\ TellInv' /\ EpochInv' /\ (CountInv => CountInv')
  BY BatchKeeps
<1>3. down' = down
  BY DEF SendBatch
<1>4. phase # "down" => /\ sock \in Socket /\ sock # s
                        /\ handler'[sock] = handler[sock] /\ resumed'[sock] = resumed[sock]
                        /\ (Waiting(sock)' <=> Waiting(sock)) /\ (Alive(sock)' <=> Alive(sock))
                        /\ Writing(sock)' = Writing(sock)
  BY <1>1, Ranges
<1>5. LossPending' <=> LossPending
  BY <1>1, <1>3, <1>4 DEF LossPending
<1>6. SocketInv'
  BY <1>1, <1>3 DEF SocketInv
<1>7. PhaseInv'
  BY <1>1, <1>3, <1>4 DEF PhaseInv, IsReply
<1>8. CoverInv'
  BY <1>1, <1>4, <1>5 DEF CoverInv
<1>9. AckInv'
  BY <1>1, <1>3 DEF AckInv, IsReply
<1>10. ReplyInv'
  <2>1. \A m : Holds(m)' <=> Holds(m)
    BY <1>1, <1>3 DEF Holds
  <2> QED
    BY <1>1, <1>3, <1>4, <2>1 DEF ReplyInv, IsReply, Holds
<1>11. LossInv => LossInv'
  BY <1>1, <1>3 DEF LossInv, Written
<1> QED
  BY <1>1, <1>2, <1>6, <1>7, <1>8, <1>9, <1>10, <1>11

\* What the server says of a resume is true when it is said.
LEMMA BatchHolds ==
  ASSUME OrderIInv, sock \in Socket, phase = "open", handler[sock] = "resolved",
         NEW m, m = ResumeAck(resumed[sock], boot)
  PROVE  /\ IsReply(m) /\ m.received = Count /\ m.lost = resumed[sock].lost /\ m.epoch = boot
         /\ registry # 0 /\ session[sock] = registry /\ up[sock] = <<>> /\ Quiet
         /\ \A i \in 1 .. Len(down[sock]) :
              ~IsReply(down[sock][i]) /\ down[sock][i].received <= Count
         /\ m.lost => Count = 0
         /\ ~m.lost => bytesAcked <= Count /\ \A b \in Bytes : b <= Base + Count
         /\ lastEpoch \notin {0, boot} => Count = 0
<1> USE DEF OrderIInv, WireOrder, Ledger
<1>1. /\ m.received = resumed[sock].received /\ m.lost = resumed[sock].lost /\ m.epoch = boot
      /\ IsReply(m)
  BY DEF ResumeAck, IsReply
<1>2. m.received = Count /\ (m.lost => Count = 0)
  BY <1>1 DEF ReplyInv
<1>3. session[sock] # 0 /\ session[sock] = registry /\ up[sock] = <<>> /\ registry # 0
  BY DEF SocketInv, PhaseInv
<1>4. Quiet
  <2> SUFFICES ASSUME NEW t \in Socket, Alive(t) PROVE up[t] = <<>> /\ handler[t] # "wrote"
    BY DEF Quiet
  <2>1. ~(t > sock)
    BY DEF SocketInv, Alive
  <2>2. t = sock \/ t < sock
    <3>1. t \in Nat /\ sock \in Nat
      BY Ranges
    <3> QED
      BY <2>1, <3>1
  <2> QED
    BY <1>3, <2>2 DEF SocketInv
<1>5. \A i \in 1 .. Len(down[sock]) : ~IsReply(down[sock][i])
  BY DEF PhaseInv
<1>6. \A i \in 1 .. Len(down[sock]) : down[sock][i].received <= Count
  <2>1. Count \in Nat /\ 0 <= Count
    BY Ranges
  <2> QED
    BY <1>3, <1>5, <2>1 DEF AckInv
<1>7. ~m.lost => bytesAcked <= Count /\ \A b \in Bytes : b <= Base + Count
  <2>1. ~m.lost => ~LossPending
    BY <1>1, <1>5 DEF LossPending
  <2>2. ~Counting
    BY <1>4 DEF Counting, Quiet, Alive
  <2> QED
    BY <1>3, <2>1, <2>2 DEF CoverInv
<1>8. lastEpoch \notin {0, boot} => Count = 0
  BY <1>3 DEF EpochInv
<1> QED
  BY <1>1, <1>2, <1>3, <1>4, <1>5, <1>6, <1>7, <1>8

\* A batch sent to the tab.
LEMMA BatchTold ==
  ASSUME OrderIInv, IInv', NEW s \in Socket, SendBatch(s), s = sock, phase # "down"
  PROVE  OrderIInv'
<1> USE DEF OrderIInv, WireOrder, Ledger
<1>1. /\ handler[sock] = "resolved" /\ Alive(sock) /\ session[sock] # 0 /\ sock \in Socket
      /\ handler'[sock] = "reading" /\ (\A t \in Socket : t # sock => handler'[t] = handler[t])
      /\ UNCHANGED <<typed, outbox, bytesSent, bytesAcked, lastEpoch, sock, phase, told, up,
                     boot, registry, ledgers, session, pass, pty>>
      /\ Base' = Base /\ Count' = Count /\ Bytes' = Bytes /\ (Reloaded' <=> Reloaded)
      /\ (Counting' <=> Counting) /\ (Quiet' <=> Quiet)
      /\ \A t \in Socket : /\ Alive(t)' <=> Alive(t)
                           /\ Waiting(t)' <=> Waiting(t)
                           /\ Writing(t)' = Writing(t)
                           /\ handler'[t] = "wrote" <=> handler[t] = "wrote"
  BY BatchKeeps
<1>2. OrderInv' /\ ClaimInv' /\ TellInv' /\ EpochInv' /\ (CountInv => CountInv')
  BY BatchKeeps
<1>3. phase = "open"
  BY <1>1 DEF PhaseInv
<1>4. PICK m, n : m = ResumeAck(resumed[sock], boot) /\ n = Len(down[sock])
  OBVIOUS
<1>5. /\ IsReply(m) /\ m.received = Count /\ m.lost = resumed[sock].lost /\ m.epoch = boot
      /\ registry # 0 /\ session[sock] = registry /\ up[sock] = <<>> /\ Quiet
      /\ \A i \in 1 .. Len(down[sock]) :
           ~IsReply(down[sock][i]) /\ down[sock][i].received <= Count
      /\ m.lost => Count = 0
      /\ ~m.lost => bytesAcked <= Count /\ \A b \in Bytes : b <= Base + Count
      /\ lastEpoch \notin {0, boot} => Count = 0
  BY <1>1, <1>3, <1>4, BatchHolds
<1>6. /\ n \in Nat /\ Len(down'[sock]) = n + 1 /\ down'[sock][n + 1] = m
      /\ \A i \in 1 .. n : down'[sock][i] = down[sock][i]
      /\ \A t \in Socket : t # sock => down'[t] = down[t]
  <2>1. down' = [down EXCEPT ![sock] = Append(down[sock], m)]
    BY <1>4 DEF SendBatch
  <2>2. down[sock] \in Seq(Message)
    BY <1>1, OnTheWire
  <2>3. down'[sock] = Append(down[sock], m) /\ \A t \in Socket : t # sock => down'[t] = down[t]
    BY <1>1, <2>1 DEF IInv, WireInv
  <2> QED
    BY <1>4, <2>2, <2>3
<1>7. \A i \in 1 .. Len(down'[sock]) :
        \/ i = n + 1 /\ down'[sock][i] = m
        \/ i \in 1 .. n /\ ~IsReply(down'[sock][i]) /\ down'[sock][i] = down[sock][i]
  <2>1. \A i \in 1 .. n : ~IsReply(down[sock][i]) /\ down'[sock][i] = down[sock][i]
    BY <1>4, <1>5, <1>6
  <2>2. \A i \in 1 .. n : ~IsReply(down'[sock][i])
    BY <2>1
  <2>3. \A i \in 1 .. n + 1 : i \in 1 .. n \/ i = n + 1
    BY <1>6
  <2> QED
    BY <1>6, <2>1, <2>2, <2>3
<1>8. LossPending' <=> LossPending
  <2>1. LossPending <=> resumed[sock].lost
    BY <1>1, <1>3, <1>5 DEF LossPending
  <2>2. n + 1 \in 1 .. Len(down'[sock]) /\ down'[sock][n + 1] = m
    BY <1>6
  <2>3. (\E i \in 1 .. Len(down'[sock]) : IsReply(down'[sock][i]) /\ down'[sock][i].lost)
          <=> m.lost
    BY <1>5, <1>7, <2>2
  <2>4. LossPending' <=>
          \E i \in 1 .. Len(down'[sock]) : IsReply(down'[sock][i]) /\ down'[sock][i].lost
    BY <1>1, <1>3 DEF LossPending, IsReply
  <2> QED
    BY <1>5, <2>1, <2>3, <2>4
<1>9. SocketInv'
  <2>1. \A t \in Socket : down'[t] # <<>> => t = sock
    BY <1>6 DEF SocketInv
  <2> QED
    BY <1>1, <2>1 DEF SocketInv
<1>10. PhaseInv'
  <2>1. ~Waiting(sock)' /\ handler'[sock] # "resolved" /\ handler'[sock] # "wrote"
    BY <1>1 DEF Waiting
  <2>2. \A i \in 1 .. Len(down'[sock]) : IsReply(down'[sock][i]) =>
          \A j \in 1 .. Len(down'[sock]) : IsReply(down'[sock][j]) => i = j
    BY <1>7
  <2> QED
    BY <1>1, <1>3, <1>5, <2>1, <2>2 DEF PhaseInv, IsReply
<1>11. CoverInv'
  BY <1>1, <1>8 DEF CoverInv
<1>12. AckInv'
  <2>1. \A i \in 1 .. Len(down'[sock]) : ~IsReply(down'[sock][i]) =>
          i \in 1 .. Len(down[sock]) /\ ~IsReply(down[sock][i]) /\ down'[sock][i] = down[sock][i]
    BY <1>4, <1>5, <1>7
  <2>2. \A i \in 1 .. Len(down'[sock]) : ~IsReply(down'[sock][i]) =>
          \/ down'[sock][i].received = 0
          \/ /\ \A t \in Socket : ~Waiting(t)
             /\ registry # 0 => down'[sock][i].received <= Count
    BY <2>1 DEF AckInv
  <2> QED
    BY <1>1, <2>2 DEF AckInv, IsReply
<1>13. ReplyInv'
  <2>1. \A j \in 1 .. Len(down'[sock]) : down'[sock][j].received <= m.received
    <3>1. Count <= Count
      BY Ranges
    <3> QED
      BY <1>4, <1>5, <1>7, <3>1
  <2>2. Holds(m)'
    BY <1>1, <1>5, <2>1 DEF Holds
  <2>3. \A i \in 1 .. Len(down'[sock]) : IsReply(down'[sock][i]) => down'[sock][i] = m
    BY <1>7
  <2>4. ASSUME NEW i \in 1 .. Len(down'[sock]), IsReply(down'[sock][i])
        PROVE  Holds(down[sock][i])'
    <3>1. down'[sock'][i] = m
      BY <1>1, <2>3, <2>4
    <3> QED
      BY <2>2, <3>1 DEF Holds
  <2> QED
    BY <1>1, <2>4 DEF ReplyInv, IsReply
<1>14. LossInv => LossInv'
  <2> SUFFICES ASSUME LossInv PROVE LossInv'
    OBVIOUS
  <2>1. \A i \in 1 .. Len(down'[sock]) : Written(down'[sock][i].received)
    BY <1>1, <1>4, <1>5, <1>7 DEF LossInv
  <2> QED
    BY <1>1, <2>1 DEF LossInv, Written
<1> QED
  BY <1>1, <1>2, <1>9, <1>10, <1>11, <1>12, <1>13, <1>14

\* A socket whose connection ends takes its frames with it.
LEMMA DisconnectInOrder ==
  ASSUME OrderIInv, IInv', NEW s \in Socket, Disconnect(s) PROVE OrderIInv'
<1> USE DEF OrderIInv, WireOrder, Ledger
<1>1. /\ handler[s] = "reading" /\ handler'[s] = "gone" /\ session'[s] = 0 /\ up'[s] = <<>>
      /\ \A t \in Socket : t # s =>
           /\ handler'[t] = handler[t] /\ session'[t] = session[t] /\ up'[t] = up[t]
           /\ lastAckSent'[t] = lastAckSent[t]
      /\ UNCHANGED <<typed, outbox, bytesSent, bytesAcked, lastEpoch, sock, phase, told, down,
                     boot, registry, ledgers, resumed, pass, pty>>
  BY DEF Disconnect, tab, IInv, LedgerInv, WireInv
<1>2. Base' = Base /\ Count' = Count /\ Bytes' = Bytes /\ (Reloaded' <=> Reloaded)
  BY <1>1 DEF Base, Count, Bytes, Reloaded
<1>3. \A t \in Socket :
        /\ Alive(t)' => t # s /\ Alive(t)
        /\ Waiting(t)' => t # s /\ Waiting(t)
        /\ session'[t] # 0 => t # s /\ session[t] # 0
        /\ handler'[t] = "resolved" <=> handler[t] = "resolved"
        /\ handler'[t] = "wrote" <=> handler[t] = "wrote"
        /\ handler'[t] = "none" <=> handler[t] = "none"
        /\ Writing(t)' = Writing(t)
  BY <1>1 DEF Alive, Waiting, Writing
<1>4. (Counting' <=> Counting) /\ (Quiet => Quiet')
  BY <1>1, <1>3 DEF Counting, Quiet
<1>5. phase # "down" => sock \in Socket
  BY Ranges
<1>6. LossPending' <=> LossPending
  BY <1>1, <1>3, <1>5 DEF LossPending
<1>7. SocketInv'
  BY <1>1, <1>3 DEF SocketInv
<1>8. PhaseInv'
  BY <1>1, <1>3, <1>5 DEF PhaseInv, IsReply
<1>9. OrderInv'
  BY <1>1, <1>2, <1>3 DEF OrderInv
<1>10. CoverInv'
  BY <1>1, <1>2, <1>3, <1>4, <1>5, <1>6 DEF CoverInv
<1>11. ClaimInv'
  BY <1>1, <1>2, <1>3 DEF ClaimInv
<1>12. TellInv'
  <2>1. \A t \in Socket : t # s => Received(t)' = Received(t)
    BY <1>1 DEF Received
  <2>2. DOMAIN pass \subseteq Socket
    BY DEF IInv, PassInv
  <2> QED
    BY <1>1, <1>3, <2>1, <2>2 DEF TellInv
<1>13. AckInv'
  BY <1>1, <1>2, <1>3 DEF AckInv, IsReply
<1>14. ReplyInv'
  <2>1. \A m : Holds(m) => Holds(m)'
    BY <1>1, <1>2, <1>3, <1>4 DEF Holds
  <2> QED
    BY <1>1, <1>2, <1>3, <1>5, <2>1 DEF ReplyInv, IsReply, Holds
<1>15. EpochInv' /\ (CountInv => CountInv')
  BY <1>1, <1>2, <1>3 DEF EpochInv, CountInv
<1>16. LossInv => LossInv'
  BY <1>1, <1>2 DEF LossInv, Written
<1> QED
  BY <1>2, <1>7, <1>8, <1>9, <1>10, <1>11, <1>12, <1>13, <1>14, <1>15, <1>16

-----------------------------------------------------------------------------
(* Giving up the ledger, or the process.                                   *)

\* A ledger is reclaimed only when no socket speaks for it.
LEMMA ForgetInOrder == ASSUME OrderIInv, IInv', Forget PROVE OrderIInv'
<1> USE DEF OrderIInv, WireOrder, Ledger
<1>1. /\ registry # 0 /\ registry' = 0
      /\ UNCHANGED <<typed, outbox, bytesSent, bytesAcked, lastEpoch, sock, phase, told, up, down,
                     boot, ledgers, handler, session, resumed, lastAckSent, pass, pty>>
  BY DEF Forget, tab
<1>2. \A t \in Socket : session[t] # registry
  BY <1>1 DEF Forget, Live, SocketInv
<1>3. phase # "down" => sock \in Socket /\ session[sock] = 0
  BY <1>2, Ranges DEF PhaseInv
<1>4. ~(phase = "acked" /\ Alive(sock)) /\ ~(phase = "open" /\ handler[sock] = "resolved")
  BY <1>3, AtTheServer DEF PhaseInv, SocketInv, Waiting, Alive
<1>5. Base' = Base /\ Bytes' = Bytes /\ (Reloaded' <=> Reloaded)
  BY <1>1 DEF Base, Bytes, Reloaded
<1>6. SocketInv' /\ OrderInv' /\ ClaimInv' /\ TellInv'
  BY <1>1, Stays DEF socketVars, textVars
<1>7. PhaseInv'
  BY <1>1, <1>3 DEF PhaseInv, Waiting, Alive, IsReply
<1>8. CoverInv'
  BY <1>1, <1>2, <1>4, <1>5 DEF CoverInv, Alive
<1>9. AckInv'
  BY <1>1 DEF AckInv, Waiting, IsReply
<1>10. ReplyInv'
  <2>1. \A m : Holds(m) => Holds(m)'
    BY <1>1, <1>5 DEF Holds, Quiet, Alive
  <2> QED
    BY <1>1, <1>4, <2>1 DEF ReplyInv, IsReply, Holds
<1>11. EpochInv'
  BY <1>1 DEF EpochInv
<1>12. CountInv => CountInv'
  BY <1>1, <1>2 DEF CountInv
<1>13. LossInv => LossInv'
  BY <1>1, <1>5 DEF LossInv, Written
<1> QED
  BY <1>5, <1>6, <1>7, <1>8, <1>9, <1>10, <1>11, <1>12, <1>13

\* A new process has no sockets and no ledger; what the old one told still stands.
LEMMA RestartInOrder == ASSUME OrderIInv, IInv', Restart PROVE OrderIInv'
<1> USE DEF OrderIInv, WireOrder, Ledger
<1>1. /\ boot' = boot + 1 /\ registry' = 0 /\ pass' = Idle
      /\ \A t \in Socket :
           /\ handler'[t] = IF Alive(t) THEN "gone" ELSE handler[t]
           /\ session'[t] = 0 /\ up'[t] = <<>> /\ lastAckSent'[t] = 0
      /\ UNCHANGED <<typed, outbox, bytesSent, bytesAcked, lastEpoch, sock, phase, told, down,
                     ledgers, pty>>
  BY DEF Restart, tab, Live, Alive
<1>2. \A t \in Socket : /\ handler'[t] \in {"none", "gone"}
                        /\ ~Alive(t)' /\ ~Waiting(t)'
                        /\ (handler'[t] = "none" <=> handler[t] = "none")
  BY <1>1, AtTheServer DEF Alive, Waiting
<1>3. Base' = Base /\ Bytes' = Bytes /\ (Reloaded' <=> Reloaded)
  BY <1>1 DEF Base, Bytes, Reloaded
<1>4. phase # "down" => sock \in Socket
  BY Ranges
<1>5. SocketInv'
  BY <1>1, <1>2 DEF SocketInv
<1>6. PhaseInv'
  BY <1>1, <1>2, <1>4 DEF PhaseInv, IsReply
<1>7. OrderInv'
  BY <1>1, <1>3 DEF OrderInv
<1>8. CoverInv' /\ ClaimInv' /\ EpochInv' /\ (CountInv => CountInv')
  BY <1>1, <1>2, <1>4 DEF CoverInv, ClaimInv, EpochInv, CountInv
<1>9. TellInv'
  <2>1. \A t \in Socket : Received(t)' = 0
    BY <1>1 DEF Received
  <2>2. DOMAIN pass' = {}
    BY <1>1 DEF Idle
  <2> QED
    BY <1>1, <1>2, <2>1, <2>2 DEF TellInv
<1>10. AckInv'
  BY <1>1, <1>2 DEF AckInv, IsReply
<1>11. ReplyInv'
  <2>1. Quiet'
    BY <1>2 DEF Quiet
  <2>2. \A m : Holds(m) => Holds(m)'
    BY <1>1, <1>2, <1>3, <2>1 DEF Holds
  <2> QED
    BY <1>1, <1>2, <1>4, <2>2 DEF ReplyInv, IsReply, Holds
<1>12. LossInv => LossInv'
  BY <1>1, <1>3 DEF LossInv, Written
<1> QED
  BY <1>3, <1>5, <1>6, <1>7, <1>8, <1>9, <1>10, <1>11, <1>12

-----------------------------------------------------------------------------
(* The theorems.                                                           *)

\* A fresh tab and a fresh server.
LEMMA InitOrderIInv == Init => OrderIInv
<1> SUFFICES ASSUME Init PROVE OrderIInv
  OBVIOUS
<1>1. IInv
  BY InitIInv
<1>2. /\ typed = 0 /\ bytesSent = 0 /\ bytesAcked = 0 /\ lastEpoch = 0 /\ sock = 0
      /\ phase = "down" /\ told = {} /\ pass = Idle /\ pty = <<>> /\ registry = 0
      /\ \A s \in Socket : /\ up[s] = <<>> /\ down[s] = <<>> /\ handler[s] = "none"
                           /\ session[s] = 0 /\ lastAckSent[s] = 0
  BY DEF Init
<1>3. Bytes = {}
  BY <1>2 DEF Bytes, ToSet
<1>4. \A s \in Socket : ~Waiting(s) /\ s > sock /\ Received(s) = 0
  BY <1>1, <1>2, LedgerAssumption DEF Waiting, Socket, Received
<1>5. SocketInv
  BY <1>2, <1>4 DEF SocketInv
<1>6. PhaseInv /\ AckInv /\ ReplyInv /\ EpochInv /\ CoverInv /\ ClaimInv
  BY <1>2, <1>4 DEF PhaseInv, AckInv, ReplyInv, EpochInv, CoverInv, ClaimInv
<1>7. OrderInv
  BY <1>2, <1>3 DEF OrderInv
<1>8. TellInv
  <2>1. DOMAIN pass = {}
    BY <1>2 DEF Idle
  <2> QED
    BY <1>2, <1>4, <2>1 DEF TellInv
<1>9. CountInv /\ LossInv
  BY <1>2 DEF CountInv, LossInv
<1> QED
  BY <1>1, <1>5, <1>6, <1>7, <1>8, <1>9 DEF OrderIInv, WireOrder, Ledger

\* Every step, and every stutter.
LEMMA OrderIInvStep == ASSUME Orderly PROVE OrderIInv /\ [Next]_vars => OrderIInv'
<1> SUFFICES ASSUME OrderIInv, [Next]_vars PROVE OrderIInv'
  OBVIOUS
<1>1. IInv'
  BY IInvStep DEF OrderIInv
<1>2. CASE Type \/ Open \/ Abandon \/ Reload \/ RecvAck \/ RecvResumeAck
  BY <1>1, <1>2, TypeInOrder, OpenInOrder, AbandonInOrder, ReloadInOrder, RecvAckInOrder,
     RecvResumeAckInOrder
<1>3. ASSUME NEW s \in Socket,
             \/ ResolveSession(s) \/ SendBatch(s) \/ WritePTY(s)
             \/ IncrementReceived(s) \/ Disconnect(s)
      PROVE  OrderIInv'
  <2>1. CASE ResolveSession(s)
    BY <1>1, <2>1, ResolveInOrder
  <2>2. CASE SendBatch(s)
    BY <1>1, <2>2, BatchTold, BatchUnheard
  <2>3. CASE WritePTY(s) \/ IncrementReceived(s) \/ Disconnect(s)
    BY <1>1, <2>3, WriteInOrder, IncrementInOrder, DisconnectInOrder
  <2> QED
    BY <1>3, <2>1, <2>2, <2>3
<1>4. ASSUME NEW s \in Socket, WriteFrame(s) PROVE OrderIInv'
  BY <1>1, <1>4, SchedulerInOrder
<1>5. CASE Output \/ BuildFrame \/ SweepAcks \/ NoteAcksSent
  BY <1>1, <1>5, SchedulerInOrder
<1>6. CASE Forget \/ Restart
  BY <1>1, <1>6, ForgetInOrder, RestartInOrder
<1>7. CASE UNCHANGED vars
  BY <1>1, <1>7, Stays
     DEF OrderIInv, WireOrder, Ledger, vars, tab, server, socketVars, textVars, countVars,
         Reloaded
<1> QED
  BY <1>2, <1>3, <1>4, <1>5, <1>6, <1>7 DEF Next

\* The child receives the user's bytes in the order typed and none of them twice,
\* over every reconnect, ledger loss, restart and reload.
THEOREM OrderedOnceAlways == ASSUME Orderly PROVE Spec => []OrderedOnce
<1>1. OrderIInv /\ [Next]_vars => OrderIInv'
  BY OrderIInvStep
<1>2. OrderIInv => OrderedOnce
  BY OrderIInvImplies
<1> QED
  BY <1>1, <1>2, InitOrderIInv, PTL DEF Spec

\* On a page that was never reloaded, every byte typed is in the outbox, in the
\* child's input, or among those the user was told are lost.
THEOREM NoSilentLossAlways == ASSUME Orderly PROVE Spec => []NoSilentLoss
<1>1. OrderIInv /\ [Next]_vars => OrderIInv'
  BY OrderIInvStep
<1>2. OrderIInv => NoSilentLoss
  BY OrderIInvImplies
<1> QED
  BY <1>1, <1>2, InitOrderIInv, PTL DEF Spec

\* While the tab trusts a live socket, what the ledger has counted, what is being
\* counted and what is on the wire add up to what the tab sent.
THEOREM ByteConservationAlways == ASSUME Orderly PROVE Spec => []ByteConservation
<1>1. OrderIInv /\ [Next]_vars => OrderIInv'
  BY OrderIInvStep
<1>2. OrderIInv => ByteConservation
  BY OrderIInvImplies
<1> QED
  BY <1>1, <1>2, InitOrderIInv, PTL DEF Spec

=============================================================================
