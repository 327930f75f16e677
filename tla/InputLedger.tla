----------------------------- MODULE InputLedger -----------------------------
(***************************************************************************)
(* Reliable input: how a keystroke gets from a browser tab to the child's  *)
(* PTY across reconnects (web/src/connection.ts on one side, the resume    *)
(* and read-loop halves of terminal/terminal.go and client_registry.go on  *)
(* the other).                                                             *)
(*                                                                         *)
(* One tab, with one resume key, opens sockets one after another.  Each    *)
(* socket is a FIFO pair; frames still under way when the tab abandons it  *)
(* either reach the server's read loop or die with the connection.  The    *)
(* server counts the bytes it wrote to the PTY in the key's ledger and     *)
(* tells the count on every frame; the tab trims its outbox by it and      *)
(* replays the rest after each resumeAck.                                  *)
(*                                                                         *)
(* Every keystroke is one byte and one frame; bytes are numbered as typed. *)
(***************************************************************************)
EXTENDS Integers, Sequences, SequencesExt

CONSTANTS
  MaxInput,    \* bound: bytes the user types
  MaxSockets,  \* bound: sockets the tab opens
  MaxBoots,    \* bound: server processes, one after another
  MaxFrames,   \* bound: frames on their way to the tab when the child prints
  OutboxCap,   \* MAX_OUTBOX_BYTES
  Mishaps      \* which of the environment's awkward turns may happen

\* "typeAhead":   the user types between a socket's open and its resumeAck;
\* "lateFrames":  a socket's resume overtakes frames of its predecessors, two
\*                connections whose read loops run side by side;
\* "unheardLoss": the tab gives a socket up before it has handled the resumeAck
\*                that tells it of a lost ledger;
\* "reload":      the page reloads, and takes the same resume key again (out of
\*                sessionStorage, as an unmanaged tab does) or a fresh one.
AllMishaps == {"typeAhead", "lateFrames", "unheardLoss", "reload"}

ASSUME LedgerAssumption ==
  /\ MaxInput \in Nat /\ MaxSockets \in Nat /\ MaxBoots \in Nat \ {0}
  /\ MaxFrames \in Nat \ {0} /\ OutboxCap \in Nat \ {0}
  /\ Mishaps \subseteq AllMishaps

Socket == 1 .. MaxSockets
Byte   == 1 .. MaxInput

VARIABLES
  (* the tab *)
  typed,       \* bytes accepted by sendBinary so far: the last one's number
  outbox, bytesSent, bytesAcked,
  lastEpoch,   \* the boot the tab last resumed against; 0 before the first
  sock,        \* the newest socket; 0 before the first
  phase,       \* of that socket: "down", "open" (resume sent), "acked"
  told,        \* history: bytes dropped with the server-restart notice, or by a
               \* reload; 0 notes that there was a reload
  (* the wire *)
  up, down,    \* per socket, frames under way to the server and to the tab
  (* the server *)
  boot,        \* number of the running process: the boot epoch
  registry,    \* the ledger under the tab's resume key; 0 for none
  ledgers,     \* bytesReceived of every ledger ever created
  handler,     \* per socket, where its read loop is
  session,     \* per socket, the ledger its clientState points to; 0 for none
  resumed,     \* per socket, the result of ResolveSession its batch will send
  gen,         \* per socket, resumeGen
  lastAckSent, \* per socket
  dirty,       \* the flush scheduler's one-slot wake-up
  pass,        \* what the flush pass under way still has to write, per socket
  (* the child *)
  pty          \* bytes written to the PTY, over all boots

tab    == <<typed, outbox, bytesSent, bytesAcked, lastEpoch, sock, phase, told>>
server == <<boot, registry, ledgers, handler, session, resumed, gen,
            lastAckSent, dirty, pass, pty>>
vars   == <<tab, up, down, server>>

Idle == <<>>   \* no pass under way: the empty function

Input(b)    == [kind |-> "input", byte |-> b]
Resume(n)   == [kind |-> "resume", sent |-> n]
AckFrame(n) == [kind |-> "ack", received |-> n]
ResumeAck(r, e) ==
  [kind |-> "resumeAck", received |-> r.received, lost |-> r.lost, epoch |-> e]

Unresolved  == [received |-> 0, lost |-> FALSE]
Live        == {s \in Socket : handler[s] \notin {"none", "gone"}}
Received(s) == IF session[s] = 0 THEN 0 ELSE ledgers[session[s]]

Init ==
  /\ typed = 0 /\ outbox = <<>> /\ bytesSent = 0 /\ bytesAcked = 0
  /\ lastEpoch = 0 /\ sock = 0 /\ phase = "down" /\ told = {}
  /\ up = [s \in Socket |-> <<>>] /\ down = [s \in Socket |-> <<>>]
  /\ boot = 1 /\ registry = 0 /\ ledgers = <<>>
  /\ handler = [s \in Socket |-> "none"]
  /\ session = [s \in Socket |-> 0]
  /\ resumed = [s \in Socket |-> Unresolved]
  /\ gen = [s \in Socket |-> 0]
  /\ lastAckSent = [s \in Socket |-> 0]
  /\ dirty = FALSE /\ pass = Idle /\ pty = <<>>

-----------------------------------------------------------------------------
(* The tab.                                                                *)

Send(s, frames) == up' = [up EXCEPT ![s] = @ \o frames]

\* sendBinary: the byte enters the outbox, and goes out at once on a socket
\* that is open, whether or not its resumeAck has arrived.  A full outbox
\* refuses the byte and changes nothing.
Room == Len(outbox) < OutboxCap
Type ==
  /\ typed < MaxInput /\ Room
  /\ phase = "open" => "typeAhead" \in Mishaps
  /\ typed' = typed + 1
  /\ outbox' = Append(outbox, typed + 1)
  /\ bytesSent' = bytesSent + 1
  /\ IF phase = "down" THEN UNCHANGED up ELSE Send(sock, <<Input(typed + 1)>>)
  /\ UNCHANGED <<bytesAcked, lastEpoch, sock, phase, told, down, server>>

\* connect and its open event: the server has accepted the socket, and the
\* resume claiming the bytes sent so far is the first frame on it.
Open ==
  /\ phase = "down" /\ sock < MaxSockets
  /\ LET s == sock + 1 IN
     /\ sock' = s
     /\ handler' = [handler EXCEPT ![s] = "reading"]
     /\ Send(s, <<Resume(bytesSent)>>)
  /\ phase' = "open" /\ dirty' = TRUE
  /\ UNCHANGED <<typed, outbox, bytesSent, bytesAcked, lastEpoch, told, down,
                 boot, registry, ledgers, session, resumed, gen, lastAckSent,
                 pass, pty>>

LossUnderWay ==
  \/ handler[sock] = "resolved" /\ resumed[sock].lost
  \/ \E i \in DOMAIN down[sock] :
       down[sock][i].kind = "resumeAck" /\ down[sock][i].lost

\* The tab gives the socket up: reconnectNow, setSession, a failed liveness
\* probe, or the close event.  Its listeners are gone, so what the server
\* still sends on it is never handled.
Abandon ==
  /\ phase # "down"
  /\ LossUnderWay => "unheardLoss" \in Mishaps
  /\ phase' = "down"
  /\ down' = [down EXCEPT ![sock] = <<>>]
  /\ UNCHANGED <<typed, outbox, bytesSent, bytesAcked, lastEpoch, sock, told,
                 up, server>>

\* The page reloads: the counters start over, the resume key only where it was not
\* stored; the server has no ledger under a fresh one.  What was in the outbox is
\* lost by the user's own hand.
Reload ==
  /\ "reload" \in Mishaps /\ lastEpoch # 0
  /\ registry' \in {0, registry}
  /\ outbox' = <<>> /\ bytesSent' = 0 /\ bytesAcked' = 0 /\ lastEpoch' = 0
  /\ told' = told \cup ToSet(outbox) \cup {0}
  /\ phase' = "down"
  /\ down' = IF phase = "down" THEN down ELSE [down EXCEPT ![sock] = <<>>]
  /\ UNCHANGED <<typed, sock, up, boot, ledgers, handler, session, resumed, gen,
                 lastAckSent, dirty, pass, pty>>

\* applyAck, on one byte per chunk: the outbox keeps the newest unacked bytes.
\* (The mutant keeps the oldest.)
MutTrimBack(received) ==
  IF received <= bytesAcked
    THEN [acked |-> bytesAcked, rest |-> outbox]
    ELSE LET acked == IF received < bytesSent THEN received ELSE bytesSent
         IN [acked |-> acked, rest |-> SubSeq(outbox, 1, bytesSent - acked)]
Trimmed(received) ==
  IF received <= bytesAcked
    THEN [acked |-> bytesAcked, rest |-> outbox]
    ELSE LET acked == IF received < bytesSent THEN received ELSE bytesSent
             keep  == bytesSent - acked
         IN [acked |-> acked,
             rest  |-> SubSeq(outbox, Len(outbox) - keep + 1, Len(outbox))]

ApplyAck(received) ==
  /\ bytesAcked' = Trimmed(received).acked
  /\ outbox' = Trimmed(received).rest

Arriving == phase # "down" /\ down[sock] # <<>>
Arrived  == Head(down[sock])
Consume  == down' = [down EXCEPT ![sock] = Tail(@)]

\* An ackOnly frame, or the inputAck stamped on a content frame.
RecvAck ==
  /\ Arriving /\ Arrived.kind = "ack"
  /\ Consume
  /\ ApplyAck(Arrived.received)
  /\ UNCHANGED <<typed, bytesSent, lastEpoch, sock, phase, told, up, server>>

\* resetLedger; the user is told when unacked bytes went with it.  (The mutants
\* forget the sent count and the notice.)
MutKeepCount(notify) ==
  /\ outbox' = <<>> /\ bytesAcked' = 0 /\ UNCHANGED bytesSent
  /\ told' = IF notify THEN told \cup ToSet(outbox) ELSE told
MutSilent(notify) ==
  /\ outbox' = <<>> /\ bytesSent' = 0 /\ bytesAcked' = 0
  /\ UNCHANGED told
ResetLedger(notify) ==
  /\ outbox' = <<>> /\ bytesSent' = 0 /\ bytesAcked' = 0
  /\ told' = IF notify THEN told \cup ToSet(outbox) ELSE told

Restarted == lastEpoch # 0 /\ lastEpoch # Arrived.epoch

\* resetSessionAfterRestart runs first; ledgerLost and the received = 0
\* heuristic then find nothing left, and the reset is over.
RecvResumeAck ==
  /\ Arriving /\ Arrived.kind = "resumeAck"
  /\ Consume
  /\ lastEpoch' = Arrived.epoch
  /\ phase' = "acked"
  /\ \/ /\ Restarted
        /\ ResetLedger(TRUE)
        /\ UNCHANGED up
     \/ /\ ~Restarted
        /\ Arrived.lost \/ (Arrived.received = 0 /\ bytesAcked > 0)
        /\ ResetLedger(bytesSent > bytesAcked)
        /\ UNCHANGED up
     \/ /\ ~Restarted
        /\ ~Arrived.lost /\ ~(Arrived.received = 0 /\ bytesAcked > 0)
        /\ ApplyAck(Arrived.received)
        /\ LET replay == Trimmed(Arrived.received).rest IN
             Send(sock, [i \in 1 .. Len(replay) |-> Input(replay[i])])
        /\ UNCHANGED <<bytesSent, told>>
  /\ UNCHANGED <<typed, sock, server>>

-----------------------------------------------------------------------------
(* The server's read loops.                                                *)

Reading(s) == handler[s] = "reading" /\ up[s] # <<>>
Drop(s)    == up' = [up EXCEPT ![s] = Tail(@)]

\* Nothing of an older socket is still on its way into the PTY or the ledger.  (What
\* a tab sends on a socket whose connection has ended is on its way nowhere.)
Drained(s) == \A t \in Live : t < s => up[t] = <<>> /\ handler[t] # "wrote"

\* ledgerLost.  (The mutant is the server before that flag.)
MutNeverLost(created, sent) == FALSE
LedgerLost(created, sent)   == created /\ sent > 0

\* handleResume, up to the point where it waits for the socket's write lock:
\* ResolveSession finds or creates the ledger and reads its count.
ResolveSession(s) ==
  /\ Reading(s) /\ Head(up[s]).kind = "resume"
  /\ "lateFrames" \in Mishaps \/ Drained(s)
  /\ Drop(s)
  /\ LET created == registry = 0
         id      == IF created THEN Len(ledgers) + 1 ELSE registry
     IN /\ registry' = id
        /\ ledgers' = IF created THEN Append(ledgers, 0) ELSE ledgers
        /\ session' = [session EXCEPT ![s] = id]
        /\ resumed' = [resumed EXCEPT ![s] =
             [received |-> IF created THEN 0 ELSE ledgers[id],
              lost     |-> LedgerLost(created, Head(up[s]).sent)]]
        /\ resumed'[s].lost /\ (s # sock \/ phase = "down")
             => "unheardLoss" \in Mishaps
  /\ handler' = [handler EXCEPT ![s] = "resolved"]
  /\ UNCHANGED <<tab, down, boot, gen, lastAckSent, dirty, pass, pty>>

\* ... and the batch written under it.  The screen and the replay that follow
\* the resumeAck carry the same count and change nothing here.
SendBatch(s) ==
  /\ handler[s] = "resolved"
  /\ gen' = [gen EXCEPT ![s] = @ + 1]
  /\ down' = IF s = sock /\ phase # "down"
               THEN [down EXCEPT ![s] = Append(@, ResumeAck(resumed[s], boot))]
               ELSE down
  /\ lastAckSent' = [lastAckSent EXCEPT ![s] = resumed[s].received]
  /\ dirty' = TRUE
  /\ resumed' = [resumed EXCEPT ![s] = Unresolved]
  /\ handler' = [handler EXCEPT ![s] = "reading"]
  /\ UNCHANGED <<tab, up, boot, registry, ledgers, session, pass, pty>>

\* handleBinaryFrame: the PTY write ...
WritePTY(s) ==
  /\ Reading(s) /\ Head(up[s]).kind = "input"
  /\ Drop(s)
  /\ pty' = Append(pty, Head(up[s]).byte)
  /\ handler' = [handler EXCEPT ![s] = "wrote"]
  /\ UNCHANGED <<tab, down, boot, registry, ledgers, session, resumed, gen,
                 lastAckSent, dirty, pass>>

\* ... and after it the count, in whatever ledger the socket points to, and
\* the poke that lets a silent child's input be acked.  (The mutant forgets it.)
MutNoPoke(s) ==
  /\ handler[s] = "wrote"
  /\ ledgers' = IF session[s] = 0 THEN ledgers
                                  ELSE [ledgers EXCEPT ![session[s]] = @ + 1]
  /\ handler' = [handler EXCEPT ![s] = "reading"]
  /\ UNCHANGED <<tab, up, down, boot, registry, session, resumed, gen,
                 lastAckSent, dirty, pass, pty>>
IncrementReceived(s) ==
  /\ handler[s] = "wrote"
  /\ ledgers' = IF session[s] = 0 THEN ledgers
                                  ELSE [ledgers EXCEPT ![session[s]] = @ + 1]
  /\ dirty' = TRUE
  /\ handler' = [handler EXCEPT ![s] = "reading"]
  /\ UNCHANGED <<tab, up, down, boot, registry, session, resumed, gen,
                 lastAckSent, pass, pty>>

\* The connection ends under the read loop, frames not yet read are lost, and
\* handleWS drops the socket's clientState.
Disconnect(s) ==
  /\ handler[s] = "reading"
  /\ handler' = [handler EXCEPT ![s] = "gone"]
  /\ session' = [session EXCEPT ![s] = 0]
  /\ gen' = [gen EXCEPT ![s] = 0]
  /\ lastAckSent' = [lastAckSent EXCEPT ![s] = 0]
  /\ up' = [up EXCEPT ![s] = <<>>]
  /\ UNCHANGED <<tab, down, boot, registry, ledgers, resumed, dirty, pass, pty>>

-----------------------------------------------------------------------------
(* The flush scheduler, as far as it carries acks.  A pass takes the poke, *)
(* and either builds a content frame for every client or sweeps bare acks. *)

\* The child produced output.
Output ==
  /\ ~dirty /\ pass = Idle
  /\ \E s \in Live : s = sock /\ Len(down[s]) < MaxFrames
  /\ dirty' = TRUE
  /\ UNCHANGED <<tab, up, down, boot, registry, ledgers, handler, session,
                 resumed, gen, lastAckSent, pass, pty>>

\* registry.Snapshot: each client's count and resume generation, as of now.
BuildFrame ==
  /\ dirty /\ pass = Idle
  /\ dirty' = FALSE
  /\ pass' = [s \in Live |->
                [kind |-> "frame", received |-> Received(s), gen |-> gen[s]]]
  /\ UNCHANGED <<tab, up, down, boot, registry, ledgers, handler, session,
                 resumed, gen, lastAckSent, pty>>

\* AckSweepTargets records the new value as sent before it is written.
SweepAcks ==
  /\ dirty /\ pass = Idle
  /\ dirty' = FALSE
  /\ LET targets == {s \in Live : session[s] # 0 /\ Received(s) # lastAckSent[s]}
     IN /\ pass' = [s \in targets |->
                      [kind |-> "sweep", received |-> Received(s), gen |-> gen[s]]]
        /\ lastAckSent' = [s \in Socket |->
                             IF s \in targets THEN Received(s) ELSE lastAckSent[s]]
  /\ UNCHANGED <<tab, up, down, boot, registry, ledgers, handler, session,
                 resumed, gen, pty>>

Deliver(s, n) ==
  down' = IF s = sock /\ phase # "down" /\ handler[s] # "gone"
            THEN [down EXCEPT ![s] = Append(@, AckFrame(n))] ELSE down

Skip(s) == pass' = [t \in DOMAIN pass \ {s} |-> pass[t]]

Wrote(s, n) == pass' = [pass EXCEPT ![s] = [kind |-> "written", received |-> n]]

\* writeClientPayloads to one client.  A frame older than the socket's resume
\* keeps only its durable payloads, restamped; if there are none, nothing is
\* written and nothing will be recorded.
WriteFrame(s) ==
  /\ s \in DOMAIN pass
  /\ \/ /\ pass[s].kind = "sweep"
        /\ Deliver(s, pass[s].received)
        /\ Skip(s)
     \/ /\ pass[s].kind = "frame" /\ pass[s].gen = gen[s]
        /\ Deliver(s, pass[s].received)
        /\ Wrote(s, pass[s].received)
     \/ /\ pass[s].kind = "frame" /\ pass[s].gen # gen[s]
        /\ \/ Deliver(s, lastAckSent[s]) /\ Wrote(s, lastAckSent[s])
           \/ UNCHANGED down /\ Skip(s)
  /\ UNCHANGED <<tab, up, boot, registry, ledgers, handler, session, resumed,
                 gen, lastAckSent, dirty, pty>>

\* When every client was written to, what they were told is recorded, and only
\* ever raised, for those still connected.
NoteAcksSent ==
  /\ pass # Idle
  /\ \A s \in DOMAIN pass : pass[s].kind = "written"
  /\ lastAckSent' = [s \in Socket |->
       IF s \in DOMAIN pass \cap Live /\ pass[s].received > lastAckSent[s]
         THEN pass[s].received ELSE lastAckSent[s]]
  /\ pass' = Idle
  /\ UNCHANGED <<tab, up, down, boot, registry, ledgers, handler, session,
                 resumed, gen, dirty, pty>>

-----------------------------------------------------------------------------
(* What happens to the ledger from outside.                                *)

\* Another client's first resume reclaims ours, which no live socket holds
\* (gcIdleSessions after an hour, or evictOldestSession at the cap).
Forget ==
  /\ registry # 0
  /\ \A s \in Live : session[s] # registry
  /\ registry' = 0
  /\ UNCHANGED <<tab, up, down, boot, ledgers, handler, session, resumed, gen,
                 lastAckSent, dirty, pass, pty>>

\* The server process is replaced: a new boot epoch, no clients, no ledgers.
Restart ==
  /\ boot < MaxBoots
  /\ boot' = boot + 1
  /\ registry' = 0
  /\ handler' = [s \in Socket |-> IF s \in Live THEN "gone" ELSE handler[s]]
  /\ session' = [s \in Socket |-> 0]
  /\ resumed' = [s \in Socket |-> Unresolved]
  /\ gen' = [s \in Socket |-> 0] /\ lastAckSent' = [s \in Socket |-> 0]
  /\ up' = [s \in Socket |-> <<>>]
  /\ dirty' = FALSE /\ pass' = Idle
  /\ UNCHANGED <<tab, down, ledgers, pty>>

Next ==
  \/ Type \/ Open \/ Abandon \/ Reload \/ RecvAck \/ RecvResumeAck
  \/ \E s \in Socket :
       \/ ResolveSession(s) \/ SendBatch(s) \/ WritePTY(s)
       \/ IncrementReceived(s) \/ Disconnect(s) \/ WriteFrame(s)
  \/ Output \/ BuildFrame \/ SweepAcks \/ NoteAcksSent \/ Forget \/ Restart

\* The goroutines and the browser's event loop keep running; the user, the
\* network, the child and other clients owe nothing.
Fairness ==
  /\ WF_vars(RecvAck \/ RecvResumeAck)
  /\ WF_vars(BuildFrame \/ SweepAcks \/ NoteAcksSent)
  /\ \A s \in Socket : WF_vars(ResolveSession(s) \/ SendBatch(s) \/ WritePTY(s)
                               \/ IncrementReceived(s))
  /\ \A s \in Socket : WF_vars(WriteFrame(s))

Spec     == Init /\ [][Next]_vars
FairSpec == Spec /\ Fairness
-----------------------------------------------------------------------------
(* Correctness.                                                            *)

\* The values every variable ranges over, the outbox's bound among them.
TypeOK ==
  /\ typed \in 0 .. MaxInput
  /\ outbox \in Seq(Byte) /\ Len(outbox) <= OutboxCap
  /\ bytesSent \in 0 .. MaxInput /\ bytesAcked \in 0 .. MaxInput
  /\ lastEpoch \in 0 .. MaxBoots /\ sock \in 0 .. MaxSockets
  /\ phase \in {"down", "open", "acked"} /\ (phase # "down" => sock # 0)
  /\ told \subseteq 0 .. MaxInput /\ ToSet(pty) \subseteq Byte
  /\ boot \in 1 .. MaxBoots /\ registry \in 0 .. Len(ledgers)
  /\ \A id \in DOMAIN ledgers : ledgers[id] \in Nat
  /\ handler \in [Socket -> {"none", "reading", "resolved", "wrote", "gone"}]
  /\ session \in [Socket -> 0 .. Len(ledgers)]
  /\ resumed \in [Socket -> [received : Nat, lost : BOOLEAN]]
  /\ gen \in [Socket -> Nat] /\ lastAckSent \in [Socket -> Nat]
  /\ dirty \in BOOLEAN /\ DOMAIN pass \subseteq Socket

\* The child receives the user's bytes in the order typed and none of them
\* twice, over every reconnect, ledger loss and restart.
OrderedOnce == \A i, j \in DOMAIN pty : i < j => pty[i] < pty[j]

\* The outbox is what applyAck's arithmetic takes it for: the bytes typed last,
\* in the order typed, as many as were sent and not acked, whatever the order
\* of acks, replays, losses and restarts.  A trim from the wrong end, or a reset
\* of one counter and not the other, replays the wrong keystrokes.
OutboxIsTail ==
  /\ Len(outbox) = bytesSent - bytesAcked
  /\ \A i \in DOMAIN outbox : outbox[i] = typed - Len(outbox) + i

\* A byte leaves the tab's outbox only for the child's PTY, or with the notice
\* that tells the user: no ack ever trims input the server has not written.  (A
\* reloaded page starts its counts over under a key whose ledger is ahead.)
Reloaded == 0 \in told
NoSilentLoss ==
  ~Reloaded => \A b \in 1 .. typed : b \in ToSet(outbox) \cup ToSet(pty) \cup told

\* While the tab trusts a live socket, its ledger, the byte the read loop is
\* about to count and the input still on the wire add up to the bytes the tab
\* says it sent; and the tab believes no more than the ledger holds.
Settled == phase = "acked" /\ handler[sock] \in {"reading", "wrote"}
ByteConservation ==
  Settled /\ ~Reloaded =>
    /\ bytesAcked <= Received(sock)
    /\ bytesSent = Received(sock) + Len(up[sock])
                   + (IF handler[sock] = "wrote" THEN 1 ELSE 0)

\* Input sent on a socket that stays up is acked, even when the child prints
\* nothing and the ack sweep has to carry the count.
AckedEventually ==
  \A b \in Byte :
    (Settled /\ b \in ToSet(outbox)) ~> (b \notin ToSet(outbox) \/ ~Settled)
=============================================================================
