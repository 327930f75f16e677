---------------------------- MODULE StatusStream ----------------------------
(***************************************************************************)
(* terminal/events.go and web/src/status-stream.ts: what a browser's tab   *)
(* strip shows of every session, and how the changes reach it.             *)
(*                                                                         *)
(* One goroutine sweeps all sessions.  It lists them under the manager's   *)
(* lock, reads each handler with no lock of the manager's, takes the lock  *)
(* again to compare with what it last sent, and broadcasts after letting   *)
(* go.  A connection subscribes first, then takes its own two-phase        *)
(* snapshot and writes it, then forwards its queue.  Requests and children *)
(* change what both read at any point in between.                          *)
(*                                                                         *)
(* A connection is a slot: it outlives the strip's interest in it until    *)
(* its goroutine notices.  The strip itself is the consumer's and is       *)
(* modelled as the stream's contract with it: start over on onOpen, keep   *)
(* the last event of each session, drop it on "removed".                   *)
(***************************************************************************)
EXTENDS Integers, Sequences, FiniteSets, Functions, SequencesExt

CONSTANTS
  Session,    \* ids of sessions, each used once
  Strip,      \* tab strips: pages with a status stream
  Conn,       \* connections the server can have at one time
  NoConn,
  Reported,   \* <<state, percentage>> of the OSC 9;4 reports the children make
  Class,      \* what the classifier makes of a notification it knows
  Name,       \* names a user may pin, the empty one included
  QueueCap,   \* subscriberBuffer
  SubCap,     \* maxSubscribers
  MaxChanges, \* bound: changes of whatever a strip shows
  MaxLosses,  \* bound: connections that fail
  Mishaps     \* which turns of the environment may happen

\* "revert":     between two sweeps something changes and changes back;
\* "shortLived": a session is closed before any sweep has seen it.
AllMishaps == {"revert", "shortLived"}

Unnamed == ""      \* no pinned name
NoClass == ""      \* a notification no classifier knows, a latch not set
Absent  == -1      \* progressAbsent: no percentage, no state seen

ASSUME StatusAssumption ==
  /\ IsFiniteSet(Session) /\ NoConn \notin Conn
  /\ Reported \subseteq (0 .. 4) \X (Absent .. 100)
  /\ Class \subseteq {"input", "done"} /\ Unnamed \in Name
  /\ {QueueCap, SubCap, MaxChanges, MaxLosses} \subseteq Nat
  /\ Mishaps \subseteq AllMishaps

VARIABLES
  (* the sessions, as handlers and the manager hold them *)
  order,    \* the live sessions in display order
  born,     \* sessions ever created
  screen,   \* per session: progress state, percentage, notification number, class
  outcome,  \* per session: "running", "exited", "crashed"
  name,     \* per session: the pinned name
  (* the sweep *)
  tracker,  \* per tracked session, the statusTracker
  sweep,    \* phase, sessions to read, what was read, events to send
  (* the connections *)
  stage,    \* "free", "subscribed", "reading", "streaming"
  subs,     \* connections the hub sends to
  queue,    \* their channels
  snap,     \* a snapshot in the making: the faces as far as the manager has them
  (* the strips *)
  conn,     \* the connection a strip listens to
  view,     \* per strip and session, the face it shows
  heard,    \* per strip and session, the last notification it was given
  (* history: the class of the last notification, if no report speaks against it *)
  owed,
  (* bounds *)
  changes, losses

sessionVars == <<order, born, screen, outcome, name, owed, changes>>
connVars    == <<stage, subs, queue, snap>>
stripVars   == <<conn, view, heard, losses>>
vars        == <<sessionVars, tracker, sweep, connVars, stripVars>>

Live   == ToSet(order)
Rank(id) == (CHOOSE i \in DOMAIN order : order[i] = id) - 1
Put(f, x, v) == [y \in DOMAIN f \cup {x} |-> IF y = x THEN v ELSE f[y]]

QuietScreen == [state |-> Absent, pct |-> Absent, seq |-> 0, class |-> NoClass]
NewTracker  == [status |-> "", name |-> Unnamed, pct |-> 0, rank |-> 0, reports |-> FALSE,
                latched |-> NoClass, seen |-> 0, delivered |-> 0]
TrackerOf(id) == IF id \in DOMAIN tracker THEN tracker[id] ELSE NewTracker
IdleSweep   == [at |-> "idle", todo |-> {}, read |-> <<>>, out |-> <<>>]
NoSnap      == <<>>

Init ==
  /\ order = <<>> /\ born = {}
  /\ screen = [id \in Session |-> QuietScreen]
  /\ outcome = [id \in Session |-> "running"]
  /\ name = [id \in Session |-> Unnamed]
  /\ owed = [id \in Session |-> NoClass]
  /\ tracker = <<>> /\ sweep = IdleSweep
  /\ stage = [c \in Conn |-> "free"] /\ subs = {}
  /\ queue = [c \in Conn |-> <<>>] /\ snap = [c \in Conn |-> NoSnap]
  /\ conn = [t \in Strip |-> NoConn]
  /\ view = [t \in Strip |-> <<>>] /\ heard = [t \in Strip |-> <<>>]
  /\ changes = 0 /\ losses = 0

-----------------------------------------------------------------------------
(* What a sweep makes of a session.                                        *)

\* progressStatus.
ProgressStatus(state) ==
  CASE state \in {1, 3} -> "working"
    [] state = 2        -> "failed"
    [] state = 4        -> "warning"
    [] OTHER            -> ""

\* progressSupersedesLatch: a paused program contradicts neither latch.
\* (The mutant has it clear them, as state 2 does.)
MutProgressSupersedesLatch(state) == TRUE
ProgressSupersedesLatch(state)    == state # 4

\* computeStatus with applyNotification: the latch and the status of a tracker
\* tr once it has been shown r.  A dead session's notification is not classified.
\* (The mutant lets progress clear a latch of this very sweep.)
FreshLatch(tr, r) ==
  r.outcome = "running" /\ r.seq > tr.seen /\ r.class # NoClass
Overrides(tr, r, latched) ==
  /\ ProgressStatus(r.state) # ""
  /\ latched = NoClass \/ ProgressSupersedesLatch(r.state)
MutComputeStatus(tr, r) ==
  LET latched == IF FreshLatch(tr, r) THEN r.class ELSE tr.latched
      active  == Overrides(tr, r, latched)
  IN IF r.outcome # "running" THEN [latched |-> tr.latched, status |-> r.outcome]
     ELSE IF active THEN [latched |-> NoClass, status |-> ProgressStatus(r.state)]
     ELSE [latched |-> latched, status |-> IF latched # NoClass THEN latched ELSE "idle"]
ComputeStatus(tr, r) ==
  LET latched == IF FreshLatch(tr, r) THEN r.class ELSE tr.latched
      active  == ~FreshLatch(tr, r) /\ Overrides(tr, r, latched)
  IN IF r.outcome # "running" THEN [latched |-> tr.latched, status |-> r.outcome]
     ELSE IF active THEN [latched |-> NoClass, status |-> ProgressStatus(r.state)]
     ELSE [latched |-> latched, status |-> IF latched # NoClass THEN latched ELSE "idle"]

\* The face an event shows of a session: read from the handler by the sweep
\* (r), and from the manager under the lock.
Face(id, tr, r) ==
  LET c == ComputeStatus(tr, r)
  IN [status |-> c.status, name |-> name[id], pct |-> r.pct, rank |-> Rank(id),
      reports |-> r.state >= 0 \/ c.latched # NoClass]

\* sweepSession: is there anything to send, and what the tracker remembers.
Shown(tr) == [status |-> tr.status, name |-> tr.name, pct |-> tr.pct,
              rank |-> tr.rank, reports |-> tr.reports]
NotifNew(tr, r) == r.seq > tr.delivered
\* (The mutant does not look at the position.)
MutChanged(id, tr, r) ==
  NotifNew(tr, r) \/ [Face(id, tr, r) EXCEPT !.rank = tr.rank] # Shown(tr)
Changed(id, tr, r) == NotifNew(tr, r) \/ Face(id, tr, r) # Shown(tr)
\* (The mutant delivers again in every later sweep.)
MutDelivered(tr, r) == tr.delivered
Delivered(tr, r)    == IF NotifNew(tr, r) THEN r.seq ELSE tr.delivered
Remember(id, tr, r) ==
  LET f == Face(id, tr, r)
  IN [status |-> f.status, name |-> f.name, pct |-> f.pct, rank |-> f.rank,
      reports |-> f.reports, latched |-> ComputeStatus(tr, r).latched,
      seen |-> IF r.outcome = "running" /\ r.seq > tr.seen THEN r.seq ELSE tr.seen,
      delivered |-> Delivered(tr, r)]
Event(id, tr, r) ==
  [id |-> id, removed |-> FALSE, face |-> Face(id, tr, r),
   note |-> IF NotifNew(tr, r) THEN r.seq ELSE 0,
   class |-> IF NotifNew(tr, r) THEN r.class ELSE NoClass]
Removed(id) == [id |-> id, removed |-> TRUE, face |-> Shown(tracker[id]), note |-> 0,
                class |-> NoClass]

\* What a handler's getters answer now.
Reading(id) == [outcome |-> outcome[id], state |-> screen[id].state,
                pct |-> screen[id].pct, seq |-> screen[id].seq, class |-> screen[id].class]

-----------------------------------------------------------------------------
(* Sessions change.                                                        *)

\* Something a strip shows goes back to what the last sweep saw while nothing
\* was sent of the change in between.
Reverts ==
  \E id \in DOMAIN tracker \cap Live :
    /\ id \in Live'
    /\ \/ tracker[id].pct = screen[id].pct' /\ screen[id].pct # screen[id].pct'
       \/ tracker[id].name = name[id]' /\ name[id] # name[id]'
       \/ tracker[id].rank = Rank(id)' /\ Rank(id) # Rank(id)'
Contrary == {1, 2, 3}  \* states at work or failed: neither done nor waiting
Change ==
  /\ changes < MaxChanges /\ changes' = changes + 1
  /\ UNCHANGED <<tracker, sweep, connVars, stripVars>>

\* handleOsc9 with setProgress: the state and the percentage move together.
Report(id, p) ==
  /\ id \in Live /\ p # <<screen[id].state, screen[id].pct>>
  /\ screen' = [screen EXCEPT ![id].state = p[1], ![id].pct = p[2]]
  /\ owed' = [owed EXCEPT ![id] = IF p[1] \in Contrary THEN NoClass ELSE @]
  /\ UNCHANGED <<order, born, outcome, name>>
  /\ Change /\ (Reverts => "revert" \in Mishaps)

\* handleOsc9 with a message, whose class the classifier will tell.
Notify(id, class) ==
  /\ id \in Live
  /\ screen' = [screen EXCEPT ![id].seq = @ + 1, ![id].class = class]
  /\ owed' = [owed EXCEPT ![id] = IF screen[id].state \in Contrary THEN NoClass ELSE class]
  /\ UNCHANGED <<order, born, outcome, name>>
  /\ Change

\* The child ends; what was still in the PTY may be parsed after.
Exit(id, how) ==
  /\ id \in Live /\ outcome[id] = "running"
  /\ outcome' = [outcome EXCEPT ![id] = how]
  /\ UNCHANGED <<order, born, screen, name, owed>>
  /\ Change

SetSessionPinnedTitle(id, n) ==
  /\ id \in Live /\ n # name[id]
  /\ name' = [name EXCEPT ![id] = n]
  /\ UNCHANGED <<order, born, screen, outcome, owed>>
  /\ Change /\ (Reverts => "revert" \in Mishaps)

\* create, once the session enters the table.
Create(id) ==
  /\ id \notin born
  /\ born' = born \cup {id} /\ order' = Append(order, id)
  /\ UNCHANGED <<screen, outcome, name, owed>>
  /\ Change

\* Close takes a session out, maybeReap all of them; the next sweep tells of it.
Close(id) ==
  /\ id \in Live
  /\ id \in DOMAIN tracker \/ "shortLived" \in Mishaps
  /\ order' = RemoveAt(order, Rank(id) + 1)
  /\ UNCHANGED <<born, screen, outcome, name, owed>>
  /\ Change /\ (Reverts => "revert" \in Mishaps)

\* SetSessionOrder, with a list that names the live sessions.
SetSessionOrder(ids) ==
  /\ ids # order /\ ToSet(ids) = Live /\ IsInjective(ids)
  /\ order' = ids
  /\ UNCHANGED <<born, screen, outcome, name, owed>>
  /\ Change /\ (Reverts => "revert" \in Mishaps)

-----------------------------------------------------------------------------
(* The sweep.                                                              *)

\* Phase 1, under the lock: the sessions, and trackers for the new ones.
SweepBegin ==
  /\ sweep.at = "idle" /\ (Live # {} \/ tracker # <<>>)
  /\ tracker' = [id \in DOMAIN tracker \cup Live |-> TrackerOf(id)]
  /\ sweep' = [at |-> "listed", todo |-> Live, read |-> <<>>, out |-> <<>>]
  /\ UNCHANGED <<sessionVars, connVars, stripVars>>

\* Phase 2, unlocked: the handlers are asked one by one for their outcomes and
\* screens.  What is made of one session does not depend on another's handler,
\* so one step stands for all.
SweepRead ==
  /\ sweep.at = "listed"
  /\ sweep' = [at |-> "read", todo |-> {}, out |-> <<>>,
               read |-> [id \in sweep.todo |-> Reading(id)]]
  /\ UNCHANGED <<sessionVars, tracker, connVars, stripVars>>

\* Phase 3, under the lock again: trackers move, events are made, and whatever
\* is tracked but no longer there is told of and forgotten.
Kept == DOMAIN sweep.read \cap Live
Lost == DOMAIN tracker \ Live
News == {id \in Kept : Changed(id, tracker[id], sweep.read[id])}
Events(new, gone) ==
  [i \in DOMAIN new |-> Event(new[i], tracker[new[i]], sweep.read[new[i]])]
    \o [i \in DOMAIN gone |-> Removed(gone[i])]
SweepDiff ==
  /\ sweep.at = "read"
  /\ tracker' = [id \in DOMAIN tracker \ Lost |->
                   IF id \in Kept THEN Remember(id, tracker[id], sweep.read[id])
                   ELSE tracker[id]]
  /\ \E new \in SetToSeqs(News), gone \in SetToSeqs(Lost) :
       sweep' = IF News \cup Lost = {} THEN IdleSweep
                ELSE [at |-> "sending", todo |-> {}, read |-> <<>>, out |-> Events(new, gone)]
  /\ UNCHANGED <<sessionVars, connVars, stripVars>>

\* broadcast, one event to every subscriber; one whose queue is full is dropped
\* and its channel closed.
Full(c) == Len(queue[c]) >= QueueCap
Broadcast ==
  /\ sweep.at = "sending" /\ sweep.out # <<>>
  /\ queue' = [c \in Conn |-> IF c \in subs /\ ~Full(c) THEN Append(queue[c], Head(sweep.out))
                              ELSE queue[c]]
  /\ subs' = {c \in subs : ~Full(c)}
  /\ sweep' = IF Len(sweep.out) = 1 THEN IdleSweep
              ELSE [at |-> "sending", todo |-> {}, read |-> <<>>, out |-> Tail(sweep.out)]
  /\ UNCHANGED <<sessionVars, tracker, stage, snap, stripVars>>

-----------------------------------------------------------------------------
(* A connection.                                                           *)

\* The strip (re)connects and the handler subscribes; at the cap the answer is
\* 503, which the strip meets with another attempt.
Subscribe(t, c) ==
  /\ conn[t] = NoConn /\ stage[c] = "free" /\ Cardinality(subs) < SubCap
  /\ conn' = [conn EXCEPT ![t] = c]
  /\ subs' = subs \cup {c}
  /\ stage' = [stage EXCEPT ![c] = "subscribed"]
  /\ UNCHANGED <<sessionVars, tracker, sweep, queue, snap, view, heard, losses>>

\* snapshot, under the lock.
SnapTable(c) ==
  /\ stage[c] = "subscribed"
  /\ stage' = [stage EXCEPT ![c] = "reading"]
  /\ snap' = [snap EXCEPT ![c] =
       [id \in Live |->
          LET tr == TrackerOf(id) IN
          [status |-> IF tr.status = "" THEN "idle" ELSE tr.status, name |-> name[id],
              pct |-> Absent, rank |-> Rank(id), reports |-> tr.latched # NoClass]]]
  /\ UNCHANGED <<sessionVars, tracker, sweep, subs, queue, stripVars>>

\* snapshot, unlocked: refinedStatus lets an exit win, the screen tells the rest.
\* EventsHandler writes it, and the strip starts over (onOpen) and takes it in.
Refined(id, face) ==
  [face EXCEPT !.status = IF outcome[id] # "running" THEN outcome[id] ELSE @,
               !.pct = screen[id].pct, !.reports = @ \/ screen[id].state >= 0]
WriteSnapshot(c) ==
  /\ stage[c] = "reading"
  /\ LET faces == [id \in DOMAIN snap[c] |-> Refined(id, snap[c][id])]
     IN view' = [t \in Strip |-> IF conn[t] = c THEN faces ELSE view[t]]
  /\ stage' = [stage EXCEPT ![c] = "streaming"]
  /\ snap' = [snap EXCEPT ![c] = NoSnap]
  /\ UNCHANGED <<sessionVars, tracker, sweep, subs, queue, conn, heard, losses>>

\* onStatus.
Apply(v, ev) ==
  IF ev.removed THEN [id \in DOMAIN v \ {ev.id} |-> v[id]] ELSE Put(v, ev.id, ev.face)

\* streamEvents forwards an event, also of a channel already closed.
Stream(c) ==
  /\ stage[c] = "streaming" /\ queue[c] # <<>>
  /\ LET ev == Head(queue[c])
     IN /\ view' = [t \in Strip |-> IF conn[t] = c THEN Apply(view[t], ev) ELSE view[t]]
        /\ heard' = [t \in Strip |-> IF conn[t] = c /\ ev.note > 0
                                     THEN Put(heard[t], ev.id, ev.note) ELSE heard[t]]
  /\ queue' = [queue EXCEPT ![c] = Tail(@)]
  /\ UNCHANGED <<sessionVars, tracker, sweep, stage, subs, snap, conn, losses>>

\* The network or the page ends the connection: the strip's next attempt may be
\* made before the server's goroutine has noticed.
Lose(t) ==
  /\ conn[t] # NoConn /\ losses < MaxLosses
  /\ conn' = [conn EXCEPT ![t] = NoConn]
  /\ losses' = losses + 1
  /\ UNCHANGED <<sessionVars, tracker, sweep, connVars, view, heard>>

\* The handler returns: its client has gone, or it was dropped and its channel
\* is drained.  Either way the strip knows.
\* (The mutant's goroutine waits on a closed channel for ever.)
MutReturn(c) ==
  /\ stage[c] # "free"
  /\ \A t \in Strip : conn[t] # c
  /\ subs' = subs \ {c}
  /\ stage' = [stage EXCEPT ![c] = "free"]
  /\ queue' = [queue EXCEPT ![c] = <<>>] /\ snap' = [snap EXCEPT ![c] = NoSnap]
  /\ UNCHANGED <<sessionVars, tracker, sweep, stripVars>>
Return(c) ==
  /\ stage[c] # "free"
  /\ \/ \A t \in Strip : conn[t] # c
     \/ stage[c] = "streaming" /\ c \notin subs /\ queue[c] = <<>>
  /\ subs' = subs \ {c}
  /\ stage' = [stage EXCEPT ![c] = "free"]
  /\ queue' = [queue EXCEPT ![c] = <<>>] /\ snap' = [snap EXCEPT ![c] = NoSnap]
  /\ conn' = [t \in Strip |-> IF conn[t] = c THEN NoConn ELSE conn[t]]
  /\ UNCHANGED <<sessionVars, tracker, sweep, view, heard, losses>>

-----------------------------------------------------------------------------
Child(id) ==
  \/ \E p \in Reported : Report(id, p)
  \/ \E class \in Class \cup {NoClass} : Notify(id, class)
  \/ \E how \in {"exited", "crashed"} : Exit(id, how)
User(id) == Create(id) \/ Close(id) \/ \E n \in Name : SetSessionPinnedTitle(id, n)
Arrangement == UNION {[1 .. n -> Session] : n \in 0 .. Cardinality(Session)}
Sweep == SweepBegin \/ SweepRead \/ SweepDiff \/ Broadcast
Serve(c) ==
  SnapTable(c) \/ WriteSnapshot(c) \/ Stream(c) \/ Return(c)
Connect(t) == \E c \in Conn : Subscribe(t, c)

Next ==
  \/ \E id \in Session : Child(id) \/ User(id)
  \/ \E ids \in Arrangement : SetSessionOrder(ids)
  \/ Sweep
  \/ \E c \in Conn : Serve(c)
  \/ \E t \in Strip : Connect(t) \/ Lose(t)
Spec == Init /\ [][Next]_vars

\* The sweep ticks for ever, a connection's goroutine runs, a strip tries again.
Fairness ==
  /\ WF_vars(Sweep)
  /\ \A c \in Conn : WF_vars(Serve(c))
  /\ \A t \in Strip : WF_vars(Connect(t))
FairSpec == Spec /\ Fairness

-----------------------------------------------------------------------------
(* Properties.                                                             *)

FaceType == [status : {"working", "failed", "warning", "idle", "exited", "crashed", "input", "done"},
             name : Name, pct : Absent .. 100, rank : Nat, reports : BOOLEAN]
TypeOK ==
  /\ order \in Seq(Session) /\ IsInjective(order) /\ Live \subseteq born
  /\ DOMAIN tracker \subseteq born
  /\ \A c \in Conn : Len(queue[c]) <= QueueCap
  /\ subs \subseteq {c \in Conn : stage[c] # "free"} /\ Cardinality(subs) <= SubCap
  /\ \A t \in Strip : /\ conn[t] \in Conn \cup {NoConn}
                      /\ \A id \in DOMAIN view[t] : view[t][id] \in FaceType

\* A sweep that started now and were not disturbed would find nothing to send.
Told ==
  /\ sweep.at = "idle" /\ DOMAIN tracker = Live
  /\ \A id \in Live : ~Changed(id, tracker[id], Reading(id))
Listening(t) ==
  conn[t] # NoConn /\ conn[t] \in subs /\ stage[conn[t]] = "streaming" /\ queue[conn[t]] = <<>>
Truth == [id \in Live |-> Face(id, TrackerOf(id), Reading(id))]

\* When all has been said and a strip has taken it in, it shows every live
\* session, no other, and each as the server has it - whenever it subscribed,
\* whatever moved between the phases of sweep and snapshot
\* ("Subscribe before the snapshot", events.go:694-695).
StripAgrees == \A t \in Strip : Told /\ Listening(t) => view[t] = Truth

\* What is still to be given to a strip are notifications it has not been given,
\* each once and in order, over however many connections (sweepSession keeps
\* notifDelivered for it).
NotifiedOnce ==
  \A t \in Strip : conn[t] # NoConn =>
    LET due == queue[conn[t]]
        id(i) == due[i].id
    IN \A i \in DOMAIN due : due[i].note > 0 =>
         /\ id(i) \in DOMAIN heard[t] => heard[t][id(i)] < due[i].note
         /\ \A j \in 1 .. i - 1 : id(j) = id(i) => due[j].note < due[i].note

\* A strip shows "done" or "needs input" until the program says otherwise: a
\* report of work or failure does, one of pause or rest does not
\* (progressSupersedesLatch and its rationale, events.go:518-538).
LatchKept ==
  Told => \A id \in Live :
            owed[id] # NoClass /\ outcome[id] = "running" => Truth[id].status = owed[id]

\* The event that carries a classified notification of a running session shows
\* its status, whatever progress was read with it (computeStatus, rule 2).
ShowsTurnEnd(ev) ==
  ev.class # NoClass => ev.face.status \in {ev.class, "exited", "crashed"}
TurnEndShown == \A i \in DOMAIN sweep.out : ShowsTurnEnd(sweep.out[i])

\* With changes and losses over, every strip is connected and shows the truth.
StripsConverge == <>[](\A t \in Strip : Listening(t) /\ view[t] = Truth)

=============================================================================
