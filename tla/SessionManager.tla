--------------------------- MODULE SessionManager ---------------------------
(***************************************************************************)
(* terminal/session_manager.go: the table of sessions and everything that  *)
(* may change it at the same time - requests that create, close and        *)
(* reorder, the idle reaper, Shutdown, and the sockets and status streams  *)
(* whose presence holds the reaper off.                                    *)
(*                                                                         *)
(* An operation holds the manager's lock for the part that reads and       *)
(* writes the table, and that part is one action.  What it does before or  *)
(* after, unlocked, is an action of its own: a process is started before   *)
(* its session enters the table (starting), and handlers are closed after  *)
(* theirs left it (doomed).  A process ends in the three steps others can  *)
(* tell apart: told or found to end, its exit broadcast, all of its        *)
(* handler's goroutines returned.                                          *)
(*                                                                         *)
(* Ids are random and never used twice.  Time is counted in ticks, and an  *)
(* age stops at the idle window, beyond which nothing tells ages apart.    *)
(***************************************************************************)
EXTENDS Integers, Sequences, FiniteSets, Functions, SequencesExt

CONSTANTS
  Session,   \* the ids newSessionID will ever return
  NoSession, \* what a socket serves that serves nothing
  Viewer,    \* terminal sockets
  Stream,    \* subscribers of the status stream
  Window,    \* WithIdleReaper, in ticks; 0 disables the reaper
  Mishaps    \* which of the callers' awkward turns may happen

\* "lateCreate":   sessions are created while Shutdown runs, or after it;
\* "lateTeardown": Shutdown is called while the process of a session that is
\*                 already out of the table has not ended yet.
AllMishaps == {"lateCreate", "lateTeardown"}

ASSUME ManagerAssumption ==
  /\ IsFiniteSet(Session) /\ IsFiniteSet(Viewer) /\ IsFiniteSet(Stream)
  /\ NoSession \notin Session
  /\ Window \in Nat
  /\ Mishaps \subseteq AllMishaps

VARIABLES
  (* under the manager's lock *)
  sessions,      \* keys of the table
  order,         \* the display order every viewer shares
  activeClients, \* sockets and streams counted as present
  idleFor,       \* ticks since idleSince, up to the window
  (* between two holds of the lock *)
  starting,      \* sessions started, not yet in the table
  doomed,        \* sessions out of the table, their handlers to be closed: why
  reaper,        \* the reap loop: "on", "stopping" (cancelled), "off"
  shut,          \* Shutdown: "no", "waiting", "done", "expired"
  victims,       \* the sessions Shutdown waits for
  (* the handlers *)
  proc,          \* per session: "none", "running", "ending", "exited", "gone"
  (* the clients *)
  serving,       \* per socket, the session whose handler serves it
  streaming,     \* streams counted as present
  (* history *)
  age,           \* per session in the table, ticks since it entered
  absent         \* ticks since the last client left

table   == <<sessions, order>>
clients == <<activeClients, serving, streaming, absent>>
closing == <<doomed, reaper, shut, victims>>
vars    == <<table, clients, closing, idleFor, starting, proc, age>>

Present == {v \in Viewer : serving[v] # NoSession}
Unserved == [v \in Viewer |-> NoSession]
Ended    == {"none", "gone"}

Init ==
  /\ sessions = {} /\ order = <<>>
  /\ activeClients = 0 /\ idleFor = 0
  /\ starting = {} /\ doomed = <<>>
  /\ reaper = IF Window > 0 THEN "on" ELSE "off"
  /\ shut = "no" /\ victims = {}
  /\ proc = [id \in Session |-> "none"]
  /\ serving = Unserved /\ streaming = {}
  /\ age = <<>> /\ absent = 0

-----------------------------------------------------------------------------
(* Creating, closing and reordering.                                       *)

\* create, up to StartEager, which runs outside the lock.  A process that does
\* not start leaves nothing behind but an id nobody learns.
Start(id) ==
  /\ proc[id] = "none"
  /\ shut # "no" => "lateCreate" \in Mishaps
  /\ proc' = [proc EXCEPT ![id] = "running"]
  /\ starting' = starting \cup {id}
  /\ UNCHANGED <<table, clients, closing, idleFor, age>>

\* The rest of create: the idle clock starts over, the session enters the
\* table, and its id goes to the end of the order.  (The mutant puts the newest
\* session in front.)
MutNewest(id) == <<id>> \o order
Newest(id)    == Append(order, id)
Insert(id) ==
  /\ id \in starting
  /\ starting' = starting \ {id}
  /\ sessions' = sessions \cup {id}
  /\ order' = Newest(id)
  /\ idleFor' = 0
  /\ age' = [i \in sessions' |-> IF i = id THEN 0 ELSE age[i]]
  /\ UNCHANGED <<clients, closing, proc>>

\* dropFromOrderLocked: the gap closes.
DropFromOrder(id) ==
  RemoveAt(order, CHOOSE i \in DOMAIN order : order[i] = id)

Doom(ids, why) == [id \in DOMAIN doomed \cup ids |->
                     IF id \in ids THEN why ELSE doomed[id]]

\* Close, under the lock.
Close(id) ==
  /\ id \in sessions
  /\ sessions' = sessions \ {id}
  /\ order' = DropFromOrder(id)
  /\ doomed' = Doom({id}, "close")
  /\ age' = Restrict(age, sessions')
  /\ UNCHANGED <<clients, reaper, shut, victims, idleFor, starting, proc>>

\* SetSessionOrder takes a list that names the live sessions exactly.
\* (The mutant forgets to look for duplicates.)
MutAccepted(ids) ==
  /\ Len(ids) = Cardinality(sessions)
  /\ \A i \in DOMAIN ids : ids[i] \in sessions
Accepted(ids) ==
  /\ Len(ids) = Cardinality(sessions)
  /\ \A i \in DOMAIN ids : ids[i] \in sessions
  /\ IsInjective(ids)
Arrangement == UNION {[1 .. n -> Session] : n \in 0 .. Cardinality(Session)}
SetSessionOrder(ids) ==
  /\ Accepted(ids)
  /\ order' = ids
  /\ UNCHANGED <<sessions, clients, closing, idleFor, starting, proc, age>>

-----------------------------------------------------------------------------
(* The end of a handler.                                                   *)

\* Handler.Close, called once the lock is released: the child is killed.
CloseHandler(id) ==
  /\ id \in DOMAIN doomed
  /\ doomed' = [d \in DOMAIN doomed \ {id} |-> doomed[d]]
  /\ proc' = [proc EXCEPT ![id] = IF @ = "running" THEN "ending" ELSE @]
  /\ UNCHANGED <<table, clients, reaper, shut, victims, idleFor, starting, age>>

\* The child exits by itself.
Exit(id) ==
  /\ proc[id] = "running"
  /\ proc' = [proc EXCEPT ![id] = "ending"]
  /\ UNCHANGED <<table, clients, closing, idleFor, starting, age>>

\* The process monitor: after the containment is torn down it broadcasts the
\* exit, after the marker sweep it returns, and the handler is done.
Monitor(id) ==
  /\ proc[id] \in {"ending", "exited"}
  /\ proc' = [proc EXCEPT ![id] = IF @ = "ending" THEN "exited" ELSE "gone"]
  /\ UNCHANGED <<table, clients, closing, idleFor, starting, age>>

-----------------------------------------------------------------------------
(* Presence and the idle reaper.                                           *)

\* clientDisconnected: with the last client the idle window starts over.
\* (The mutant lets the old window go on.)
MutClientDisconnected ==
  /\ activeClients' = IF activeClients - 1 <= 0 THEN 0 ELSE activeClients - 1
  /\ UNCHANGED idleFor
ClientDisconnected ==
  /\ activeClients' = IF activeClients - 1 <= 0 THEN 0 ELSE activeClients - 1
  /\ idleFor' = IF activeClients - 1 <= 0 THEN 0 ELSE idleFor

\* WebSocketHandler: the client is counted under the lock that looks its
\* session up.  An unknown session is answered 4004 and counts nothing.
Lookup(v, id) ==
  /\ serving[v] = NoSession /\ id \in sessions
  /\ serving' = [serving EXCEPT ![v] = id]
  /\ activeClients' = activeClients + 1
  /\ UNCHANGED <<table, closing, idleFor, starting, proc, age, streaming, absent>>

StopServing(v) ==
  /\ serving' = [serving EXCEPT ![v] = NoSession]
  /\ ClientDisconnected
  /\ absent' = 0
  /\ UNCHANGED <<table, closing, starting, proc, age, streaming>>

\* ServeHTTP returns because the tab or the network ends the connection,
HangUp(v) == serving[v] # NoSession /\ StopServing(v)

\* or because closeOnProcExit closes it with 4001.
ExitClose(v) ==
  /\ \E id \in Session : serving[v] = id /\ proc[id] \in {"exited", "gone"}
  /\ StopServing(v)

\* EventsHandler counts its subscriber for as long as it streams.
OpenStream(s) ==
  /\ s \notin streaming
  /\ streaming' = streaming \cup {s}
  /\ activeClients' = activeClients + 1
  /\ UNCHANGED <<table, closing, idleFor, starting, proc, age, serving, absent>>
EndStream(s) ==
  /\ s \in streaming
  /\ streaming' = streaming \ {s}
  /\ ClientDisconnected
  /\ absent' = 0
  /\ UNCHANGED <<table, closing, starting, proc, age, serving>>

\* maybeReap: with nobody present for the whole window every session goes.
\* The loop closes the handlers itself, so it is not back before it has.
\* (The mutant waits for longer than the window.)
MutIdleWindowPassed == idleFor > Window
IdleWindowPassed    == idleFor >= Window
Reaping == \E id \in DOMAIN doomed : doomed[id] = "reap"
Reap ==
  /\ reaper # "off" /\ ~Reaping
  /\ activeClients <= 0 /\ sessions # {} /\ IdleWindowPassed
  /\ sessions' = {} /\ order' = <<>>
  /\ doomed' = Doom(sessions, "reap")
  /\ age' = <<>>
  /\ UNCHANGED <<clients, reaper, shut, victims, idleFor, starting, proc>>

\* A tick of the clock.
Older(n) == IF n < Window THEN n + 1 ELSE n
Tick ==
  /\ idleFor' = Older(idleFor)
  /\ age' = [id \in sessions |-> Older(age[id])]
  /\ absent' = IF Present = {} /\ streaming = {} THEN Older(absent) ELSE 0
  /\ UNCHANGED <<table, closing, starting, proc, activeClients, serving, streaming>>

-----------------------------------------------------------------------------
(* Shutdown.                                                               *)

\* Under the lock: the loops are cancelled and the table is taken away.
Shutdown ==
  /\ shut = "no"
  /\ starting # {} => "lateCreate" \in Mishaps
  /\ (\E id \in Session \ (sessions \cup starting) : proc[id] \notin Ended)
       => "lateTeardown" \in Mishaps
  /\ reaper' = IF reaper = "on" THEN "stopping" ELSE reaper
  /\ victims' = sessions /\ doomed' = Doom(sessions, "shutdown")
  /\ sessions' = {} /\ order' = <<>>
  /\ shut' = "waiting"
  /\ age' = <<>>
  /\ UNCHANGED <<clients, idleFor, starting, proc>>

\* The cancelled reap loop returns once it is back at its select.
ReaperStops ==
  /\ reaper = "stopping" /\ ~Reaping
  /\ reaper' = "off"
  /\ UNCHANGED <<table, clients, doomed, shut, victims, idleFor, starting, proc, age>>

\* Every victim closed, then waited for, then the loops: Shutdown returns nil.
\* (The mutant waits for the exit only, not for the teardown behind it.)
MutAllDone == \A id \in victims : proc[id] \in {"exited", "gone"}
AllDone    == \A id \in victims : proc[id] = "gone"
ShutdownReturns ==
  /\ shut = "waiting"
  /\ \A id \in DOMAIN doomed : doomed[id] # "shutdown"
  /\ AllDone /\ reaper = "off"
  /\ shut' = "done" /\ victims' = {}
  /\ UNCHANGED <<table, clients, doomed, reaper, idleFor, starting, proc, age>>

\* Its context expires first, and it returns an error.
ShutdownExpires ==
  /\ shut = "waiting"
  /\ \A id \in DOMAIN doomed : doomed[id] # "shutdown"
  /\ shut' = "expired" /\ victims' = {}
  /\ UNCHANGED <<table, clients, doomed, reaper, idleFor, starting, proc, age>>

-----------------------------------------------------------------------------
Request ==
  \/ \E id \in Session : Start(id) \/ Insert(id) \/ Close(id)
  \/ \E ids \in Arrangement : SetSessionOrder(ids)
Handlers == \E id \in Session : CloseHandler(id) \/ Exit(id) \/ Monitor(id)
Clients ==
  \/ \E v \in Viewer, id \in Session : Lookup(v, id)
  \/ \E v \in Viewer : HangUp(v) \/ ExitClose(v)
  \/ \E s \in Stream : OpenStream(s) \/ EndStream(s)
Loops == Reap \/ Tick \/ Shutdown \/ ReaperStops \/ ShutdownReturns \/ ShutdownExpires

Next == Request \/ Handlers \/ Clients \/ Loops
Spec == Init /\ [][Next]_vars

\* Requests under way finish, monitors and loops run, time passes.  Nobody is
\* owed a client, an exit of the child, or an expiry.
Fairness ==
  /\ \A id \in Session : /\ WF_vars(Insert(id))
                         /\ WF_vars(CloseHandler(id))
                         /\ WF_vars(Monitor(id))
  /\ \A v \in Viewer : WF_vars(ExitClose(v))
  /\ WF_vars(Reap) /\ WF_vars(Tick)
  /\ WF_vars(ReaperStops) /\ WF_vars(ShutdownReturns)
FairSpec == Spec /\ Fairness

-----------------------------------------------------------------------------
(* Properties.                                                             *)

TypeOK ==
  /\ sessions \subseteq Session /\ starting \subseteq Session
  /\ order \in Seq(Session)
  /\ activeClients \in Nat /\ idleFor \in 0 .. Window /\ absent \in 0 .. Window
  /\ DOMAIN doomed \subseteq Session
  /\ doomed \in [DOMAIN doomed -> {"close", "reap", "shutdown"}]
  /\ reaper \in {"on", "stopping", "off"}
  /\ shut \in {"no", "waiting", "done", "expired"}
  /\ victims \subseteq Session
  /\ proc \in [Session -> {"none", "running", "ending", "exited", "gone"}]
  /\ serving \in [Viewer -> Session \cup {NoSession}]
  /\ streaming \subseteq Stream
  /\ age \in [sessions -> 0 .. Window]

\* The display order names every live session exactly once, whatever requests,
\* the reaper and Shutdown do to each other: what makes a position dense and
\* unique (session_manager.go:479-484, rankOf's stray case is unreachable).
OrderIsLive == IsInjective(order) /\ ToSet(order) = sessions

\* When the set of sessions changes, those that stay keep their arrangement,
\* and a new one comes after all of them (create and dropFromOrderLocked).
Before(o, a, b) == \E i, j \in DOMAIN o : i < j /\ o[i] = a /\ o[j] = b
KeepsArrangement ==
  sessions' # sessions =>
    \A a \in sessions \cap sessions', b \in sessions' :
      Before(order', a, b) <=> (b \notin sessions \/ Before(order, a, b))
ArrangementKept == [][KeepsArrangement]_vars

\* The reaper takes a session only after a whole window in which no socket was
\* served and no stream was open, and no session younger than the window
\* (maybeReap against the lookup, the counts and the clock create refreshes).
SparesPresent ==
  \A id \in DOMAIN doomed' :
    doomed'[id] = "reap" /\ id \in sessions =>
      /\ Present = {} /\ streaming = {}
      /\ absent = Window /\ age[id] = Window
ReapSparesPresent == [][SparesPresent]_vars

\* Once Shutdown has returned nil no process is left, and no teardown.
ShutdownComplete == shut = "done" => \A id \in Session : proc[id] \in Ended

\* When everybody has left for good, no session is kept for ever.
AbandonedReaped ==
  <>[](Present = {} /\ streaming = {}) => <>[](sessions = {})

=============================================================================
