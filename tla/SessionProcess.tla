--------------------------- MODULE SessionProcess ---------------------------
(***************************************************************************)
(* The life of a session's process tree: ensureStarted and the process     *)
(* monitor of terminal/terminal.go, the cgroup and marker teardowns        *)
(* (containment_linux.go, reap.go), and the zombie sweep (zombiereap.go),  *)
(* over a small model of the kernel's processes.                           *)
(*                                                                         *)
(* A step of a monitor, of the sweep or of a socket's watcher is one step  *)
(* up to the next lock, channel or system call another goroutine can see.  *)
(* Handlers hold h.mu from the fork to the end of ensureStarted, and the   *)
(* spawn lock with it: whoever needs either waits for Registered.          *)
(***************************************************************************)
EXTENDS Integers, Sequences, SequencesExt

CONSTANTS
  Session,      \* handlers, all in one server process
  Inherited,    \* the reap markers in the server's own environment
  Configured,   \* the markers a consumer's WithEnv sets
  MaxPids,      \* bound: pids
  MaxAttaches,  \* bound: sockets accepted, all sessions together
  Mishaps       \* which of the environment's awkward turns may happen

\* "recycledPid":  a fork may be given a pid that was in use before;
\* "teardownFork": an uncontained tree forks after its first marker scan;
\* "lateStart":    a handler's first client arrives after it was closed.
AllMishaps == {"recycledPid", "teardownFork", "lateStart"}

NoMark == "none"
Server == 0
Stranger == 1   \* a process of another server's session, of which this server is a part
Outer == "outer"

ASSUME ProcessAssumption ==
  /\ Session # {} /\ {NoMark, Outer} \cap Session = {}
  /\ Inherited \in Seq(STRING) /\ Configured \in Seq(STRING)
  /\ MaxPids \in Nat \ {0, 1} /\ MaxAttaches \in Nat
  /\ Mishaps \subseteq AllMishaps

Pid == 1 .. MaxPids

VARIABLES
  procs,     \* the kernel's processes: Pid -> state, tree, mark, parent, exit status
  spawned,   \* spawnRegistry.m: pids whose exit status os/exec owns
  sweep,     \* orphans the zombie sweep has listed and not yet waited for
  h,         \* the handlers
  client,    \* the socket attached to each, if any
  used,      \* bound: the highest pid given out
  attaches,  \* bound: sockets so far
  strayed    \* history: a teardown signalled a process of another tree
vars == <<procs, spawned, sweep, h, client, used, attaches, strayed>>

NoProcess == [state |-> "free"]
Process(s, mark, parent) ==
  [state |-> "live", tree |-> s, mark |-> mark, parent |-> parent, status |-> "nil"]
NoClient  == [state |-> "out", late |-> "unread", served |-> FALSE]

Handler0 ==
  [started |-> FALSE, pid |-> 0, closing |-> FALSE, cancelled |-> FALSE,
   pty |-> "none", contain |-> "nil", monitor |-> "none", members |-> {},
   loops |-> FALSE, werr |-> "nil", exitErr |-> "nil", exited |-> FALSE,
   done |-> "nil", fate |-> "nil"]

Init ==
  /\ procs = [p \in Pid |-> IF p = Stranger THEN Process(Outer, Outer, Stranger) ELSE NoProcess]
  /\ spawned = {}
  /\ sweep = {}
  /\ h = [s \in Session |-> Handler0]
  /\ client = [s \in Session |-> NoClient]
  /\ used = Stranger
  /\ attaches = 0
  /\ strayed = FALSE

-----------------------------------------------------------------------------
(* The kernel.                                                             *)

Live(p) == procs[p].state = "live"
Tree(s) == {p \in Pid : Live(p) /\ procs[p].tree = s}

FreshPid == IF used < MaxPids THEN {used + 1} ELSE {}
FreePid == FreshPid \cup
           (IF "recycledPid" \in Mishaps
            THEN {p \in 1 .. used : procs[p].state = "free"} ELSE {})

\* Processes end together: a child left behind becomes the server's
\* (PR_SET_CHILD_SUBREAPER); the status of the server's own waits for it, that of
\* another's child is taken by its parent at once.  Where both end it is one or
\* the other, as the child outlives its parent (orphaned) or not.
Zombie(p, status) ==
  [p EXCEPT !.state = "zombie", !.mark = NoMark, !.parent = Server, !.status = status]
EndAll(ps, dying, status) ==
  LET gone   == {q \in dying : ps[q].state = "live"}
      nested == {q \in gone : ps[q].parent \in gone}
  IN {[q \in Pid |->
         IF q \in gone
         THEN IF ps[q].parent = Server \/ q \in orphaned THEN Zombie(ps[q], status)
              ELSE NoProcess
         ELSE IF ps[q].state # "free" /\ ps[q].parent \in gone
              THEN [ps[q] EXCEPT !.parent = Server]
              ELSE ps[q]] : orphaned \in SUBSET nested}

\* What a head died of is noted for the properties.
Fates(dying, status) ==
  [s \in Session |-> IF h[s].pid \in dying /\ h[s].fate = "nil"
                     THEN [h[s] EXCEPT !.fate = status] ELSE h[s]]

\* A process of a tree forks; its child keeps the environment, or execs with a
\* scrubbed one.
Fork(p) ==
  /\ Live(p) /\ procs[p].tree \in Session
  /\ LET s == procs[p].tree IN
       "teardownFork" \in Mishaps \/ h[s].contain # "nil"
         \/ h[s].monitor \notin {"settle", "term", "settled", "kill", "ended"}
  /\ \E q \in FreePid, mark \in {procs[p].mark, NoMark} :
       /\ procs' = [procs EXCEPT ![q] = Process(procs[p].tree, mark, p)]
       /\ used' = IF q > used THEN q ELSE used
  /\ UNCHANGED <<spawned, sweep, h, client, attaches, strayed>>

\* A process ends: by itself, well or badly, or by a SIGTERM or a SIGHUP it
\* does not ignore.
Exit(p) ==
  /\ Live(p) /\ procs[p].tree \in Session
  /\ \E status \in IF \E s \in Session : h[s].pid = p THEN {"ok", "failed", "hup"} ELSE {"ok"} :
       /\ procs' \in EndAll(procs, {p}, status)
       /\ h' = Fates({p}, status)
  /\ UNCHANGED <<spawned, sweep, client, used, attaches, strayed>>

\* os/exec kills the head of a session whose context was cancelled.
KillHead(s) ==
  /\ h[s].cancelled
  /\ \E p \in Tree(s) :
       /\ p = h[s].pid
       /\ procs' \in EndAll(procs, {p}, "killed")
       /\ h' = Fates({p}, "killed")
  /\ UNCHANGED <<spawned, sweep, client, used, attaches, strayed>>

-----------------------------------------------------------------------------
(* Starting.                                                               *)

Starting(s) == h[s].monitor = "starting"
MuFree(s) == ~Starting(s)
\* (The mutant locks the registration only.)
MutSpawnLockFree == TRUE
SpawnLockFree == \A s \in Session : ~Starting(s)

\* What os/exec makes of a repeated variable is its last value; both sources of
\* the environment are stripped of the key before the session's own is put first.
stripReapMarker(env) == <<>>
\* (The mutant strips neither.)
MutChildEnv(s) == <<s>> \o Inherited \o Configured
childEnv(s) == <<s>> \o stripReapMarker(Inherited) \o stripReapMarker(Configured)

\* ensureStarted up to the fork, with a cgroup if beginContainment made one.
\* A spawn that fails leaves nothing behind.
Start(s) ==
  /\ ~h[s].started /\ MuFree(s)
  /\ ~h[s].closing \/ "lateStart" \in Mishaps
  /\ SpawnLockFree
  /\ \E p \in FreePid, contain \in {"nil", "made"} :
       /\ procs' = [procs EXCEPT ![p] = Process(s, Last(childEnv(s)), Server)]
       /\ used' = IF p > used THEN p ELSE used
       /\ h' = [h EXCEPT ![s].pid = p, ![s].contain = contain,
                         ![s].monitor = "starting", ![s].fate = "nil"]
  /\ UNCHANGED <<spawned, sweep, client, attaches, strayed>>

\* startSessionPTY registers the pid, and ensureStarted starts the goroutines.
Registered(s) ==
  /\ Starting(s)
  /\ spawned' = spawned \cup {h[s].pid}
  /\ h' = [h EXCEPT ![s].started = TRUE, ![s].pty = "open", ![s].done = "armed",
                    ![s].loops = TRUE, ![s].monitor = "wait"]
  /\ UNCHANGED <<procs, sweep, client, used, attaches, strayed>>

-----------------------------------------------------------------------------
(* Ending it from outside: Close, and Shutdown, which is Close and a wait   *)
(* for h.done.                                                             *)

Closed(hs) ==
  [hs EXCEPT !.closing = TRUE,
             !.cancelled = @ \/ hs.started,
             !.pty = IF @ = "open" THEN "closed" ELSE @]

Close(s) ==
  /\ MuFree(s) /\ ~h[s].closing
  /\ h' = [h EXCEPT ![s] = Closed(@)]
  /\ UNCHANGED <<procs, spawned, sweep, client, used, attaches, strayed>>

-----------------------------------------------------------------------------
(* The process monitor.                                                    *)

At(s, pc)       == h[s].monitor = pc
To(s, pc)       == h' = [h EXCEPT ![s].monitor = pc]
ToWith(s, pc, t) == h' = [h EXCEPT ![s].monitor = pc, ![s].members = t]
OnlyHandler == UNCHANGED <<procs, spawned, sweep, client, used, attaches, strayed>>

\* cmd.Wait returns the head's status, or fails when someone else has taken it.
CmdWait(s) ==
  LET p == h[s].pid IN
  /\ At(s, "wait")
  /\ \/ /\ procs[p].state = "zombie" /\ procs[p].parent = Server
        /\ procs' = [procs EXCEPT ![p] = NoProcess]
        /\ h' = [h EXCEPT ![s].werr = procs[p].status, ![s].monitor = "forget"]
     \/ /\ procs[p].state = "free"
        /\ h' = [h EXCEPT ![s].werr = "lost", ![s].monitor = "forget"]
        /\ UNCHANGED procs
  /\ UNCHANGED <<spawned, sweep, client, used, attaches, strayed>>

spawnForget(s) ==
  /\ At(s, "forget") /\ SpawnLockFree
  /\ spawned' = spawned \ {h[s].pid}
  /\ To(s, "keep")
  /\ UNCHANGED <<procs, sweep, client, used, attaches, strayed>>

setExitError(s) ==
  /\ At(s, "keep") /\ MuFree(s)
  /\ h' = [h EXCEPT ![s].exitErr = h[s].werr,
                    ![s].monitor = IF h[s].contain = "nil" THEN "exit" ELSE "cgroup"]
  /\ OnlyHandler

\* sessionCgroup.teardown: the tree drains by itself, or after a SIGTERM, or
\* cgroup.kill ends what is left of it, children forked meanwhile included.
Contained(s) == {p \in Pid : Live(p) /\ procs[p].tree = s}
CgroupDrained(s) ==
  /\ At(s, "cgroup") /\ Contained(s) = {}
  /\ h' = [h EXCEPT ![s].contain = "removed", ![s].monitor = "exit"]
  /\ OnlyHandler
CgroupTerm(s) ==
  /\ At(s, "cgroup") /\ Contained(s) # {}
  /\ To(s, "cgroupKill")
  /\ OnlyHandler
CgroupKill(s) ==
  /\ At(s, "cgroupKill")
  /\ procs' \in EndAll(procs, Contained(s), "killed")
  /\ h' = [h EXCEPT ![s].contain = "removed", ![s].monitor = "exit"]
  /\ UNCHANGED <<spawned, sweep, client, used, attaches, strayed>>

\* onProcessExit returns or panics; the deferred block runs either way.  (In the
\* mutant it is not deferred.)
MutOnProcessExit(outcome) == IF outcome = "returned" THEN "close" ELSE "gone"
OnProcessExit(outcome) == IF outcome \in {"returned", "panicked"} THEN "close" ELSE "gone"
Callback(s) ==
  /\ At(s, "exit")
  /\ \E outcome \in {"returned", "panicked"} : To(s, OnProcessExit(outcome))
  /\ OnlyHandler

\* procExitCh is closed and the loops' context cancelled.
AnnounceExit(s) ==
  /\ At(s, "close")
  /\ h' = [h EXCEPT ![s].exited = TRUE, ![s].cancelled = TRUE, ![s].monitor = "ptmx"]
  /\ OnlyHandler
ClosePTY(s) ==
  /\ At(s, "ptmx") /\ MuFree(s)
  /\ h' = [h EXCEPT ![s].pty = "closed", ![s].monitor = "scan"]
  /\ OnlyHandler

\* sessionReap.teardown.  reapFindByMarker sees the live processes whose
\* environment holds the session's marker.
\* (The mutant looks for the variable, whatever its value.)
MutEnvHasMarker(p, s) == procs[p].mark # NoMark
envHasMarker(p, s) == procs[p].mark = s
Marked(s) == {p \in Pid : Live(p) /\ envHasMarker(p, s)}
Remaining(s) == h[s].members \cap Marked(s)

ReapScan(s) ==
  /\ At(s, "scan")
  /\ ToWith(s, IF Marked(s) = {} THEN "ended" ELSE "settle", Marked(s))
  /\ OnlyHandler
\* The listed processes are gone within the grace: look once more.
ReapSettled(s) ==
  /\ At(s, "settle") /\ Remaining(s) = {}
  /\ ToWith(s, IF Marked(s) = {} THEN "ended" ELSE "term", Marked(s))
  /\ OnlyHandler
ReapUnsettled(s) ==
  /\ At(s, "settle") /\ Remaining(s) # {}
  /\ To(s, "term")
  /\ OnlyHandler

\* Signals go to the pids listed, whoever has them by now; a SIGTERM may be
\* ignored, so only Exit ends a process by it.
Strays(s) == \E p \in h[s].members : procs[p].state # "free" /\ procs[p].tree # s
ReapTerm(s) ==
  /\ At(s, "term")
  /\ strayed' = (strayed \/ Strays(s))
  /\ To(s, "settled")
  /\ UNCHANGED <<procs, spawned, sweep, client, used, attaches>>
ReapGone(s) ==
  /\ At(s, "settled") /\ Remaining(s) = {}
  /\ To(s, "ended")
  /\ OnlyHandler
ReapStubborn(s) ==
  /\ At(s, "settled") /\ Remaining(s) # {}
  /\ ToWith(s, "kill", Marked(s))
  /\ OnlyHandler
ReapKill(s) ==
  /\ At(s, "kill")
  /\ strayed' = (strayed \/ Strays(s))
  /\ procs' \in EndAll(procs, h[s].members, "killed")
  /\ h' = [Fates(h[s].members, "killed") EXCEPT ![s].monitor = "ended"]
  /\ UNCHANGED <<spawned, sweep, client, used, attaches>>

\* The read and the flush loop end with the context; then h.wg is done, and its
\* waiter closes h.done.
LoopsEnd(s) ==
  /\ h[s].loops /\ h[s].cancelled
  /\ h' = [h EXCEPT ![s].loops = FALSE]
  /\ OnlyHandler
DoneCloses(s) ==
  /\ h[s].done = "armed" /\ ~h[s].loops /\ At(s, "ended")
  /\ h' = [h EXCEPT ![s].done = "closed"]
  /\ OnlyHandler

-----------------------------------------------------------------------------
(* The zombie sweep.                                                       *)

\* findOrphanZombies: exited children of the server, heads among them.
FindOrphans ==
  /\ sweep = {}
  /\ sweep' = {p \in Pid : procs[p].state = "zombie" /\ procs[p].parent = Server}
  /\ sweep' # {}
  /\ UNCHANGED <<procs, spawned, h, client, used, attaches, strayed>>

\* reapIfUnowned, under the spawn lock.
ReapIfUnowned ==
  /\ SpawnLockFree
  /\ \E p \in sweep :
       /\ sweep' = sweep \ {p}
       /\ procs' = IF p \notin spawned /\ procs[p].state = "zombie"
                      /\ procs[p].parent = Server
                   THEN [procs EXCEPT ![p] = NoProcess] ELSE procs
  /\ UNCHANGED <<spawned, h, client, used, attaches, strayed>>

-----------------------------------------------------------------------------
(* The sockets: handleWS and closeOnProcExit.                              *)

Exited(s) == h[s].exited
OnlyClient == UNCHANGED <<procs, spawned, sweep, h, used, strayed>>

Attach(s) ==
  /\ client[s].state \in {"out", "closed"} /\ attaches < MaxAttaches
  /\ client' = [client EXCEPT ![s] = [NoClient EXCEPT !.state = "open"]]
  /\ attaches' = attaches + 1
  /\ OnlyClient

\* closeOnProcExit's first read; only a client that finds the process gone is
\* given the time to resume.
ReadExited(s) ==
  /\ client[s].state = "open" /\ client[s].late = "unread"
  /\ client' = [client EXCEPT ![s].late = IF Exited(s) THEN "yes" ELSE "no"]
  /\ OnlyClient /\ UNCHANGED attaches

\* The first resume's batch is written, and the screen with it.
ResumeServed(s) ==
  /\ client[s].state = "open" /\ ~client[s].served
  /\ client' = [client EXCEPT ![s].served = TRUE]
  /\ OnlyClient /\ UNCHANGED attaches

\* exitedAttachReplayGrace has passed.
GraceExpires(s) ==
  /\ client[s].state = "open" /\ client[s].late = "yes"
  /\ client' = [client EXCEPT ![s].late = "expired"]
  /\ OnlyClient /\ UNCHANGED attaches

\* (The mutant waits for the resume alone.)
MutCloseOnProcExit(s) ==
  /\ client[s].state = "open" /\ Exited(s)
  /\ client[s].late = "no" \/ (client[s].late = "yes" /\ client[s].served)
  /\ client' = [client EXCEPT ![s].state = "closed"]
  /\ OnlyClient /\ UNCHANGED attaches
CloseOnProcExit(s) ==
  /\ client[s].state = "open" /\ Exited(s)
  /\ client[s].late \in {"no", "expired"} \/ (client[s].late = "yes" /\ client[s].served)
  /\ client' = [client EXCEPT ![s].state = "closed"]
  /\ OnlyClient /\ UNCHANGED attaches

\* The client leaves, or its socket is lost.
Leave(s) ==
  /\ client[s].state = "open"
  /\ client' = [client EXCEPT ![s].state = "closed"]
  /\ OnlyClient /\ UNCHANGED attaches

-----------------------------------------------------------------------------
MonitorStep(s) ==
  \/ CmdWait(s) \/ spawnForget(s) \/ setExitError(s)
  \/ CgroupDrained(s) \/ CgroupTerm(s) \/ CgroupKill(s)
  \/ Callback(s) \/ AnnounceExit(s) \/ ClosePTY(s)
  \/ ReapScan(s) \/ ReapSettled(s) \/ ReapUnsettled(s) \/ ReapTerm(s)
  \/ ReapGone(s) \/ ReapStubborn(s) \/ ReapKill(s)

Next ==
  \/ \E p \in Pid : Fork(p) \/ Exit(p)
  \/ FindOrphans \/ ReapIfUnowned
  \/ \E s \in Session :
       \/ Start(s) \/ Registered(s) \/ KillHead(s)
       \/ Close(s)
       \/ MonitorStep(s) \/ LoopsEnd(s) \/ DoneCloses(s)
       \/ Attach(s) \/ ReadExited(s) \/ ResumeServed(s) \/ GraceExpires(s)
       \/ CloseOnProcExit(s) \/ Leave(s)
Spec == Init /\ [][Next]_vars

\* Goroutines that can go on do, and what is killed dies; nobody else needs to
\* do anything: processes may run for ever and clients stay.
Fairness ==
  /\ WF_vars(FindOrphans) /\ WF_vars(ReapIfUnowned)
  /\ \A s \in Session :
       /\ WF_vars(Registered(s)) /\ WF_vars(KillHead(s))
       /\ WF_vars(MonitorStep(s)) /\ WF_vars(LoopsEnd(s)) /\ WF_vars(DoneCloses(s))
       /\ WF_vars(ReadExited(s)) /\ WF_vars(GraceExpires(s)) /\ WF_vars(CloseOnProcExit(s))
FairSpec == Spec /\ Fairness

-----------------------------------------------------------------------------
(* Correctness.                                                            *)

\* crashedExit: a server that asked for the end outranks the status.
Crashed(s) == h[s].exited /\ h[s].exitErr \in {"failed", "killed"} /\ ~h[s].closing

\* What a session reports of its end is what its head died of: the zombie sweep
\* never takes a head's status before cmd.Wait, however their steps interleave
\* with forks; the error is final before Exited is true; and a head the server
\* killed is never reported as a crash.
ExitKnown ==
  \A s \in Session :
    /\ h[s].werr # "lost"
    /\ h[s].exited => h[s].exitErr = h[s].fate
    /\ Crashed(s) => h[s].fate = "failed"

\* When h.done closes nothing of the session runs: no loop and no process but
\* those that scrubbed their environment where no cgroup held them (reap.go:
\* 31-41): what a Shutdown that returned nil promises.
Escaped(s) == {p \in Tree(s) : procs[p].mark = NoMark}
TreeGone ==
  \A s \in Session :
    h[s].done = "closed" =>
         /\ Tree(s) \subseteq (IF h[s].contain = "removed" THEN {} ELSE Escaped(s))
         /\ h[s].pty = "closed" /\ h[s].exited

\* No teardown signals a process of another session's tree.
OnlyOwnSignalled == ~strayed

\* A session that was told to end, or whose head has ended, is torn down to the
\* last step, even under a panicking callback and processes that ignore SIGTERM.
TeardownEnds ==
  \A s \in Session :
    (h[s].started /\ (h[s].closing \/ h[s].fate # "nil")) ~> (h[s].done = "closed")

\* Every socket of an ended session is closed, resumed or not.
ClientsTold ==
  \A s \in Session :
    (client[s].state = "open" /\ Exited(s)) ~> (client[s].state # "open")
=============================================================================
