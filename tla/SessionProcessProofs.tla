------------------------ MODULE SessionProcessProofs ------------------------
(***************************************************************************)
(* Proofs about SessionProcess, for any number of sessions, pids and       *)
(* sockets: the exit status a session reports is its head's own, nothing   *)
(* of its tree is left when it is done, and no teardown signals another    *)
(* session's processes.                                                    *)
(***************************************************************************)
EXTENDS SessionProcess, TLAPS

\* Hidden from the provers, which mix truth values and records badly.
Flag == BOOLEAN
Yes == TRUE
LEMMA Flags == TRUE \in Flag /\ FALSE \in Flag /\ Yes /\ Yes \in Flag
BY DEF Flag, Yes

Statuses == {"nil", "ok", "failed", "hup", "killed"}
Errors   == Statuses \cup {"lost"}
Owners   == Session \cup {Outer}
Entry ==
  [state : {"live", "zombie"}, tree : Owners, mark : Owners \cup {NoMark},
   parent : Nat, status : Statuses]
Monitors ==
  {"none", "starting", "wait", "forget", "keep", "cgroup", "cgroupKill", "exit", "close",
   "ptmx", "scan", "settle", "term", "settled", "kill", "ended"}
Handlers ==
  [started : Flag, pid : Nat, closing : Flag, cancelled : Flag,
   pty : {"none", "open", "closed"}, contain : {"nil", "made", "removed"},
   monitor : Monitors, members : SUBSET Pid, loops : Flag, werr : Errors, exitErr : Errors,
   exited : Flag, done : {"nil", "armed", "closed"}, fate : Statuses]
Table == [Pid -> {NoProcess} \cup Entry]
Typed ==
  /\ procs \in Table
  /\ h \in [Session -> Handlers]
  /\ used \in Pid
  /\ \A s \in Session : /\ h[s].monitor # "none" => h[s].pid \in Pid
                        /\ h[s].started <=> h[s].monitor \notin {"none", "starting"}

\* A process has its own session's mark or none.
Own(ps) == \A p \in Pid : ps[p].state # "free" => ps[p].mark \in {ps[p].tree, NoMark}

-----------------------------------------------------------------------------
(* The kernel.                                                             *)

LEMMA Entries ==
  /\ NoProcess.state = "free"
  /\ \A e \in {NoProcess} \cup Entry : e.state \in {"free", "live", "zombie"}
                                       /\ (e.state = "free" <=> e = NoProcess)
                                       /\ (e.state # "free" => e \in Entry)
BY DEF NoProcess, Entry

LEMMA ZombieIs ==
  ASSUME NEW e \in Entry, NEW status \in Statuses
  PROVE  /\ Zombie(e, status) \in Entry /\ Zombie(e, status).state = "zombie"
         /\ Zombie(e, status).tree = e.tree /\ Zombie(e, status).mark = NoMark
         /\ Zombie(e, status).parent = Server /\ Zombie(e, status).status = status
BY DEF Zombie, Entry, Server

LEMMA AdoptedIs ==
  ASSUME NEW e \in Entry, NEW u, u = [e EXCEPT !.parent = Server]
  PROVE  /\ u \in Entry /\ u.state = e.state /\ u.tree = e.tree /\ u.mark = e.mark
         /\ u.parent = Server /\ u.status = e.status
BY DEF Entry, Server

\* The ends of some processes, as one of them sees it and as another does.
Ended(ps, dying, status, qs) ==
  \A q \in Pid :
    /\ q \in dying /\ ps[q].state = "live" => qs[q] \in {NoProcess, Zombie(ps[q], status)}
    /\ q \in dying /\ ps[q].state = "live" /\ ps[q].parent = Server =>
         qs[q] = Zombie(ps[q], status)
    /\ ~(q \in dying /\ ps[q].state = "live") =>
         qs[q] \in {ps[q], [ps[q] EXCEPT !.parent = Server]}
    /\ qs[q].state = "free" <=> qs[q] = NoProcess
    /\ ps[q].state = "free" => qs[q] = NoProcess
    /\ qs[q].state = "live" => ps[q].state = "live" /\ q \notin dying
    /\ qs[q].state # "free" => /\ ps[q].state # "free" /\ qs[q].tree = ps[q].tree
                               /\ qs[q].mark \in {ps[q].mark, NoMark}

LEMMA EndAllIs ==
  ASSUME NEW ps \in Table, NEW dying \in SUBSET Pid, NEW status \in Statuses,
         NEW qs \in EndAll(ps, dying, status)
  PROVE  qs \in Table /\ Ended(ps, dying, status, qs)
<1> DEFINE gone   == {q \in dying : ps[q].state = "live"}
           nested == {q \in gone : ps[q].parent \in gone}
<1>1. PICK orphaned \in SUBSET nested :
        qs = [q \in Pid |->
               IF q \in gone
               THEN IF ps[q].parent = Server \/ q \in orphaned THEN Zombie(ps[q], status)
                    ELSE NoProcess
               ELSE IF ps[q].state # "free" /\ ps[q].parent \in gone
                    THEN [ps[q] EXCEPT !.parent = Server]
                    ELSE ps[q]]
  BY DEF EndAll
<1>2. ASSUME NEW q \in Pid
      PROVE  /\ ps[q].state \in {"free", "live", "zombie"}
             /\ ps[q].state = "free" <=> ps[q] = NoProcess
             /\ ps[q].state # "free" => ps[q] \in Entry
  <2>1. ps[q] \in {NoProcess} \cup Entry
    BY DEF Table
  <2> QED
    BY <2>1, Entries
<1>3. ASSUME NEW q \in Pid
      PROVE  /\ qs[q] \in {NoProcess} \cup Entry
             /\ q \in dying /\ ps[q].state = "live" => qs[q] \in {NoProcess, Zombie(ps[q], status)}
             /\ q \in dying /\ ps[q].state = "live" /\ ps[q].parent = Server =>
                  qs[q] = Zombie(ps[q], status)
             /\ ~(q \in dying /\ ps[q].state = "live") =>
                  qs[q] \in {ps[q], [ps[q] EXCEPT !.parent = Server]}
             /\ qs[q].state = "free" <=> qs[q] = NoProcess
             /\ ps[q].state = "free" => qs[q] = NoProcess
             /\ qs[q].state = "live" => ps[q].state = "live" /\ q \notin dying
             /\ qs[q].state # "free" => /\ ps[q].state # "free" /\ qs[q].tree = ps[q].tree
                                        /\ qs[q].mark \in {ps[q].mark, NoMark}
  <2>1. CASE q \in gone
    <3>1. ps[q] \in Entry /\ ps[q].state = "live" /\ q \in dying
      BY <1>2, <2>1
    <3>2. /\ qs[q] \in {NoProcess, Zombie(ps[q], status)}
          /\ ps[q].parent = Server => qs[q] = Zombie(ps[q], status)
      BY <1>1, <2>1
    <3> QED
      BY <3>1, <3>2, ZombieIs, Entries
  <2>2. CASE q \notin gone /\ ps[q].state # "free" /\ ps[q].parent \in gone
    <3>1. qs[q] = [ps[q] EXCEPT !.parent = Server]
      BY <1>1, <2>2
    <3>2. ps[q] \in Entry /\ ~(q \in dying /\ ps[q].state = "live")
      BY <1>2, <2>2
    <3> QED
      BY <2>2, <3>1, <3>2, AdoptedIs, Entries
  <2>3. CASE q \notin gone /\ ~(ps[q].state # "free" /\ ps[q].parent \in gone)
    <3>1. qs[q] = ps[q]
      BY <1>1, <2>3
    <3>2. ~(q \in dying /\ ps[q].state = "live") /\ ps[q] \in {NoProcess} \cup Entry
      BY <2>3 DEF Table
    <3> QED
      BY <1>2, <3>1, <3>2
  <2> QED
    BY <2>1, <2>2, <2>3
<1>4. qs \in Table
  BY <1>1, <1>3 DEF Table
<1> QED
  BY <1>3, <1>4 DEF Ended

LEMMA ProcessIs ==
  ASSUME NEW tree \in Owners, NEW mark \in Owners \cup {NoMark}, NEW parent \in Nat, NEW e,
         e = Process(tree, mark, parent)
  PROVE  /\ e \in Entry /\ e.state = "live" /\ e.tree = tree /\ e.mark = mark
         /\ e.parent = parent /\ e.status = "nil"
BY DEF Process, Entry, Statuses

\* What os/exec makes of a child's environment is the session's own mark.
LEMMA OwnMark == \A s : Last(childEnv(s)) = s
BY DEF Last, childEnv, stripReapMarker

-----------------------------------------------------------------------------
(* The kinds of steps.                                                     *)

\* A step of one handler that touches no process.
HandlerSteps(s) ==
  \/ Close(s) \/ setExitError(s) \/ CgroupDrained(s) \/ CgroupTerm(s)
  \/ Callback(s) \/ AnnounceExit(s) \/ ClosePTY(s)
  \/ ReapScan(s) \/ ReapSettled(s) \/ ReapUnsettled(s) \/ ReapGone(s) \/ ReapStubborn(s)
  \/ LoopsEnd(s) \/ DoneCloses(s)

LEMMA HandlerStepIs ==
  ASSUME Typed, NEW s \in Session, HandlerSteps(s)
  PROVE  /\ UNCHANGED <<procs, used, spawned, strayed>>
         /\ h' \in [Session -> Handlers]
         /\ \A r \in Session : r # s => h'[r] = h[r]
         /\ h'[s].pid = h[s].pid /\ h'[s].fate = h[s].fate /\ h'[s].werr = h[s].werr
         /\ h'[s].started = h[s].started
         /\ \/ h'[s].monitor = h[s].monitor
            \/ /\ h[s].monitor \notin {"none", "starting", "wait", "forget"}
               /\ h'[s].monitor \notin {"none", "starting", "wait", "forget", "keep"}
<1>0. h \in [Session -> Handlers] /\ h[s] \in Handlers
  BY DEF Typed
<1>1. CASE Close(s)
  BY <1>0, <1>1, Flags DEF Close, Closed, Handlers
<1>2. CASE setExitError(s)
  BY <1>0, <1>2 DEF setExitError, At, OnlyHandler, Handlers, Monitors
<1>3. CASE CgroupDrained(s)
  BY <1>0, <1>3 DEF CgroupDrained, At, OnlyHandler, Handlers, Monitors
<1>4. CASE CgroupTerm(s)
  BY <1>0, <1>4 DEF CgroupTerm, To, At, OnlyHandler, Handlers, Monitors
<1>5. CASE Callback(s)
  BY <1>0, <1>5 DEF Callback, OnProcessExit, To, At, OnlyHandler, Handlers, Monitors
<1>6. CASE AnnounceExit(s)
  BY <1>0, <1>6, Flags DEF AnnounceExit, At, OnlyHandler, Handlers, Monitors
<1>7. CASE ClosePTY(s)
  BY <1>0, <1>7 DEF ClosePTY, At, OnlyHandler, Handlers, Monitors
<1>8. Marked(s) \in SUBSET Pid
  BY DEF Marked
<1>9. CASE ReapScan(s)
  BY <1>0, <1>8, <1>9 DEF ReapScan, ToWith, At, OnlyHandler, Handlers, Monitors
<1>10. CASE ReapSettled(s)
  BY <1>0, <1>8, <1>10 DEF ReapSettled, ToWith, At, OnlyHandler, Handlers, Monitors
<1>11. CASE ReapUnsettled(s)
  BY <1>0, <1>11 DEF ReapUnsettled, To, At, OnlyHandler, Handlers, Monitors
<1>12. CASE ReapGone(s)
  BY <1>0, <1>12 DEF ReapGone, To, At, OnlyHandler, Handlers, Monitors
<1>13. CASE ReapStubborn(s)
  BY <1>0, <1>8, <1>13 DEF ReapStubborn, ToWith, At, OnlyHandler, Handlers, Monitors
<1>14. CASE LoopsEnd(s)
  BY <1>0, <1>14, Flags DEF LoopsEnd, At, OnlyHandler, Handlers
<1>15. CASE DoneCloses(s)
  BY <1>0, <1>15 DEF DoneCloses, At, OnlyHandler, Handlers
<1> QED
  BY <1>1, <1>2, <1>3, <1>4, <1>5, <1>6, <1>7, <1>9, <1>10, <1>11, <1>12, <1>13, <1>14,
     <1>15 DEF HandlerSteps

\* A step that leaves the processes' and the handlers' records alone.
OtherSteps ==
  \/ FindOrphans
  \/ \E s \in Session : \/ Attach(s) \/ ReadExited(s) \/ ResumeServed(s) \/ GraceExpires(s)
                        \/ CloseOnProcExit(s) \/ Leave(s)
LEMMA OtherStepIs ==
  OtherSteps \/ UNCHANGED vars => UNCHANGED <<procs, h, used, spawned, strayed>>
BY DEF OtherSteps, FindOrphans, Attach, ReadExited, ResumeServed, GraceExpires,
       CloseOnProcExit, Leave, OnlyClient, vars

LEMMA Steps ==
  ASSUME [Next]_vars
  PROVE  \/ OtherSteps \/ UNCHANGED vars
         \/ ReapIfUnowned
         \/ \E p \in Pid : Fork(p) \/ Exit(p)
         \/ \E s \in Session : \/ HandlerSteps(s)
                               \/ Start(s) \/ Registered(s) \/ KillHead(s)
                               \/ CmdWait(s) \/ spawnForget(s) \/ CgroupKill(s)
                               \/ ReapTerm(s) \/ ReapKill(s)
BY DEF Next, MonitorStep, OtherSteps, HandlerSteps

LEMMA FreePids ==
  ASSUME used \in Pid, NEW q \in FreePid
  PROVE  /\ q \in Pid
         /\ q > used \/ procs[q].state = "free"
         /\ "recycledPid" \notin Mishaps => q = used + 1
BY ProcessAssumption DEF FreePid, FreshPid, Pid

LEMMA FatesAre ==
  ASSUME h \in [Session -> Handlers], NEW dying, NEW status \in Statuses,
         NEW g, g = Fates(dying, status)
  PROVE  /\ g \in [Session -> Handlers]
         /\ \A s \in Session : ~(h[s].pid \in dying /\ h[s].fate = "nil") => g[s] = h[s]
         /\ \A s \in Session :
              (h[s].pid \in dying /\ h[s].fate = "nil") => g[s] = [h[s] EXCEPT !.fate = status]
BY DEF Fates, Handlers

Born(q, e) ==
  /\ procs' = [procs EXCEPT ![q] = e]
  /\ used' = IF q > used THEN q ELSE used

LEMMA BornIs ==
  ASSUME Typed, NEW q \in FreePid, NEW e \in Entry, Born(q, e)
  PROVE  /\ procs' \in Table /\ used' \in Pid /\ procs'[q] = e
         /\ \A r \in Pid : r # q => procs'[r] = procs[r]
<1>1. used \in Pid /\ procs \in Table
  BY DEF Typed
<1>2. q \in Pid
  BY <1>1, FreePids
<1> QED
  BY <1>1, <1>2 DEF Born, Table

LEMMA ForkIs ==
  ASSUME Typed, NEW p \in Pid, Fork(p)
  PROVE  /\ UNCHANGED <<h, spawned, strayed>>
         /\ Live(p) /\ procs[p] \in Entry /\ procs[p].tree \in Session
         /\ \E q \in FreePid, e \in Entry :
              /\ Born(q, e) /\ e.state = "live"
              /\ e.tree = procs[p].tree /\ e.mark \in {procs[p].mark, NoMark}
<1>1. Live(p) /\ procs[p].tree \in Session /\ UNCHANGED <<h, spawned, strayed>>
  BY DEF Fork
<1>2. procs[p] \in Entry
  BY <1>1, Entries DEF Typed, Table, Live
<1>3. PICK q \in FreePid, mark \in {procs[p].mark, NoMark} :
        Born(q, Process(procs[p].tree, mark, p))
  BY DEF Fork, Born
<1>4. mark \in Owners \cup {NoMark} /\ p \in Nat /\ procs[p].tree \in Owners
  BY <1>1, <1>2 DEF Entry, Pid, Owners
<1>5. LET e == Process(procs[p].tree, mark, p)
      IN e \in Entry /\ e.state = "live" /\ e.tree = procs[p].tree /\ e.mark = mark
  BY <1>4, ProcessIs
<1> QED
  BY <1>1, <1>2, <1>3, <1>5

\* What ends a process in a session, and what of it is noted.
LEMMA ExitIs ==
  ASSUME Typed, NEW p \in Pid, Exit(p)
  PROVE  /\ UNCHANGED <<used, spawned, strayed>> /\ Live(p)
         /\ \E status \in {"ok", "failed", "hup"} :
              procs' \in EndAll(procs, {p}, status) /\ h' = Fates({p}, status)
BY DEF Exit

LEMMA KillHeadIs ==
  ASSUME Typed, NEW s \in Session, KillHead(s)
  PROVE  /\ UNCHANGED <<used, spawned, strayed>>
         /\ h[s].cancelled /\ h[s].pid \in Pid /\ procs[h[s].pid].state = "live"
         /\ procs[h[s].pid].tree = s
         /\ procs' \in EndAll(procs, {h[s].pid}, "killed") /\ h' = Fates({h[s].pid}, "killed")
BY DEF KillHead, Tree, Live

Begun(x, q, contain) ==
  [x EXCEPT !.pid = q, !.contain = contain, !.monitor = "starting", !.fate = "nil"]
LEMMA BegunIs ==
  ASSUME NEW x \in Handlers, NEW q \in Nat, NEW contain \in {"nil", "made"}, NEW u,
         u = Begun(x, q, contain)
  PROVE  /\ u \in Handlers /\ u.pid = q /\ u.contain = contain
         /\ u.monitor = "starting" /\ u.fate = "nil"
         /\ u.started = x.started /\ u.members = x.members /\ u.werr = x.werr
         /\ u.exited = x.exited /\ u.cancelled = x.cancelled /\ u.closing = x.closing
         /\ u.done = x.done /\ u.pty = x.pty
<1>1. "starting" \in Monitors /\ "nil" \in Statuses /\ contain \in {"nil", "made", "removed"}
  BY DEF Monitors, Statuses
<1>2. u \in Handlers
  BY <1>1 DEF Begun, Handlers
<1>3. u.pid = q /\ u.contain = contain /\ u.monitor = "starting" /\ u.fate = "nil"
  BY DEF Begun, Handlers
<1>4. /\ u.members = x.members /\ u.werr = x.werr /\ u.done = x.done /\ u.pty = x.pty
      /\ u.started = x.started /\ u.exited = x.exited /\ u.cancelled = x.cancelled
      /\ u.closing = x.closing
  BY DEF Begun, Handlers
<1> QED
  BY <1>2, <1>3, <1>4

LEMMA StartIs ==
  ASSUME Typed, NEW s \in Session, Start(s)
  PROVE  /\ UNCHANGED <<spawned, strayed>>
         /\ ~h[s].started /\ h[s].monitor # "starting" /\ SpawnLockFree
         /\ \E q \in FreePid, e \in Entry, contain \in {"nil", "made"} :
              /\ Born(q, e) /\ e.state = "live" /\ e.tree = s /\ e.mark = s
              /\ e.parent = Server
              /\ h' = [h EXCEPT ![s] = Begun(@, q, contain)]
<1>1. /\ UNCHANGED <<spawned, strayed>> /\ ~h[s].started /\ h[s].monitor # "starting"
      /\ SpawnLockFree
  BY DEF Start, MuFree, Starting
<1>2. PICK q \in FreePid, contain \in {"nil", "made"} :
        /\ Born(q, Process(s, s, Server))
        /\ h' = [h EXCEPT ![s].pid = q, ![s].contain = contain,
                          ![s].monitor = "starting", ![s].fate = "nil"]
  <2>1. Last(childEnv(s)) = s
    BY OwnMark
  <2>2. PICK p \in FreePid, contain \in {"nil", "made"} :
       /\ procs' = [procs EXCEPT ![p] = Process(s, Last(childEnv(s)), Server)]
       /\ used' = IF p > used THEN p ELSE used
       /\ h' = [h EXCEPT ![s].pid = p, ![s].contain = contain,
                         ![s].monitor = "starting", ![s].fate = "nil"]
    BY Zenon DEF Start
  <2>3. Born(p, Process(s, s, Server))
    BY <2>1, <2>2 DEF Born
  <2> QED
    BY <2>2, <2>3, Zenon
<1>5. h' = [h EXCEPT ![s] = Begun(@, q, contain)]
  <2>1. h = [r \in Session |-> h[r]]
    BY DEF Typed
  <2>2. [h EXCEPT ![s].pid = q, ![s].contain = contain, ![s].monitor = "starting",
                  ![s].fate = "nil"]
          = [r \in Session |-> IF r = s THEN Begun(h[s], q, contain) ELSE h[r]]
    BY <2>1, Zenon DEF Begun
  <2>3. [h EXCEPT ![s] = Begun(@, q, contain)]
          = [r \in Session |-> IF r = s THEN Begun(h[s], q, contain) ELSE h[r]]
    BY <2>1, Zenon
  <2> QED
    BY <1>2, <2>2, <2>3
<1>3. s \in Owners /\ s \in Owners \cup {NoMark} /\ Server \in Nat
  BY DEF Owners, Server
<1>4. LET e == Process(s, s, Server)
      IN e \in Entry /\ e.state = "live" /\ e.tree = s /\ e.mark = s /\ e.parent = Server
  BY <1>3, ProcessIs
<1> QED
  BY <1>1, <1>2, <1>4, <1>5

Reaped(q) == procs' = [procs EXCEPT ![q] = NoProcess]
LEMMA ReapedIs ==
  ASSUME Typed, NEW q \in Pid, Reaped(q)
  PROVE  /\ procs' \in Table /\ procs'[q] = NoProcess
         /\ \A r \in Pid : r # q => procs'[r] = procs[r]
BY DEF Typed, Table, Reaped

LEMMA ReapIfUnownedIs ==
  ASSUME Typed, ReapIfUnowned
  PROVE  /\ UNCHANGED <<spawned, h, used, strayed>> /\ SpawnLockFree
         /\ \/ UNCHANGED procs
            \/ \E p \in Pid : p \notin spawned /\ Reaped(p)
<1>1. UNCHANGED <<spawned, h, used, strayed>> /\ SpawnLockFree
  BY DEF ReapIfUnowned
<1>2. PICK p \in sweep : UNCHANGED procs \/ (p \notin spawned /\ Reaped(p))
  BY DEF ReapIfUnowned, Reaped
<1>3. CASE p \in Pid
  BY <1>1, <1>2, <1>3
<1>4. CASE p \notin Pid
  <2>1. [procs EXCEPT ![p] = NoProcess] = procs
    BY <1>4 DEF Typed, Table
  <2> QED
    BY <1>1, <1>2, <2>1 DEF Reaped
<1> QED
  BY <1>3, <1>4

\* The other steps of a handler.
LEMMA RegisteredIs ==
  ASSUME Typed, NEW s \in Session, Registered(s)
  PROVE  /\ UNCHANGED <<procs, used, strayed>> /\ spawned' = spawned \cup {h[s].pid}
         /\ h[s].monitor = "starting" /\ h' \in [Session -> Handlers]
         /\ h' = [h EXCEPT ![s].started = Yes, ![s].pty = "open", ![s].done = "armed",
                           ![s].loops = Yes, ![s].monitor = "wait"]
<1>1. h \in [Session -> Handlers] /\ h[s] \in Handlers
  BY DEF Typed
<1>2. h' = [h EXCEPT ![s].started = Yes, ![s].pty = "open", ![s].done = "armed",
                     ![s].loops = Yes, ![s].monitor = "wait"]
  BY DEF Registered, Yes
<1>3. h' \in [Session -> Handlers]
  BY <1>1, <1>2, Flags DEF Handlers, Monitors
<1> QED
  BY <1>2, <1>3 DEF Registered, Starting

LEMMA CmdWaitIs ==
  ASSUME Typed, NEW s \in Session, CmdWait(s)
  PROVE  /\ UNCHANGED <<used, spawned, strayed>> /\ h' \in [Session -> Handlers]
         /\ h[s].monitor = "wait" /\ h[s].pid \in Pid
         /\ \/ /\ procs[h[s].pid].state = "zombie" /\ Reaped(h[s].pid)
               /\ h' = [h EXCEPT ![s].werr = procs[h[s].pid].status, ![s].monitor = "forget"]
            \/ /\ procs[h[s].pid].state = "free" /\ UNCHANGED procs
               /\ h' = [h EXCEPT ![s].werr = "lost", ![s].monitor = "forget"]
<1>0. /\ h \in [Session -> Handlers] /\ h[s] \in Handlers
      /\ h[s].monitor = "wait" /\ h[s].pid \in Pid /\ UNCHANGED <<used, spawned, strayed>>
  BY DEF Typed, CmdWait, At
<1> DEFINE p == h[s].pid
<1>1. \/ /\ procs[p].state = "zombie" /\ Reaped(p)
         /\ h' = [h EXCEPT ![s].werr = procs[p].status, ![s].monitor = "forget"]
      \/ /\ procs[p].state = "free" /\ UNCHANGED procs
         /\ h' = [h EXCEPT ![s].werr = "lost", ![s].monitor = "forget"]
  BY DEF CmdWait, Reaped
<1>2. p \in Pid
  BY <1>0
<1> HIDE DEF p
<1>3. procs[p].state = "zombie" => procs[p].status \in Errors
  <2>1. procs[p] \in {NoProcess} \cup Entry
    BY <1>2 DEF Typed, Table
  <2> QED
    BY <2>1, Entries DEF Entry, Errors
<1>4. h' \in [Session -> Handlers]
  <2>1. "lost" \in Errors
    BY DEF Errors
  <2> QED
    BY <1>0, <1>1, <1>3, <2>1 DEF Handlers, Monitors
<1> QED
  BY <1>0, <1>1, <1>4 DEF p

LEMMA ForgetIs ==
  ASSUME Typed, NEW s \in Session, spawnForget(s)
  PROVE  /\ UNCHANGED <<procs, used, strayed>> /\ spawned' = spawned \ {h[s].pid}
         /\ h[s].monitor = "forget" /\ h' \in [Session -> Handlers]
         /\ h' = [h EXCEPT ![s].monitor = "keep"]
<1>1. h \in [Session -> Handlers] /\ h[s] \in Handlers
  BY DEF Typed
<1> QED
  BY <1>1 DEF spawnForget, To, At, Handlers, Monitors

LEMMA CgroupKillIs ==
  ASSUME Typed, NEW s \in Session, CgroupKill(s)
  PROVE  /\ UNCHANGED <<used, spawned, strayed>>
         /\ h[s].monitor = "cgroupKill" /\ h' \in [Session -> Handlers]
         /\ procs' \in EndAll(procs, Tree(s), "killed")
         /\ h' = [h EXCEPT ![s].contain = "removed", ![s].monitor = "exit"]
<1>1. h \in [Session -> Handlers] /\ h[s] \in Handlers
  BY DEF Typed
<1>2. Contained(s) = Tree(s)
  BY DEF Contained, Tree
<1>3. h' = [h EXCEPT ![s].contain = "removed", ![s].monitor = "exit"]
  BY DEF CgroupKill
<1>4. h' \in [Session -> Handlers]
  BY <1>1, <1>3 DEF Handlers, Monitors
<1> QED
  BY <1>2, <1>3, <1>4 DEF CgroupKill, At

LEMMA ReapTermIs ==
  ASSUME Typed, NEW s \in Session, ReapTerm(s)
  PROVE  /\ UNCHANGED <<procs, used, spawned>> /\ strayed' = (strayed \/ Strays(s))
         /\ h[s].monitor = "term" /\ h' \in [Session -> Handlers]
         /\ h' = [h EXCEPT ![s].monitor = "settled"]
<1>1. h \in [Session -> Handlers] /\ h[s] \in Handlers
  BY DEF Typed
<1>2. h' = [h EXCEPT ![s].monitor = "settled"] /\ h[s].monitor = "term"
  BY DEF ReapTerm, To, At
<1>3. h' \in [Session -> Handlers]
  BY <1>1, <1>2 DEF Handlers, Monitors
<1> QED
  BY <1>2, <1>3 DEF ReapTerm

LEMMA ReapKillIs ==
  ASSUME Typed, NEW s \in Session, ReapKill(s)
  PROVE  /\ UNCHANGED <<used, spawned>> /\ strayed' = (strayed \/ Strays(s))
         /\ h[s].monitor = "kill" /\ h' \in [Session -> Handlers]
         /\ h[s].members \in SUBSET Pid
         /\ procs' \in EndAll(procs, h[s].members, "killed")
         /\ \E g \in [Session -> Handlers] :
              g = Fates(h[s].members, "killed") /\ h' = [g EXCEPT ![s].monitor = "ended"]
<1>1. h \in [Session -> Handlers] /\ h[s] \in Handlers
  BY DEF Typed
<1>2. PICK g : g = Fates(h[s].members, "killed")
  OBVIOUS
<1>3. g \in [Session -> Handlers]
  BY <1>1, <1>2, FatesAre DEF Statuses
<1>4. h' = [g EXCEPT ![s].monitor = "ended"] /\ h[s].monitor = "kill"
  BY <1>2 DEF ReapKill, At
<1>5. h' \in [Session -> Handlers]
  BY <1>3, <1>4 DEF Handlers, Monitors
<1>6. h[s].members \in SUBSET Pid
  BY <1>1 DEF Handlers
<1> QED
  BY <1>2, <1>3, <1>4, <1>5, <1>6 DEF ReapKill

-----------------------------------------------------------------------------
(* Types, and whose mark a process has.                                    *)

Base == Typed /\ Own(procs)

LEMMA BaseInit == Init => Base
<1> HAVE Init
<1>1. procs \in Table /\ Own(procs)
  <2>1. Outer \in Owners /\ Outer \in Owners \cup {NoMark} /\ Stranger \in Nat
    BY DEF Owners, Stranger
  <2>2. LET e == Process(Outer, Outer, Stranger)
        IN e \in Entry /\ e.state = "live" /\ e.tree = Outer /\ e.mark = Outer
    BY <2>1, ProcessIs
  <2> QED
    BY <2>2, Entries DEF Init, Table, Own
<1>2. h \in [Session -> Handlers]
  <2> DEFINE No == FALSE
             Hand(b) == [started |-> b, pid |-> 0, closing |-> b, cancelled |-> b,
               pty |-> "none", contain |-> "nil", monitor |-> "none", members |-> {},
               loops |-> b, werr |-> "nil", exitErr |-> "nil", exited |-> b,
               done |-> "nil", fate |-> "nil"]
  <2>1. \A b \in Flag : Hand(b) \in Handlers
    BY DEF Handlers, Monitors, Errors, Statuses
  <2>2. Handler0 = Hand(No) /\ No \in Flag
    BY Flags, Zenon DEF Handler0
  <2> HIDE DEF No, Hand
  <2> QED
    BY <2>1, <2>2 DEF Init
<1>3. used \in Pid
  BY ProcessAssumption DEF Init, Pid, Stranger
<1>4. \A s \in Session : ~h[s].started /\ h[s].monitor = "none"
  BY DEF Init, Handler0
<1> QED
  BY <1>1, <1>2, <1>3, <1>4 DEF Base, Typed

LEMMA BornOwn ==
  ASSUME Base, NEW q \in FreePid, NEW e \in Entry, Born(q, e), e.mark \in {e.tree, NoMark}
  PROVE  procs' \in Table /\ used' \in Pid /\ Own(procs')
<1>1. /\ procs' \in Table /\ used' \in Pid /\ procs'[q] = e
      /\ \A r \in Pid : r # q => procs'[r] = procs[r]
  BY BornIs DEF Base
<1> QED
  BY <1>1 DEF Base, Own

LEMMA EndedOwn ==
  ASSUME Base, NEW dying \in SUBSET Pid, NEW status \in Statuses,
         NEW qs \in EndAll(procs, dying, status)
  PROVE  qs \in Table /\ Own(qs)
<1>1. procs \in Table
  BY DEF Base, Typed
<1>2. qs \in Table /\ Ended(procs, dying, status, qs)
  BY <1>1, EndAllIs
<1> QED
  BY <1>2 DEF Base, Own, Ended

LEMMA ReapedOwn ==
  ASSUME Base, NEW q \in Pid, Reaped(q)
  PROVE  procs' \in Table /\ Own(procs')
<1>1. procs' \in Table /\ procs'[q] = NoProcess /\ \A r \in Pid : r # q => procs'[r] = procs[r]
  BY ReapedIs DEF Base
<1> QED
  BY <1>1, Entries DEF Base, Own

\* A handler's step that leaves its pid and whether it is started alone.
LEMMA PlacedStep ==
  ASSUME Typed, h' \in [Session -> Handlers], NEW s \in Session,
         \A r \in Session : r # s => h'[r].pid = h[r].pid /\ h'[r].monitor = h[r].monitor
                                     /\ h'[r].started = h[r].started,
         h'[s].pid = h[s].pid, h'[s].started = h[s].started,
         h'[s].monitor = h[s].monitor \/ {h[s].monitor, h'[s].monitor} \cap {"none", "starting"} = {},
         procs' \in Table, used' \in Pid
  PROVE  Typed'
BY DEF Typed

LEMMA FatesPlaced ==
  ASSUME Typed, NEW dying, NEW status \in Statuses, NEW g, g = Fates(dying, status)
  PROVE  /\ g \in [Session -> Handlers]
         /\ \A s \in Session :
              /\ g[s].fate = IF h[s].pid \in dying /\ h[s].fate = "nil" THEN status ELSE h[s].fate
              /\ g[s].pid = h[s].pid /\ g[s].monitor = h[s].monitor /\ g[s].started = h[s].started
              /\ g[s].closing = h[s].closing /\ g[s].cancelled = h[s].cancelled
              /\ g[s].pty = h[s].pty /\ g[s].contain = h[s].contain /\ g[s].members = h[s].members
              /\ g[s].werr = h[s].werr /\ g[s].exitErr = h[s].exitErr
              /\ g[s].exited = h[s].exited /\ g[s].done = h[s].done
<1>0. h \in [Session -> Handlers]
  BY DEF Typed
<1>1. /\ g \in [Session -> Handlers]
      /\ \A s \in Session : ~(h[s].pid \in dying /\ h[s].fate = "nil") => g[s] = h[s]
      /\ \A s \in Session :
           (h[s].pid \in dying /\ h[s].fate = "nil") => g[s] = [h[s] EXCEPT !.fate = status]
  BY <1>0, FatesAre
<1>2. ASSUME NEW s \in Session, g[s] = [h[s] EXCEPT !.fate = status]
      PROVE  /\ g[s].fate = status
             /\ g[s].pid = h[s].pid /\ g[s].monitor = h[s].monitor /\ g[s].started = h[s].started
             /\ g[s].closing = h[s].closing /\ g[s].cancelled = h[s].cancelled
             /\ g[s].pty = h[s].pty /\ g[s].contain = h[s].contain /\ g[s].members = h[s].members
             /\ g[s].werr = h[s].werr /\ g[s].exitErr = h[s].exitErr
             /\ g[s].exited = h[s].exited /\ g[s].done = h[s].done
  BY <1>0, <1>2 DEF Handlers
<1> QED
  BY <1>1, <1>2

LEMMA BaseNext == Base /\ [Next]_vars => Base'
<1> SUFFICES ASSUME Base, [Next]_vars PROVE Base'
  OBVIOUS
<1>0. Typed /\ procs \in Table /\ used \in Pid /\ Own(procs) /\ h \in [Session -> Handlers]
  BY DEF Base, Typed
<1>1. CASE OtherSteps \/ UNCHANGED vars
  <2>1. UNCHANGED <<procs, h, used>>
    BY <1>1, OtherStepIs
  <2> QED
    BY <1>0, <2>1 DEF Base, Typed, Own
<1>2. CASE ReapIfUnowned
  <2>1. UNCHANGED <<h, used>> /\ (UNCHANGED procs \/ \E p \in Pid : Reaped(p))
    BY <1>0, <1>2, ReapIfUnownedIs
  <2>2. procs' \in Table /\ Own(procs')
    BY <1>0, <2>1, ReapedOwn DEF Own
  <2> QED
    BY <1>0, <2>1, <2>2 DEF Base, Typed
<1>3. ASSUME NEW p \in Pid, Fork(p)
      PROVE  Base'
  <2>1. /\ UNCHANGED h
        /\ procs[p] \in Entry /\ procs[p].state # "free"
        /\ \E q \in FreePid, e \in Entry :
             /\ Born(q, e)
             /\ e.tree = procs[p].tree /\ e.mark \in {procs[p].mark, NoMark}
    BY <1>0, <1>3, ForkIs DEF Live
  <2>2. procs[p].mark \in {procs[p].tree, NoMark}
    BY <1>0, <2>1 DEF Own
  <2>3. procs' \in Table /\ used' \in Pid /\ Own(procs')
    BY <2>1, <2>2, BornOwn
  <2> QED
    BY <1>0, <2>1, <2>3 DEF Base, Typed
<1>4. ASSUME NEW dying \in SUBSET Pid, NEW status \in Statuses, UNCHANGED used,
             procs' \in EndAll(procs, dying, status), h' = Fates(dying, status)
      PROVE  Base'
  <2>1. procs' \in Table /\ Own(procs')
    BY <1>4, EndedOwn
  <2>2. /\ h' \in [Session -> Handlers]
        /\ \A s \in Session : /\ h'[s].pid = h[s].pid /\ h'[s].monitor = h[s].monitor
                              /\ h'[s].started = h[s].started
    BY <1>0, <1>4, FatesPlaced
  <2> QED
    BY <1>0, <1>4, <2>1, <2>2 DEF Base, Typed
<1>5. ASSUME NEW p \in Pid, Exit(p)
      PROVE  Base'
  <2>1. PICK status \in {"ok", "failed", "hup"} :
          UNCHANGED used /\ procs' \in EndAll(procs, {p}, status) /\ h' = Fates({p}, status)
    BY <1>0, <1>5, ExitIs
  <2>2. status \in Statuses /\ {p} \in SUBSET Pid
    BY DEF Statuses
  <2> QED
    BY <1>4, <2>1, <2>2
<1>6. ASSUME NEW s \in Session, KillHead(s)
      PROVE  Base'
  <2>1. /\ UNCHANGED used /\ h[s].pid \in Pid
        /\ procs' \in EndAll(procs, {h[s].pid}, "killed") /\ h' = Fates({h[s].pid}, "killed")
    BY <1>0, <1>6, KillHeadIs
  <2>2. "killed" \in Statuses /\ {h[s].pid} \in SUBSET Pid
    BY <2>1 DEF Statuses
  <2> QED
    BY <1>4, <2>1, <2>2
<1>7. ASSUME NEW s \in Session, HandlerSteps(s)
      PROVE  Base'
  <2>1. /\ UNCHANGED <<procs, used>> /\ h' \in [Session -> Handlers]
        /\ \A r \in Session : r # s => h'[r] = h[r]
        /\ h'[s].pid = h[s].pid /\ h'[s].started = h[s].started
        /\ \/ h'[s].monitor = h[s].monitor
           \/ {h[s].monitor, h'[s].monitor} \cap {"none", "starting"} = {}
    BY <1>0, <1>7, HandlerStepIs
  <2>2. Typed'
    BY <1>0, <2>1, PlacedStep
  <2> QED
    BY <1>0, <2>1, <2>2 DEF Base, Own
<1>8. ASSUME NEW s \in Session, Start(s)
      PROVE  Base'
  <2>0. /\ ~h[s].started
        /\ \E q \in FreePid, e \in Entry, contain \in {"nil", "made"} :
             /\ Born(q, e) /\ e.state = "live" /\ e.tree = s /\ e.mark = s
             /\ e.parent = Server
             /\ h' = [h EXCEPT ![s] = Begun(@, q, contain)]
    BY <1>0, <1>8, StartIs
  <2>1. PICK q \in FreePid, e \in Entry, contain \in {"nil", "made"} :
          /\ Born(q, e) /\ e.tree = s /\ e.mark = s
          /\ h' = [h EXCEPT ![s] = Begun(@, q, contain)]
    BY <2>0
  <2>2. procs' \in Table /\ used' \in Pid /\ Own(procs') /\ q \in Pid
    BY <1>0, <2>1, BornOwn, FreePids
  <2>3. q \in Nat /\ h[s] \in Handlers
    BY <1>0, <2>2 DEF Pid
  <2>4. /\ h' \in [Session -> Handlers] /\ h'[s].pid = q /\ h'[s].monitor = "starting"
        /\ h'[s].started = h[s].started
        /\ \A r \in Session : r # s => h'[r] = h[r]
    <3>1. h'[s] = Begun(h[s], q, contain) /\ \A r \in Session : r # s => h'[r] = h[r]
      BY <1>0, <2>1
    <3>2. /\ h'[s] \in Handlers /\ h'[s].pid = q /\ h'[s].monitor = "starting"
          /\ h'[s].started = h[s].started
      <4>1. PICK u : u = h'[s]
        OBVIOUS
      <4>2. u = Begun(h[s], q, contain) /\ h[s] \in Handlers /\ q \in Nat
        BY <2>3, <3>1, <4>1
      <4>3. u \in Handlers /\ u.pid = q /\ u.monitor = "starting" /\ u.started = h[s].started
        BY <4>2, BegunIs
      <4> QED
        BY <4>1, <4>3
    <3>3. h' \in [Session -> Handlers]
      BY <1>0, <2>1, <3>1, <3>2
    <3> QED
      BY <3>1, <3>2, <3>3
  <2>5. \A r \in Session : /\ h'[r].monitor # "none" => h'[r].pid \in Pid
                           /\ h'[r].started <=> h'[r].monitor \notin {"none", "starting"}
    BY <1>0, <2>0, <2>2, <2>4 DEF Typed
  <2> QED
    BY <2>2, <2>4, <2>5 DEF Base, Typed
<1>9. ASSUME NEW s \in Session, Registered(s)
      PROVE  Base'
  <2>1. /\ UNCHANGED <<procs, used>> /\ h[s].monitor = "starting"
        /\ h' \in [Session -> Handlers]
        /\ h' = [h EXCEPT ![s].started = Yes, ![s].pty = "open", ![s].done = "armed",
                          ![s].loops = Yes, ![s].monitor = "wait"]
    BY <1>0, <1>9, RegisteredIs
  <2>2. /\ h'[s].pid = h[s].pid /\ h'[s].monitor = "wait" /\ h'[s].started
        /\ \A r \in Session : r # s => h'[r] = h[r]
    <3>1. h[s] \in Handlers
      BY <1>0
    <3> QED
      BY <1>0, <2>1, <3>1, Flags DEF Handlers
  <2>3. \A r \in Session : /\ h'[r].monitor # "none" => h'[r].pid \in Pid
                           /\ h'[r].started <=> h'[r].monitor \notin {"none", "starting"}
    BY <1>0, <2>1, <2>2 DEF Typed
  <2> QED
    BY <1>0, <2>1, <2>3 DEF Base, Typed, Own
<1>10. ASSUME NEW s \in Session, CmdWait(s)
       PROVE  Base'
  <2>1. /\ UNCHANGED used /\ h' \in [Session -> Handlers] /\ h[s].monitor = "wait"
        /\ h[s].pid \in Pid /\ (UNCHANGED procs \/ Reaped(h[s].pid))
        /\ \E err : h' = [h EXCEPT ![s].werr = err, ![s].monitor = "forget"]
    BY <1>0, <1>10, CmdWaitIs
  <2>2. procs' \in Table /\ Own(procs')
    BY <1>0, <2>1, ReapedOwn DEF Own
  <2>3. /\ h'[s].pid = h[s].pid /\ h'[s].monitor = "forget" /\ h'[s].started = h[s].started
        /\ \A r \in Session : r # s => h'[r] = h[r]
    BY <1>0, <2>1 DEF Handlers
  <2> QED
    BY <1>0, <2>1, <2>2, <2>3, PlacedStep DEF Base
<1>11. ASSUME NEW s \in Session, spawnForget(s)
       PROVE  Base'
  <2>1. /\ UNCHANGED <<procs, used>> /\ h' \in [Session -> Handlers] /\ h[s].monitor = "forget"
        /\ h' = [h EXCEPT ![s].monitor = "keep"]
    BY <1>0, <1>11, ForgetIs
  <2>2. /\ h'[s].pid = h[s].pid /\ h'[s].monitor = "keep" /\ h'[s].started = h[s].started
        /\ \A r \in Session : r # s => h'[r] = h[r]
    BY <1>0, <2>1 DEF Handlers
  <2> QED
    BY <1>0, <2>1, <2>2, PlacedStep DEF Base, Own
<1>12. ASSUME NEW s \in Session, CgroupKill(s)
       PROVE  Base'
  <2>1. /\ UNCHANGED used /\ h' \in [Session -> Handlers] /\ h[s].monitor = "cgroupKill"
        /\ procs' \in EndAll(procs, Tree(s), "killed")
        /\ h' = [h EXCEPT ![s].contain = "removed", ![s].monitor = "exit"]
    BY <1>0, <1>12, CgroupKillIs
  <2>2. procs' \in Table /\ Own(procs')
    <3>1. Tree(s) \in SUBSET Pid /\ "killed" \in Statuses
      BY DEF Tree, Statuses
    <3> QED
      BY <2>1, <3>1, EndedOwn
  <2>3. /\ h'[s].pid = h[s].pid /\ h'[s].monitor = "exit" /\ h'[s].started = h[s].started
        /\ \A r \in Session : r # s => h'[r] = h[r]
    BY <1>0, <2>1 DEF Handlers
  <2> QED
    BY <1>0, <2>1, <2>2, <2>3, PlacedStep DEF Base
<1>13. ASSUME NEW s \in Session, ReapTerm(s)
       PROVE  Base'
  <2>1. /\ UNCHANGED <<procs, used>> /\ h' \in [Session -> Handlers] /\ h[s].monitor = "term"
        /\ h' = [h EXCEPT ![s].monitor = "settled"]
    BY <1>0, <1>13, ReapTermIs
  <2>2. /\ h'[s].pid = h[s].pid /\ h'[s].monitor = "settled" /\ h'[s].started = h[s].started
        /\ \A r \in Session : r # s => h'[r] = h[r]
    BY <1>0, <2>1 DEF Handlers
  <2> QED
    BY <1>0, <2>1, <2>2, PlacedStep DEF Base, Own
<1>14. ASSUME NEW s \in Session, ReapKill(s)
       PROVE  Base'
  <2>1. /\ UNCHANGED used /\ h' \in [Session -> Handlers] /\ h[s].monitor = "kill"
        /\ h[s].members \in SUBSET Pid /\ procs' \in EndAll(procs, h[s].members, "killed")
    BY <1>0, <1>14, ReapKillIs
  <2>2. PICK g \in [Session -> Handlers] :
          g = Fates(h[s].members, "killed") /\ h' = [g EXCEPT ![s].monitor = "ended"]
    BY <1>0, <1>14, ReapKillIs
  <2>3. "killed" \in Statuses
    BY DEF Statuses
  <2>4. procs' \in Table /\ Own(procs')
    BY <2>1, <2>3, EndedOwn
  <2>5. \A r \in Session : /\ g[r].pid = h[r].pid /\ g[r].monitor = h[r].monitor
                           /\ g[r].started = h[r].started
    BY <1>0, <2>2, <2>3, FatesPlaced
  <2>6. /\ h'[s].pid = g[s].pid /\ h'[s].monitor = "ended" /\ h'[s].started = g[s].started
        /\ \A r \in Session : r # s => h'[r] = g[r]
    BY <2>2 DEF Handlers
  <2>7. Typed'
    BY <1>0, <2>1, <2>4, <2>5, <2>6, PlacedStep
  <2> QED
    BY <2>4, <2>7 DEF Base
<1> QED
  BY <1>1, <1>2, <1>3, <1>5, <1>6, <1>7, <1>8, <1>9, <1>10, <1>11, <1>12, <1>13, <1>14, Steps

-----------------------------------------------------------------------------
(* What a head died of.                                                    *)

Early == {"none", "starting", "wait"}

Placed ==
  /\ \A p \in Pid : p > used => procs[p] = NoProcess
  /\ \A s \in Session :
       /\ h[s].monitor # "none" => h[s].pid <= used
       /\ h[s].monitor = "none" => h[s].pid = 0
       /\ h[s].monitor = "wait" => h[s].pid \in spawned
  /\ \A r, s \in Session : h[r].pid = h[s].pid /\ h[r].pid # 0 => r = s

\* A head is its own until cmd.Wait has its status, and then there is none.
HeadIs(s, x, e) ==
  /\ x.monitor \in {"starting", "wait"} =>
       /\ e.state # "free" /\ e.tree = s /\ e.parent = Server
       /\ e.state = "live" => x.fate = "nil"
       /\ e.state = "zombie" => x.fate = e.status /\ x.fate # "nil"
  /\ x.monitor \notin Early => e.state = "free" /\ x.werr = x.fate /\ x.fate # "nil"
  /\ x.werr # "lost"

\* What the server does to end a session is known before the end is.
Told(x) ==
  /\ x.monitor \notin Early \cup {"forget", "keep"} => x.exitErr = x.werr
  /\ x.exited => x.monitor \notin Early \cup {"forget", "keep"}
  /\ x.fate = "killed" => x.closing
  /\ x.cancelled => x.closing \/ x.exited

Heads == \A s \in Session : HeadIs(s, h[s], procs[h[s].pid]) /\ Told(h[s])

\* Those a teardown has listed are of the session's tree.
Listed ==
  /\ \A s \in Session : \A p \in h[s].members :
       p <= used /\ (procs[p].state # "free" => procs[p].tree = s)
  /\ ~strayed

HeadInv == Base /\ Placed /\ Heads /\ Listed

LEMMA HeadInit == Init => HeadInv
<1> HAVE Init
<1>0. Base
  BY BaseInit
<1>1. \A p \in Pid : p > used => procs[p] = NoProcess
  BY ProcessAssumption DEF Init, Stranger, Pid
<1>2. \A s \in Session : /\ h[s].monitor = "none" /\ h[s].pid = 0 /\ h[s].members = {}
                         /\ h[s].werr = "nil" /\ h[s].fate = "nil"
                         /\ ~h[s].exited /\ ~h[s].cancelled
  <2>1. /\ Handler0.monitor = "none" /\ Handler0.pid = 0 /\ Handler0.members = {}
        /\ Handler0.werr = "nil" /\ Handler0.fate = "nil"
    BY Zenon DEF Handler0
  <2>2. ~Handler0.exited /\ ~Handler0.cancelled
    BY Zenon DEF Handler0
  <2> HIDE DEF Handler0
  <2> QED
    BY <2>1, <2>2 DEF Init
<1>3. Placed
  BY <1>1, <1>2 DEF Placed
<1>4. Heads
  <2>1. \A s \in Session : HeadIs(s, h[s], procs[h[s].pid])
    BY <1>2 DEF HeadIs, Early
  <2>2. \A s \in Session : Told(h[s])
    BY <1>2 DEF Told, Early
  <2> QED
    BY <2>1, <2>2 DEF Heads
<1>5. Listed
  BY <1>2 DEF Listed, Init
<1> QED
  BY <1>0, <1>3, <1>4, <1>5 DEF HeadInv

LEMMA HandlerTold ==
  ASSUME Typed, NEW s \in Session, HandlerSteps(s), Told(h[s])
  PROVE  Told(h'[s])
<1>0. h \in [Session -> Handlers] /\ h[s] \in Handlers
  BY DEF Typed
<1>1. CASE Close(s)
  BY <1>0, <1>1
     DEF Typed, Close, Closed, Handlers, Told, Early
<1>2. CASE setExitError(s)
  BY <1>0, <1>2 DEF setExitError, At, OnlyHandler, Handlers, Monitors, Told, Early
<1>3. CASE CgroupDrained(s)
  BY <1>0, <1>3 DEF CgroupDrained, At, OnlyHandler, Handlers, Told, Early
<1>4. CASE CgroupTerm(s)
  BY <1>0, <1>4 DEF CgroupTerm, To, At, OnlyHandler, Handlers, Told, Early
<1>5. CASE Callback(s)
  BY <1>0, <1>5 DEF Callback, OnProcessExit, To, At, OnlyHandler, Handlers, Told, Early
<1>6. CASE AnnounceExit(s)
  BY <1>0, <1>6 DEF AnnounceExit, At, OnlyHandler, Handlers, Told, Early
<1>7. CASE ClosePTY(s)
  BY <1>0, <1>7 DEF ClosePTY, At, OnlyHandler, Handlers, Told, Early
<1>9. CASE ReapScan(s)
  BY <1>0, <1>9 DEF ReapScan, ToWith, At, OnlyHandler, Handlers, Told, Early
<1>10. CASE ReapSettled(s)
  BY <1>0, <1>10 DEF ReapSettled, ToWith, At, OnlyHandler, Handlers, Told, Early
<1>11. CASE ReapUnsettled(s)
  BY <1>0, <1>11 DEF ReapUnsettled, To, At, OnlyHandler, Handlers, Told, Early
<1>12. CASE ReapGone(s)
  BY <1>0, <1>12 DEF ReapGone, To, At, OnlyHandler, Handlers, Told, Early
<1>13. CASE ReapStubborn(s)
  BY <1>0, <1>13 DEF ReapStubborn, ToWith, At, OnlyHandler, Handlers, Told, Early
<1>14. CASE LoopsEnd(s)
  BY <1>0, <1>14 DEF LoopsEnd, OnlyHandler, Handlers, Told, Early
<1>15. CASE DoneCloses(s)
  BY <1>0, <1>15 DEF DoneCloses, At, OnlyHandler, Handlers, Told, Early
<1> QED
  BY <1>1, <1>2, <1>3, <1>4, <1>5, <1>6, <1>7, <1>9, <1>10, <1>11, <1>12, <1>13, <1>14,
     <1>15 DEF HandlerSteps

LEMMA HandlerMembers ==
  ASSUME Typed, NEW s \in Session, HandlerSteps(s)
  PROVE  h'[s].members \in {h[s].members, Marked(s)}
<1>0. h \in [Session -> Handlers] /\ h[s] \in Handlers
  BY DEF Typed
<1> DEFINE m == Marked(s)
<1>1. CASE ReapScan(s) \/ ReapSettled(s) \/ ReapStubborn(s)
  <2>1. \E pc : h' = [h EXCEPT ![s].monitor = pc, ![s].members = m]
    BY <1>1 DEF ReapScan, ReapSettled, ReapStubborn, ToWith
  <2> HIDE DEF m
  <2>2. h'[s].members = m
    BY <1>0, <2>1 DEF Handlers
  <2> QED
    BY <2>2 DEF m
<1>2. CASE Close(s)
  BY <1>0, <1>2 DEF Close, Closed, Handlers
<1>3. CASE \/ setExitError(s) \/ CgroupDrained(s) \/ CgroupTerm(s) \/ Callback(s)
           \/ AnnounceExit(s) \/ ClosePTY(s)
  BY <1>0, <1>3 DEF setExitError, CgroupDrained, CgroupTerm, Callback, AnnounceExit, ClosePTY,
                    To, Handlers
<1>4. CASE ReapUnsettled(s) \/ ReapGone(s) \/ LoopsEnd(s) \/ DoneCloses(s)
  BY <1>0, <1>4 DEF ReapUnsettled, ReapGone, LoopsEnd, DoneCloses, To, Handlers
<1> QED
  BY <1>1, <1>2, <1>3, <1>4 DEF HandlerSteps

\* A process with the session's mark is of its tree.
LEMMA MarkedIs ==
  ASSUME HeadInv, NEW s \in Session, NEW p \in Marked(s)
  PROVE  p \in Pid /\ p <= used /\ procs[p].state = "live" /\ procs[p].tree = s
<1>1. p \in Pid /\ procs[p].state = "live" /\ procs[p].mark = s
  BY DEF Marked, Live, envHasMarker
<1>2. procs[p].tree = s
  BY <1>1, ProcessAssumption DEF HeadInv, Base, Own
<1>3. p <= used
  <2>1. ~(p > used)
    BY <1>1, Entries DEF HeadInv, Placed
  <2> QED
    BY <1>1, <2>1 DEF HeadInv, Base, Typed, Pid
<1> QED
  BY <1>1, <1>2, <1>3

LEMMA PlacedKept ==
  ASSUME HeadInv, UNCHANGED used,
         \A p \in Pid : procs[p].state = "free" => procs'[p] = NoProcess,
         \A r \in Session : /\ h'[r].pid = h[r].pid
                            /\ h'[r].monitor = "none" <=> h[r].monitor = "none"
                            /\ h'[r].monitor = "wait" => h[r].pid \in spawned'
  PROVE  Placed'
<1>1. \A p \in Pid : p > used => procs'[p] = NoProcess
  BY Entries DEF HeadInv, Placed
<1> QED
  BY <1>1 DEF HeadInv, Placed

LEMMA ListedKept ==
  ASSUME HeadInv, UNCHANGED used, ~strayed',
         \A p \in Pid : procs'[p].state # "free" =>
                          procs[p].state # "free" /\ procs'[p].tree = procs[p].tree,
         \A r \in Session : h'[r].members \in {h[r].members, Marked(r)}
  PROVE  Listed'
<1>1. ASSUME NEW r \in Session, NEW p \in h'[r].members
      PROVE  p <= used' /\ (procs'[p].state # "free" => procs'[p].tree = r)
  <2>1. p \in Pid
    BY <1>1, MarkedIs DEF HeadInv, Base, Typed, Handlers
  <2>2. CASE p \in h[r].members
    BY <2>1, <2>2 DEF HeadInv, Listed
  <2>3. CASE p \in Marked(r)
    BY <2>1, <2>3, MarkedIs
  <2> QED
    BY <1>1, <2>2, <2>3
<1> QED
  BY <1>1 DEF Listed

\* The heads of a session whose record, and whose process, is left alone.
LEMMA HeadKept ==
  ASSUME Heads, NEW r \in Session, h'[r] = h[r], procs'[h[r].pid] = procs[h[r].pid]
  PROVE  HeadIs(r, h'[r], procs'[h'[r].pid]) /\ Told(h'[r])
BY DEF Heads

LEMMA HeadHandler ==
  ASSUME HeadInv, NEW s \in Session, HandlerSteps(s), Base'
  PROVE  HeadInv'
<1>0. Typed /\ Heads /\ Placed /\ Listed
  BY DEF HeadInv, Base
<1>1. /\ UNCHANGED <<procs, used, spawned, strayed>>
      /\ \A r \in Session : r # s => h'[r] = h[r]
      /\ h'[s].pid = h[s].pid /\ h'[s].fate = h[s].fate /\ h'[s].werr = h[s].werr
      /\ \/ h'[s].monitor = h[s].monitor
         \/ /\ h[s].monitor \notin {"none", "starting", "wait", "forget"}
            /\ h'[s].monitor \notin {"none", "starting", "wait", "forget", "keep"}
  BY <1>0, HandlerStepIs
<1>2. Placed'
  BY <1>0, <1>1 DEF Placed
<1>3. Told(h'[s])
  BY <1>0, HandlerTold DEF Heads
<1>4. HeadIs(s, h'[s], procs'[h'[s].pid])
  <2>1. HeadIs(s, h[s], procs[h[s].pid]) /\ procs'[h'[s].pid] = procs[h[s].pid]
    BY <1>0, <1>1 DEF Heads
  <2> QED
    BY <1>1, <2>1 DEF HeadIs, Early
<1>5. Heads'
  <2>1. \A r \in Session \ {s} : HeadIs(r, h'[r], procs'[h'[r].pid]) /\ Told(h'[r])
    BY <1>0, <1>1 DEF Heads
  <2> QED
    BY <1>3, <1>4, <2>1 DEF Heads
<1>6. Listed'
  <2>1. h'[s].members \in {h[s].members, Marked(s)}
    BY <1>0, HandlerMembers
  <2>2. \A r \in Session : h'[r].members \in {h[r].members, Marked(r)}
    BY <1>1, <2>1
  <2>3. ~strayed' /\ UNCHANGED <<procs, used>>
    BY <1>0, <1>1 DEF Listed
  <2> QED
    BY <2>2, <2>3, ListedKept
<1> QED
  BY <1>2, <1>5, <1>6 DEF HeadInv

\* A pid given out for the first time is nobody's.
LEMMA FreshIs ==
  ASSUME HeadInv, "recycledPid" \notin Mishaps, NEW q \in FreePid
  PROVE  /\ q \in Pid /\ q = used + 1 /\ used \in Nat
         /\ \A r \in Session : h[r].pid # q /\ q \notin h[r].members
<1>1. used \in Pid /\ h \in [Session -> Handlers]
  BY DEF HeadInv, Base, Typed
<1>2. q \in Pid /\ q = used + 1 /\ used \in Nat
  BY <1>1, FreePids DEF Pid
<1>3. ASSUME NEW r \in Session
      PROVE  h[r].pid # q /\ q \notin h[r].members
  <2>1. h[r].pid \in Nat /\ (h[r].pid <= used \/ h[r].pid = 0)
    BY <1>1 DEF HeadInv, Placed, Handlers
  <2>2. q \in h[r].members => q <= used
    BY DEF HeadInv, Listed
  <2> QED
    BY <1>2, <2>1, <2>2
<1> QED
  BY <1>2, <1>3

LEMMA HeadFork ==
  ASSUME HeadInv, "recycledPid" \notin Mishaps, NEW p \in Pid, Fork(p), Base'
  PROVE  HeadInv'
<1>0. Typed /\ Heads /\ Placed /\ Listed
  BY DEF HeadInv, Base
<1>1. UNCHANGED <<h, spawned, strayed>> /\ \E q \in FreePid, e \in Entry : Born(q, e)
  BY <1>0, ForkIs
<1>2. PICK q \in FreePid, e \in Entry : Born(q, e)
  BY <1>1
<1>3. \A r \in Pid : r # q => procs'[r] = procs[r]
  BY <1>0, <1>2, BornIs
<1>4. /\ q \in Pid /\ q = used + 1 /\ used \in Nat
      /\ \A r \in Session : h[r].pid # q /\ q \notin h[r].members
  BY FreshIs
<1>5. used' = q
  BY <1>2, <1>4 DEF Born
<1>6. \A r \in Session : h[r].monitor # "none" => h[r].pid \in Pid /\ h[r].pid # q
  BY <1>0, <1>4 DEF Typed
<1>7. Placed'
  <2>1. \A r \in Pid : r > used' => procs'[r] = NoProcess
    BY <1>0, <1>3, <1>4, <1>5 DEF Placed, Pid
  <2>2. \A r \in Session : h[r].monitor # "none" => h[r].pid <= used'
    BY <1>0, <1>4, <1>5, <1>6 DEF Placed, Pid
  <2> QED
    BY <1>0, <1>1, <2>1, <2>2 DEF Placed
<1>8. Heads'
  <2>1. ASSUME NEW r \in Session
        PROVE  HeadIs(r, h[r], procs'[h[r].pid]) /\ Told(h[r])
    <3>1. HeadIs(r, h[r], procs[h[r].pid]) /\ Told(h[r])
      BY <1>0 DEF Heads
    <3>2. CASE h[r].monitor # "none"
      BY <1>3, <1>6, <3>1, <3>2
    <3>3. CASE h[r].monitor = "none"
      BY <3>1, <3>3 DEF HeadIs, Early
    <3> QED
      BY <3>2, <3>3
  <2> QED
    BY <1>1, <2>1 DEF Heads
<1>9. Listed'
  <2>1. ASSUME NEW r \in Session, NEW m \in h[r].members
        PROVE  m <= used' /\ (procs'[m].state # "free" => procs'[m].tree = r)
    <3>1. m \in Pid /\ m # q
      BY <1>0, <1>4, <2>1 DEF Typed, Handlers
    <3> QED
      BY <1>0, <1>3, <1>4, <1>5, <2>1, <3>1 DEF Listed, Pid
  <2> QED
    BY <1>0, <1>1, <2>1 DEF Listed
<1> QED
  BY <1>7, <1>8, <1>9 DEF HeadInv

LEMMA HeadStart ==
  ASSUME HeadInv, "recycledPid" \notin Mishaps, NEW s \in Session, Start(s), Base'
  PROVE  HeadInv'
<1>0. Typed /\ Heads /\ Placed /\ Listed /\ h \in [Session -> Handlers] /\ h[s] \in Handlers
  BY DEF HeadInv, Base, Typed
<1>1. /\ UNCHANGED <<spawned, strayed>> /\ ~h[s].started /\ h[s].monitor # "starting"
      /\ \E q \in FreePid, e \in Entry, contain \in {"nil", "made"} :
           /\ Born(q, e) /\ e.state = "live" /\ e.tree = s /\ e.mark = s
           /\ e.parent = Server
           /\ h' = [h EXCEPT ![s] = Begun(@, q, contain)]
  BY <1>0, StartIs
<1>2. PICK q \in FreePid, e \in Entry, contain \in {"nil", "made"} :
        /\ Born(q, e) /\ e.state = "live" /\ e.tree = s /\ e.parent = Server
        /\ h' = [h EXCEPT ![s] = Begun(@, q, contain)]
  BY <1>1
<1>3. procs'[q] = e /\ \A r \in Pid : r # q => procs'[r] = procs[r]
  <2>1. Born(q, e)
    BY <1>2
  <2> QED
    BY <1>0, <2>1, BornIs
<1>4. /\ q \in Pid /\ q = used + 1 /\ used \in Nat
      /\ \A r \in Session : h[r].pid # q /\ q \notin h[r].members
  BY FreshIs
<1>5. used' = q
  BY <1>2, <1>4 DEF Born
<1>6. \A r \in Session : h[r].monitor # "none" => h[r].pid \in Pid /\ h[r].pid # q
  BY <1>0, <1>4 DEF Typed
<1>7. h'[s] = Begun(h[s], q, contain) /\ \A r \in Session : r # s => h'[r] = h[r]
  BY <1>0, <1>2
<1>8. /\ h'[s].pid = q /\ h'[s].monitor = "starting" /\ h'[s].fate = "nil"
      /\ h'[s].members = h[s].members /\ h'[s].werr = h[s].werr
      /\ h'[s].exited = h[s].exited /\ h'[s].cancelled = h[s].cancelled
      /\ h'[s].closing = h[s].closing
  BY <1>0, <1>4, <1>7, BegunIs DEF Pid
<1>9. Placed'
  <2>1. \A r \in Pid : r > used' => procs'[r] = NoProcess
    BY <1>0, <1>3, <1>4, <1>5 DEF Placed, Pid
  <2>2. \A r \in Session : h'[r].monitor # "none" => h'[r].pid <= used'
    <3>1. \A r \in Session : h[r].monitor # "none" => h[r].pid <= used'
      BY <1>0, <1>4, <1>5, <1>6 DEF Placed, Pid
    <3> QED
      BY <1>4, <1>5, <1>7, <1>8, <3>1
  <2>3. \A r, t \in Session : h'[r].pid = h'[t].pid /\ h'[r].pid # 0 => r = t
    BY <1>0, <1>4, <1>7, <1>8 DEF Placed
  <2>4. \A r \in Session : /\ h'[r].monitor = "none" => h'[r].pid = 0
                           /\ h'[r].monitor = "wait" => h'[r].pid \in spawned'
    BY <1>0, <1>1, <1>7, <1>8 DEF Placed
  <2> QED
    BY <2>1, <2>2, <2>3, <2>4 DEF Placed
<1>10. Heads'
  <2>1. ASSUME NEW r \in Session, r # s
        PROVE  HeadIs(r, h'[r], procs'[h'[r].pid]) /\ Told(h'[r])
    <3>1. HeadIs(r, h[r], procs[h[r].pid]) /\ Told(h[r]) /\ h'[r] = h[r]
      BY <1>0, <1>7, <1>8, <2>1 DEF Heads
    <3>2. CASE h[r].monitor # "none"
      BY <1>3, <1>6, <3>1, <3>2
    <3>3. CASE h[r].monitor = "none"
      BY <3>1, <3>3 DEF HeadIs, Early
    <3> QED
      BY <3>2, <3>3
  <2>2. HeadIs(s, h'[s], procs'[h'[s].pid])
    BY <1>0, <1>2, <1>3, <1>7, <1>8 DEF Heads, HeadIs, Early
  <2>3. Told(h'[s])
    <3>1. h[s].monitor = "none" /\ Told(h[s])
      BY <1>0, <1>1 DEF Heads, Typed, Handlers
    <3> QED
      BY <1>7, <1>8, <3>1 DEF Told, Early
  <2> QED
    BY <2>1, <2>2, <2>3 DEF Heads
<1>11. Listed'
  <2>1. ASSUME NEW r \in Session, NEW m \in h'[r].members
        PROVE  m <= used' /\ (procs'[m].state # "free" => procs'[m].tree = r)
    <3>1. m \in Pid /\ m # q /\ m \in h[r].members
      BY <1>0, <1>4, <1>7, <1>8, <2>1 DEF Typed, Handlers
    <3> QED
      BY <1>0, <1>3, <1>4, <1>5, <3>1 DEF Listed, Pid
  <2> QED
    BY <1>0, <1>1, <2>1 DEF Listed
<1> QED
  BY <1>9, <1>10, <1>11 DEF HeadInv

\* Processes end, heads among them, whose fates are noted.
LEMMA HeadsEnd ==
  ASSUME HeadInv, NEW dying \in SUBSET Pid, NEW status \in Statuses \ {"nil"},
         procs' \in EndAll(procs, dying, status), NEW g, g = Fates(dying, status),
         \A r \in Session : h[r].pid \in dying /\ h[r].fate = "nil" /\ status = "killed"
                              => h[r].closing,
         NEW s \in Session
  PROVE  HeadIs(s, g[s], procs'[h[s].pid]) /\ Told(g[s])
<1>0. Typed /\ procs \in Table /\ h[s] \in Handlers
  BY DEF HeadInv, Base, Typed
<1>1. Ended(procs, dying, status, procs')
  BY <1>0, EndAllIs
<1>2. /\ g[s].fate = IF h[s].pid \in dying /\ h[s].fate = "nil" THEN status ELSE h[s].fate
      /\ g[s].pid = h[s].pid /\ g[s].monitor = h[s].monitor
      /\ g[s].closing = h[s].closing /\ g[s].cancelled = h[s].cancelled
      /\ g[s].werr = h[s].werr /\ g[s].exitErr = h[s].exitErr /\ g[s].exited = h[s].exited
  BY <1>0, FatesPlaced
<1>3. HeadIs(s, h[s], procs[h[s].pid]) /\ Told(h[s])
  BY DEF HeadInv, Heads
<1>4. Told(g[s])
  BY <1>2, <1>3 DEF Told, Early
<1>e. PICK e : e = procs[h[s].pid]
  OBVIOUS
<1>u. PICK u : u = procs'[h[s].pid]
  OBVIOUS
<1>7. g[s].monitor = h[s].monitor /\ g[s].werr = h[s].werr
  BY <1>2
<1>8. HeadIs(s, h[s], e)
  BY <1>3, <1>e
<1> SUFFICES HeadIs(s, g[s], u)
  BY <1>4, <1>u
<1>5. CASE h[s].monitor = "none"
  BY <1>5, <1>7, <1>8 DEF HeadIs, Early
<1>6. CASE h[s].monitor # "none"
  <2>0. h[s].pid \in Pid
    BY <1>0, <1>6 DEF Typed
  <2>1. e \in {NoProcess} \cup Entry
    BY <1>0, <1>e, <2>0 DEF Table
  <2>3. /\ h[s].pid \in dying /\ e.state = "live" /\ e.parent = Server => u = Zombie(e, status)
        /\ ~(h[s].pid \in dying /\ e.state = "live") => u \in {e, [e EXCEPT !.parent = Server]}
        /\ e.state = "free" => u = NoProcess
    BY <1>1, <1>e, <1>u, <2>0 DEF Ended
  <2>4. e.state \in {"free", "live", "zombie"} /\ (e.state # "free" => e \in Entry)
    BY <2>1, Entries
  <2>5. CASE h[s].monitor \notin Early
    <3>1. u.state = "free" /\ h[s].fate # "nil"
      BY <1>8, <2>3, <2>5, Entries DEF HeadIs
    <3> QED
      BY <1>2, <1>7, <1>8, <2>5, <3>1 DEF HeadIs, Early
  <2>6. CASE h[s].monitor \in {"starting", "wait"}
    <3>1. /\ e \in Entry /\ e.tree = s /\ e.parent = Server /\ e.state \in {"live", "zombie"}
          /\ e.state = "live" => h[s].fate = "nil"
          /\ e.state = "zombie" => h[s].fate = e.status /\ h[s].fate # "nil"
      BY <1>8, <2>4, <2>6 DEF HeadIs
    <3>2. CASE h[s].pid \in dying /\ e.state = "live"
      <4>1. u.state = "zombie" /\ u.tree = s /\ u.parent = Server /\ u.status = status
        BY <2>3, <3>1, <3>2, ZombieIs
      <4>2. g[s].fate = status /\ status # "nil"
        BY <1>2, <3>1, <3>2
      <4> QED
        BY <1>7, <1>8, <2>6, <4>1, <4>2 DEF HeadIs, Early
    <3>3. CASE ~(h[s].pid \in dying /\ e.state = "live")
      <4>1. u.state = e.state /\ u.tree = e.tree /\ u.parent = Server /\ u.status = e.status
        BY <2>3, <3>1, <3>3, AdoptedIs
      <4>2. g[s].fate = h[s].fate
        BY <1>2, <3>1, <3>3
      <4> QED
        BY <1>7, <1>8, <2>6, <3>1, <4>1, <4>2 DEF HeadIs, Early
    <3> QED
      BY <3>2, <3>3
  <2> QED
    BY <1>0, <1>6, <2>5, <2>6 DEF Early
<1> QED
  BY <1>4, <1>5, <1>6

\* The rest of what such a step keeps.
LEMMA EndedKept ==
  ASSUME HeadInv, NEW dying \in SUBSET Pid, NEW status \in Statuses, ~strayed',
         procs' \in EndAll(procs, dying, status), UNCHANGED <<used, spawned>>,
         \A r \in Session : /\ h'[r].pid = h[r].pid /\ h'[r].members = h[r].members
                            /\ h'[r].monitor = h[r].monitor
                                 \/ {h[r].monitor, h'[r].monitor} \cap Early = {}
  PROVE  Placed' /\ Listed'
<1>1. procs \in Table
  BY DEF HeadInv, Base, Typed
<1>2. Ended(procs, dying, status, procs')
  BY <1>1, EndAllIs
<1>3. \A p \in Pid : /\ procs[p].state = "free" => procs'[p] = NoProcess
                     /\ procs'[p].state # "free" =>
                          procs[p].state # "free" /\ procs'[p].tree = procs[p].tree
  BY <1>2 DEF Ended
<1>4. Placed'
  <2>1. \A r \in Session : /\ h'[r].monitor = "none" <=> h[r].monitor = "none"
                           /\ h'[r].monitor = "wait" => h[r].pid \in spawned'
    BY DEF HeadInv, Placed, Early
  <2> QED
    BY <1>3, <2>1, PlacedKept
<1>5. Listed'
  BY <1>3, ListedKept
<1> QED
  BY <1>4, <1>5

\* A process ends by itself, or its session's context does.
LEMMA HeadExit ==
  ASSUME HeadInv, NEW dying \in SUBSET Pid, NEW status \in Statuses \ {"nil"}, Base',
         procs' \in EndAll(procs, dying, status), h' = Fates(dying, status),
         UNCHANGED <<used, spawned, strayed>>,
         \A r \in Session : h[r].pid \in dying /\ h[r].fate = "nil" /\ status = "killed"
                              => h[r].closing
  PROVE  HeadInv'
<1>1. \A r \in Session : /\ h'[r].pid = h[r].pid /\ h'[r].members = h[r].members
                         /\ h'[r].monitor = h[r].monitor
  BY FatesPlaced DEF HeadInv, Base
<1>2. ~strayed'
  BY DEF HeadInv, Listed
<1>3. Placed' /\ Listed'
  BY <1>1, <1>2, EndedKept
<1>4. Heads'
  <2>1. \A r \in Session : HeadIs(r, h'[r], procs'[h[r].pid]) /\ Told(h'[r])
    BY HeadsEnd
  <2> QED
    BY <1>1, <2>1 DEF Heads
<1> QED
  BY <1>3, <1>4 DEF HeadInv

LEMMA HeadRegistered ==
  ASSUME HeadInv, NEW s \in Session, Registered(s), Base'
  PROVE  HeadInv'
<1>0. Typed /\ Heads /\ Placed /\ Listed /\ h \in [Session -> Handlers] /\ h[s] \in Handlers
  BY DEF HeadInv, Base, Typed
<1>1. /\ UNCHANGED <<procs, used, strayed>> /\ spawned' = spawned \cup {h[s].pid}
      /\ h[s].monitor = "starting"
      /\ h' = [h EXCEPT ![s].started = Yes, ![s].pty = "open", ![s].done = "armed",
                        ![s].loops = Yes, ![s].monitor = "wait"]
  BY <1>0, RegisteredIs
<1>2. /\ \A r \in Session : r # s => h'[r] = h[r]
      /\ h'[s].pid = h[s].pid /\ h'[s].monitor = "wait" /\ h'[s].fate = h[s].fate
      /\ h'[s].members = h[s].members /\ h'[s].werr = h[s].werr
      /\ h'[s].exited = h[s].exited /\ h'[s].cancelled = h[s].cancelled
      /\ h'[s].closing = h[s].closing
  BY <1>0, <1>1 DEF Handlers
<1>3. Placed'
  <2>1. \A r \in Session : h'[r].pid = h[r].pid
    BY <1>2
  <2>2. \A r \in Session : /\ h'[r].monitor = "none" <=> h[r].monitor = "none"
                           /\ h'[r].monitor = "wait" => h[r].pid \in spawned'
    BY <1>0, <1>1, <1>2 DEF Placed
  <2> QED
    BY <1>0, <1>1, <2>1, <2>2 DEF Placed
<1>4. HeadIs(s, h'[s], procs'[h'[s].pid]) /\ Told(h'[s])
  <2>1. HeadIs(s, h[s], procs'[h'[s].pid]) /\ Told(h[s])
    BY <1>0, <1>1, <1>2 DEF Heads
  <2>2. HeadIs(s, h'[s], procs'[h'[s].pid])
    BY <1>1, <1>2, <2>1 DEF HeadIs, Early
  <2>3. Told(h'[s])
    BY <1>1, <1>2, <2>1 DEF Told, Early
  <2> QED
    BY <2>2, <2>3
<1>5. Heads'
  <2>1. \A r \in Session : r # s => HeadIs(r, h'[r], procs'[h'[r].pid]) /\ Told(h'[r])
    BY <1>0, <1>1, <1>2 DEF Heads
  <2> QED
    BY <1>4, <2>1 DEF Heads
<1>6. Listed'
  <2>1. \A r \in Session : h'[r].members = h[r].members
    BY <1>2
  <2> QED
    BY <1>0, <1>1, <2>1 DEF Listed
<1> QED
  BY <1>3, <1>5, <1>6 DEF HeadInv

\* Nothing else takes a head's status first.
LEMMA HeadCmdWait ==
  ASSUME HeadInv, NEW s \in Session, CmdWait(s), Base'
  PROVE  HeadInv'
<1>0. Typed /\ Heads /\ Placed /\ Listed /\ h \in [Session -> Handlers] /\ h[s] \in Handlers
  BY DEF HeadInv, Base, Typed
<1> DEFINE p == h[s].pid
<1>1. /\ UNCHANGED <<used, spawned, strayed>> /\ h[s].monitor = "wait" /\ p \in Pid
      /\ \/ /\ procs[p].state = "zombie" /\ Reaped(p)
            /\ h' = [h EXCEPT ![s].werr = procs[p].status, ![s].monitor = "forget"]
         \/ procs[p].state = "free"
  BY <1>0, CmdWaitIs
<1>2. HeadIs(s, h[s], procs[p]) /\ Told(h[s])
  BY <1>0 DEF Heads
<1>3. /\ procs[p].state = "zombie" /\ Reaped(p)
      /\ h' = [h EXCEPT ![s].werr = procs[p].status, ![s].monitor = "forget"]
      /\ h[s].fate = procs[p].status /\ h[s].fate # "nil"
  BY <1>1, <1>2 DEF HeadIs
<1>4. procs'[p] = NoProcess /\ \A r \in Pid : r # p => procs'[r] = procs[r]
  BY <1>0, <1>1, <1>3, ReapedIs
<1>5. /\ \A r \in Session : r # s => h'[r] = h[r]
      /\ h'[s].pid = p /\ h'[s].monitor = "forget" /\ h'[s].werr = h[s].fate
      /\ h'[s].fate = h[s].fate /\ h'[s].members = h[s].members
      /\ h'[s].exited = h[s].exited /\ h'[s].cancelled = h[s].cancelled
      /\ h'[s].closing = h[s].closing
  BY <1>0, <1>3 DEF Handlers
<1>6. h[s].fate # "lost"
  BY <1>0 DEF Handlers, Statuses
<1> HIDE DEF p
<1>7. Placed'
  <2>1. \A r \in Session : /\ h'[r].pid = h[r].pid
                           /\ h'[r].monitor = "none" <=> h[r].monitor = "none"
                           /\ h'[r].monitor = "wait" => h[r].pid \in spawned'
    BY <1>0, <1>1, <1>5 DEF Placed, p
  <2>2. \A r \in Pid : procs[r].state = "free" => procs'[r] = NoProcess
    BY <1>0, <1>4, Entries DEF Typed, Table
  <2> QED
    BY <1>1, <2>1, <2>2, PlacedKept
<1>8. Heads'
  <2>1. ASSUME NEW r \in Session, r # s
        PROVE  HeadIs(r, h'[r], procs'[h'[r].pid]) /\ Told(h'[r])
    <3>1. HeadIs(r, h[r], procs[h[r].pid]) /\ Told(h[r]) /\ h'[r] = h[r]
      BY <1>0, <1>5, <2>1 DEF Heads
    <3>2. CASE h[r].monitor = "none"
      BY <3>1, <3>2 DEF HeadIs, Early
    <3>3. CASE h[r].monitor # "none"
      <4>1. h[r].pid \in Pid /\ h[r].pid # p
        BY <1>0, <1>1, <2>1, <3>3 DEF Typed, Placed, Pid, p
      <4> QED
        BY <1>4, <3>1, <4>1
    <3> QED
      BY <3>2, <3>3
  <2>2. HeadIs(s, h'[s], procs'[h'[s].pid])
    BY <1>3, <1>4, <1>5, <1>6, Entries DEF HeadIs, Early
  <2>3. Told(h'[s])
    BY <1>1, <1>2, <1>5 DEF Told, Early
  <2> QED
    BY <2>1, <2>2, <2>3 DEF Heads
<1>9. Listed'
  <2>1. \A r \in Pid : procs'[r].state # "free" =>
                         procs[r].state # "free" /\ procs'[r].tree = procs[r].tree
    BY <1>4, Entries
  <2>2. \A r \in Session : h'[r].members \in {h[r].members, Marked(r)}
    BY <1>5
  <2>3. ~strayed'
    BY <1>0, <1>1 DEF Listed
  <2> QED
    BY <1>1, <2>1, <2>2, <2>3, ListedKept
<1> QED
  BY <1>7, <1>8, <1>9 DEF HeadInv

LEMMA HeadForget ==
  ASSUME HeadInv, NEW s \in Session, spawnForget(s), Base'
  PROVE  HeadInv'
<1>0. Typed /\ Heads /\ Placed /\ Listed /\ h \in [Session -> Handlers] /\ h[s] \in Handlers
  BY DEF HeadInv, Base, Typed
<1>1. /\ UNCHANGED <<procs, used, strayed>> /\ spawned' = spawned \ {h[s].pid}
      /\ h[s].monitor = "forget" /\ h' = [h EXCEPT ![s].monitor = "keep"]
  BY <1>0, ForgetIs
<1>2. /\ \A r \in Session : r # s => h'[r] = h[r]
      /\ h'[s].pid = h[s].pid /\ h'[s].monitor = "keep" /\ h'[s].fate = h[s].fate
      /\ h'[s].members = h[s].members /\ h'[s].werr = h[s].werr
      /\ h'[s].exited = h[s].exited /\ h'[s].cancelled = h[s].cancelled
      /\ h'[s].closing = h[s].closing
  BY <1>0, <1>1 DEF Handlers
<1>3. Placed'
  <2>1. \A r \in Session : /\ h'[r].pid = h[r].pid
                           /\ h'[r].monitor = "none" <=> h[r].monitor = "none"
    BY <1>1, <1>2
  <2>2. ASSUME NEW r \in Session, h'[r].monitor = "wait"
        PROVE  h[r].pid \in spawned'
    <3>1. r # s /\ h[r].monitor = "wait" /\ h[r].pid \in spawned
      BY <1>0, <1>2, <2>2 DEF Placed
    <3>2. h[r].pid # h[s].pid
      BY <1>0, <3>1 DEF Placed, Typed, Pid
    <3> QED
      BY <1>1, <3>1, <3>2
  <2> QED
    BY <1>0, <1>1, <2>1, <2>2 DEF Placed
<1>4. HeadIs(s, h'[s], procs'[h'[s].pid]) /\ Told(h'[s])
  <2>1. HeadIs(s, h[s], procs'[h'[s].pid]) /\ Told(h[s])
    BY <1>0, <1>1, <1>2 DEF Heads
  <2>2. HeadIs(s, h'[s], procs'[h'[s].pid])
    BY <1>1, <1>2, <2>1 DEF HeadIs, Early
  <2>3. Told(h'[s])
    BY <1>1, <1>2, <2>1 DEF Told, Early
  <2> QED
    BY <2>2, <2>3
<1>5. Heads'
  <2>1. \A r \in Session : r # s => HeadIs(r, h'[r], procs'[h'[r].pid]) /\ Told(h'[r])
    BY <1>0, <1>1, <1>2 DEF Heads
  <2> QED
    BY <1>4, <2>1 DEF Heads
<1>6. Listed'
  <2>1. \A r \in Session : h'[r].members = h[r].members
    BY <1>2
  <2> QED
    BY <1>0, <1>1, <2>1 DEF Listed
<1> QED
  BY <1>3, <1>5, <1>6 DEF HeadInv

\* The zombie sweep leaves the heads to cmd.Wait.
LEMMA HeadReaped ==
  ASSUME HeadInv, ReapIfUnowned, Base'
  PROVE  HeadInv'
<1>0. Typed /\ Heads /\ Placed /\ Listed /\ h \in [Session -> Handlers]
  BY DEF HeadInv, Base, Typed
<1>1. /\ UNCHANGED <<spawned, h, used, strayed>> /\ SpawnLockFree
      /\ \/ UNCHANGED procs
         \/ \E p \in Pid : p \notin spawned /\ Reaped(p)
  BY <1>0, ReapIfUnownedIs
<1>2. CASE UNCHANGED procs
  BY <1>0, <1>1, <1>2 DEF HeadInv, Placed, Heads, Listed
<1>3. ASSUME NEW p \in Pid, p \notin spawned, Reaped(p)
      PROVE  HeadInv'
  <2>1. procs'[p] = NoProcess /\ \A r \in Pid : r # p => procs'[r] = procs[r]
    BY <1>0, <1>3, ReapedIs
  <2>2. Placed'
    <3>1. \A r \in Pid : procs[r].state = "free" => procs'[r] = NoProcess
      BY <1>0, <2>1, Entries DEF Typed, Table
    <3>2. \A r \in Session : h[r].monitor = "wait" => h[r].pid \in spawned'
      BY <1>0, <1>1 DEF Placed
    <3> QED
      BY <1>1, <3>1, <3>2, PlacedKept
  <2>3. Heads'
    <3>1. ASSUME NEW r \in Session
          PROVE  HeadIs(r, h[r], procs'[h[r].pid]) /\ Told(h[r])
      <4>1. HeadIs(r, h[r], procs[h[r].pid]) /\ Told(h[r]) /\ h[r].monitor # "starting"
        BY <1>0, <1>1 DEF Heads, SpawnLockFree, Starting
      <4>2. CASE h[r].monitor = "none"
        BY <4>1, <4>2 DEF HeadIs, Early
      <4>3. CASE h[r].monitor = "wait"
        <5>1. h[r].pid \in Pid /\ h[r].pid # p
          BY <1>0, <1>3, <4>3 DEF Typed, Placed
        <5> QED
          BY <2>1, <4>1, <5>1
      <4>4. CASE h[r].monitor \notin Early
        <5>1. h[r].pid \in Pid
          BY <1>0, <4>4 DEF Typed, Early
        <5>2. procs'[h[r].pid].state = "free"
          BY <2>1, <4>1, <4>4, <5>1, Entries DEF HeadIs
        <5> QED
          BY <4>1, <4>4, <5>2 DEF HeadIs, Early
      <4> QED
        BY <4>1, <4>2, <4>3, <4>4 DEF Early
    <3> QED
      BY <1>1, <3>1 DEF Heads
  <2>4. Listed'
    <3>1. \A r \in Pid : procs'[r].state # "free" =>
                           procs[r].state # "free" /\ procs'[r].tree = procs[r].tree
      BY <2>1, Entries
    <3>2. ~strayed' /\ \A r \in Session : h'[r].members \in {h[r].members, Marked(r)}
      BY <1>0, <1>1 DEF Listed
    <3> QED
      BY <1>1, <3>1, <3>2, ListedKept
  <2> QED
    BY <2>2, <2>3, <2>4 DEF HeadInv
<1> QED
  BY <1>1, <1>2, <1>3

\* A teardown's kill meets no head that still has a fate to come.
LEMMA NoHeads ==
  ASSUME HeadInv, NEW s \in Session, h[s].monitor \notin {"starting", "wait"},
         NEW dying \in SUBSET Pid,
         \A p \in dying : procs[p].state # "free" => procs[p].tree = s,
         NEW r \in Session
  PROVE  ~(h[r].pid \in dying /\ h[r].fate = "nil")
<1> SUFFICES ASSUME h[r].pid \in dying, h[r].fate = "nil" PROVE FALSE
  OBVIOUS
<1>1. HeadIs(r, h[r], procs[h[r].pid])
  BY DEF HeadInv, Heads
<1>2. h[r].monitor # "none"
  BY DEF HeadInv, Placed, Pid
<1>3. h[r].monitor \in {"starting", "wait"}
  BY <1>1, <1>2 DEF HeadIs, Early
<1>4. procs[h[r].pid].state # "free" /\ procs[h[r].pid].tree = r
  BY <1>1, <1>3 DEF HeadIs
<1> QED
  BY <1>3, <1>4

LEMMA HeadCgroupKill ==
  ASSUME HeadInv, NEW s \in Session, CgroupKill(s), Base'
  PROVE  HeadInv'
<1>0. Typed /\ Heads /\ Placed /\ Listed /\ h \in [Session -> Handlers] /\ h[s] \in Handlers
  BY DEF HeadInv, Base, Typed
<1>1. /\ UNCHANGED <<used, spawned, strayed>> /\ h[s].monitor = "cgroupKill"
      /\ procs' \in EndAll(procs, Tree(s), "killed")
      /\ h' = [h EXCEPT ![s].contain = "removed", ![s].monitor = "exit"]
  BY <1>0, CgroupKillIs
<1>2. /\ Tree(s) \in SUBSET Pid /\ "killed" \in Statuses \ {"nil"}
      /\ \A p \in Tree(s) : procs[p].state # "free" => procs[p].tree = s
  BY DEF Tree, Statuses
<1>3. /\ \A r \in Session : r # s => h'[r] = h[r]
      /\ h'[s].pid = h[s].pid /\ h'[s].monitor = "exit" /\ h'[s].fate = h[s].fate
      /\ h'[s].members = h[s].members /\ h'[s].werr = h[s].werr /\ h'[s].exitErr = h[s].exitErr
      /\ h'[s].exited = h[s].exited /\ h'[s].cancelled = h[s].cancelled
      /\ h'[s].closing = h[s].closing
  BY <1>0, <1>1 DEF Handlers
<1>4. \A r \in Session : ~(h[r].pid \in Tree(s) /\ h[r].fate = "nil")
  BY <1>1, <1>2, NoHeads
<1>5. PICK g : g = Fates(Tree(s), "killed")
  OBVIOUS
<1>6. \A r \in Session : g[r] = h[r]
  <2>1. "killed" \in Statuses
    BY DEF Statuses
  <2> QED
    BY <1>0, <1>4, <1>5, <2>1, FatesAre
<1>7. \A r \in Session : HeadIs(r, h[r], procs'[h[r].pid]) /\ Told(h[r])
  <2>1. \A r \in Session : HeadIs(r, g[r], procs'[h[r].pid]) /\ Told(g[r])
    BY <1>1, <1>2, <1>4, <1>5, HeadsEnd
  <2> QED
    BY <1>6, <2>1
<1>8. HeadIs(s, h'[s], procs'[h'[s].pid])
  <2>1. HeadIs(s, h[s], procs'[h'[s].pid])
    BY <1>3, <1>7
  <2> QED
    BY <1>1, <1>3, <2>1 DEF HeadIs, Early
<1>9. Told(h'[s])
  <2>1. Told(h[s])
    BY <1>7
  <2> QED
    BY <1>1, <1>3, <2>1 DEF Told, Early
<1>10. Heads'
  BY <1>3, <1>7, <1>8, <1>9 DEF Heads
<1>11. Placed' /\ Listed'
  <2>1. \A r \in Session : /\ h'[r].pid = h[r].pid /\ h'[r].members = h[r].members
                           /\ h'[r].monitor = h[r].monitor
                                \/ {h[r].monitor, h'[r].monitor} \cap Early = {}
    BY <1>1, <1>3 DEF Early
  <2>2. ~strayed' /\ "killed" \in Statuses
    BY <1>0, <1>1, <1>2 DEF Listed
  <2> QED
    BY <1>1, <1>2, <2>1, <2>2, EndedKept
<1> QED
  BY <1>10, <1>11 DEF HeadInv

LEMMA HeadTerm ==
  ASSUME HeadInv, NEW s \in Session, ReapTerm(s), Base'
  PROVE  HeadInv'
<1>0. Typed /\ Heads /\ Placed /\ Listed /\ h \in [Session -> Handlers] /\ h[s] \in Handlers
  BY DEF HeadInv, Base, Typed
<1>1. /\ UNCHANGED <<procs, used, spawned>> /\ strayed' = (strayed \/ Strays(s))
      /\ h[s].monitor = "term" /\ h' = [h EXCEPT ![s].monitor = "settled"]
  BY <1>0, ReapTermIs
<1>2. /\ \A r \in Session : r # s => h'[r] = h[r]
      /\ h'[s].pid = h[s].pid /\ h'[s].monitor = "settled" /\ h'[s].fate = h[s].fate
      /\ h'[s].members = h[s].members /\ h'[s].werr = h[s].werr /\ h'[s].exitErr = h[s].exitErr
      /\ h'[s].exited = h[s].exited /\ h'[s].cancelled = h[s].cancelled
      /\ h'[s].closing = h[s].closing
  BY <1>0, <1>1 DEF Handlers
<1>3. ~Strays(s) /\ ~strayed'
  BY <1>0, <1>1 DEF Strays, Listed
<1>4. Placed'
  <2>1. \A r \in Session : /\ h'[r].pid = h[r].pid
                           /\ h'[r].monitor = "none" <=> h[r].monitor = "none"
                           /\ h'[r].monitor = "wait" <=> h[r].monitor = "wait"
    BY <1>1, <1>2
  <2> QED
    BY <1>0, <1>1, <2>1 DEF Placed
<1>5. HeadIs(s, h'[s], procs'[h'[s].pid]) /\ Told(h'[s])
  <2>1. HeadIs(s, h[s], procs'[h'[s].pid]) /\ Told(h[s])
    BY <1>0, <1>1, <1>2 DEF Heads
  <2>2. HeadIs(s, h'[s], procs'[h'[s].pid])
    BY <1>1, <1>2, <2>1 DEF HeadIs, Early
  <2>3. Told(h'[s])
    BY <1>1, <1>2, <2>1 DEF Told, Early
  <2> QED
    BY <2>2, <2>3
<1>6. Heads'
  <2>1. \A r \in Session : r # s => HeadIs(r, h'[r], procs'[h'[r].pid]) /\ Told(h'[r])
    BY <1>0, <1>1, <1>2 DEF Heads
  <2> QED
    BY <1>5, <2>1 DEF Heads
<1>7. Listed'
  <2>1. \A r \in Session : h'[r].members = h[r].members
    BY <1>2
  <2> QED
    BY <1>0, <1>1, <1>3, <2>1 DEF Listed
<1> QED
  BY <1>4, <1>6, <1>7 DEF HeadInv

LEMMA HeadKill ==
  ASSUME HeadInv, NEW s \in Session, ReapKill(s), Base'
  PROVE  HeadInv'
<1>0. Typed /\ Heads /\ Placed /\ Listed /\ h \in [Session -> Handlers] /\ h[s] \in Handlers
  BY DEF HeadInv, Base, Typed
<1> DEFINE dying == h[s].members
<1>1. /\ UNCHANGED <<used, spawned>> /\ strayed' = (strayed \/ Strays(s))
      /\ h[s].monitor = "kill" /\ dying \in SUBSET Pid
      /\ procs' \in EndAll(procs, dying, "killed")
      /\ \E g \in [Session -> Handlers] :
           g = Fates(dying, "killed") /\ h' = [g EXCEPT ![s].monitor = "ended"]
  BY <1>0, ReapKillIs
<1>2. ~Strays(s) /\ ~strayed' /\ \A p \in dying : procs[p].state # "free" => procs[p].tree = s
  BY <1>0, <1>1 DEF Strays, Listed
<1> HIDE DEF dying
<1>3. PICK g \in [Session -> Handlers] :
        g = Fates(dying, "killed") /\ h' = [g EXCEPT ![s].monitor = "ended"]
  BY <1>1
<1>4. \A r \in Session : ~(h[r].pid \in dying /\ h[r].fate = "nil")
  BY <1>1, <1>2, NoHeads
<1>5. \A r \in Session : g[r] = h[r]
  <2>1. "killed" \in Statuses
    BY DEF Statuses
  <2> QED
    BY <1>0, <1>3, <1>4, <2>1, FatesAre
<1>6. \A r \in Session : HeadIs(r, h[r], procs'[h[r].pid]) /\ Told(h[r])
  <2>1. "killed" \in Statuses \ {"nil"}
    BY DEF Statuses
  <2>2. \A r \in Session : HeadIs(r, g[r], procs'[h[r].pid]) /\ Told(g[r])
    BY <1>1, <1>3, <1>4, <2>1, HeadsEnd
  <2> QED
    BY <1>5, <2>2
<1>7. /\ \A r \in Session : r # s => h'[r] = h[r]
      /\ h'[s].pid = h[s].pid /\ h'[s].monitor = "ended" /\ h'[s].fate = h[s].fate
      /\ h'[s].members = h[s].members /\ h'[s].werr = h[s].werr /\ h'[s].exitErr = h[s].exitErr
      /\ h'[s].exited = h[s].exited /\ h'[s].cancelled = h[s].cancelled
      /\ h'[s].closing = h[s].closing
  BY <1>0, <1>3, <1>5 DEF Handlers
<1>8. HeadIs(s, h'[s], procs'[h'[s].pid])
  <2>1. HeadIs(s, h[s], procs'[h'[s].pid])
    BY <1>6, <1>7
  <2> QED
    BY <1>1, <1>7, <2>1 DEF HeadIs, Early
<1>9. Told(h'[s])
  <2>1. Told(h[s])
    BY <1>6
  <2> QED
    BY <1>1, <1>7, <2>1 DEF Told, Early
<1>10. Heads'
  BY <1>6, <1>7, <1>8, <1>9 DEF Heads
<1>11. Placed' /\ Listed'
  <2>1. \A r \in Session : /\ h'[r].pid = h[r].pid /\ h'[r].members = h[r].members
                           /\ h'[r].monitor = h[r].monitor
                                \/ {h[r].monitor, h'[r].monitor} \cap Early = {}
    BY <1>1, <1>7 DEF Early
  <2>2. "killed" \in Statuses
    BY DEF Statuses
  <2> QED
    BY <1>1, <1>2, <2>1, <2>2, EndedKept
<1> QED
  BY <1>10, <1>11 DEF HeadInv

LEMMA HeadNext ==
  ASSUME HeadInv, "recycledPid" \notin Mishaps, [Next]_vars
  PROVE  HeadInv'
<1>0. Typed /\ Base'
  BY BaseNext DEF HeadInv, Base
<1>1. CASE OtherSteps \/ UNCHANGED vars
  <2>1. UNCHANGED <<procs, h, used, spawned, strayed>>
    BY <1>1, OtherStepIs
  <2> QED
    BY <1>0, <2>1 DEF HeadInv, Placed, Heads, Listed
<1>2. CASE ReapIfUnowned
  BY <1>0, <1>2, HeadReaped
<1>3. ASSUME NEW p \in Pid, Fork(p)
      PROVE  HeadInv'
  BY <1>0, <1>3, HeadFork
<1>4. ASSUME NEW p \in Pid, Exit(p)
      PROVE  HeadInv'
  <2>1. /\ UNCHANGED <<used, spawned, strayed>>
        /\ \E status \in {"ok", "failed", "hup"} :
             procs' \in EndAll(procs, {p}, status) /\ h' = Fates({p}, status)
    BY <1>0, <1>4, ExitIs
  <2>2. PICK status \in {"ok", "failed", "hup"} :
          procs' \in EndAll(procs, {p}, status) /\ h' = Fates({p}, status)
    BY <2>1
  <2>3. status \in Statuses \ {"nil"} /\ status # "killed" /\ {p} \in SUBSET Pid
    BY DEF Statuses
  <2> QED
    BY <1>0, <2>1, <2>2, <2>3, HeadExit
<1>5. ASSUME NEW s \in Session, KillHead(s)
      PROVE  HeadInv'
  <2>1. /\ UNCHANGED <<used, spawned, strayed>>
        /\ h[s].cancelled /\ h[s].pid \in Pid /\ procs[h[s].pid].state = "live"
        /\ procs' \in EndAll(procs, {h[s].pid}, "killed") /\ h' = Fates({h[s].pid}, "killed")
    BY <1>0, <1>5, KillHeadIs
  <2>2. h[s].closing
    <3>1. HeadIs(s, h[s], procs[h[s].pid]) /\ Told(h[s])
      BY DEF HeadInv, Heads
    <3>2. h[s].monitor \in Early
      BY <2>1, <3>1 DEF HeadIs
    <3> QED
      BY <2>1, <3>1, <3>2 DEF Told
  <2>3. \A r \in Session : h[r].pid \in {h[s].pid} => h[r].closing
    <3>1. h[s].pid # 0
      BY <2>1 DEF Pid
    <3> QED
      BY <2>2, <3>1 DEF HeadInv, Placed
  <2>4. "killed" \in Statuses \ {"nil"} /\ {h[s].pid} \in SUBSET Pid
    BY <2>1 DEF Statuses
  <2> QED
    BY <1>0, <2>1, <2>3, <2>4, HeadExit
<1>6. ASSUME NEW s \in Session
      PROVE  /\ HandlerSteps(s) => HeadInv'
             /\ Start(s) => HeadInv'
             /\ Registered(s) => HeadInv'
             /\ CmdWait(s) => HeadInv'
             /\ spawnForget(s) => HeadInv'
             /\ CgroupKill(s) => HeadInv'
             /\ ReapTerm(s) => HeadInv'
             /\ ReapKill(s) => HeadInv'
  BY <1>0, HeadHandler, HeadStart, HeadRegistered, HeadCmdWait, HeadForget, HeadCgroupKill,
     HeadTerm, HeadKill
<1> QED
  BY <1>1, <1>2, <1>3, <1>4, <1>5, <1>6, Steps

LEMMA HeadAlways ==
  ASSUME "recycledPid" \notin Mishaps
  PROVE  Spec => []HeadInv
<1>1. Init => HeadInv
  BY HeadInit
<1>2. HeadInv /\ [Next]_vars => HeadInv'
  BY HeadNext
<1> QED
  BY <1>1, <1>2, PTL DEF Spec

\* While no pid is given out twice, what a session reports of its end is what
\* its head died of: the zombie sweep never takes a head's status before
\* cmd.Wait (zombiereap.go, spawnRegistry), the error is final before Exited is
\* true, and a head that the server killed is not reported as a crash.
THEOREM ExitAlwaysKnown ==
  ASSUME "recycledPid" \notin Mishaps
  PROVE  Spec => []ExitKnown
<1>1. HeadInv => ExitKnown
  <2> SUFFICES ASSUME HeadInv, NEW s \in Session
               PROVE  /\ h[s].werr # "lost"
                      /\ h[s].exited => h[s].exitErr = h[s].fate
                      /\ Crashed(s) => h[s].fate = "failed"
    BY DEF ExitKnown
  <2>1. HeadIs(s, h[s], procs[h[s].pid]) /\ Told(h[s])
    BY DEF HeadInv, Heads
  <2>2. h[s].exited => h[s].exitErr = h[s].fate
    BY <2>1 DEF HeadIs, Told, Early
  <2> QED
    BY <2>1, <2>2 DEF HeadIs, Told, Crashed
<1> QED
  BY <1>1, HeadAlways, PTL

\* While no pid is given out twice, no teardown signals a process of another
\* session's tree, or of the server that started this one (reap.go,
\* envHasMarker): a process has its own session's marker or none, whatever the
\* server inherited and its configuration sets.
THEOREM AlwaysOnlyOwnSignalled ==
  ASSUME "recycledPid" \notin Mishaps
  PROVE  Spec => []OnlyOwnSignalled
<1>1. HeadInv => OnlyOwnSignalled
  BY DEF HeadInv, Listed, OnlyOwnSignalled
<1> QED
  BY <1>1, HeadAlways, PTL

-----------------------------------------------------------------------------
(* What is left of a tree.                                                 *)

Reaping == {"settle", "term", "settled", "kill"}
Closing == {"scan", "ended"} \cup Reaping
Telling == {"exit", "close", "ptmx"} \cup Closing

Torn(x, tree, marked) ==
  /\ x.contain = "removed" => tree = {} /\ x.started
  /\ x.monitor \in Telling => x.contain # "made"
  /\ x.monitor \in Reaping => marked \subseteq x.members
  /\ x.monitor = "ended" => marked = {}
  /\ x.monitor \in {"ptmx"} \cup Closing => x.exited
  /\ x.monitor \in Closing => x.pty = "closed"
  /\ x.done = "closed" => x.monitor = "ended"

Trees == \A s \in Session : Torn(h[s], Tree(s), Marked(s))
TreeInv == Base /\ Trees

LEMMA Stages ==
  \A pc : pc \in {"none", "starting", "wait", "forget", "keep", "cgroup", "cgroupKill"} =>
            pc \notin Telling /\ pc \notin Reaping /\ pc \notin Closing /\ pc # "ended" /\ pc # "ptmx"
BY DEF Telling, Reaping, Closing

LEMMA TreeInit == Init => TreeInv
<1> HAVE Init
<1>0. Base
  BY BaseInit
<1>1. \A s \in Session : h[s].monitor = "none" /\ h[s].contain = "nil" /\ h[s].done = "nil"
  <2>1. Handler0.monitor = "none" /\ Handler0.contain = "nil" /\ Handler0.done = "nil"
    BY Zenon DEF Handler0
  <2> HIDE DEF Handler0
  <2> QED
    BY <2>1 DEF Init
<1>2. Trees
  BY <1>1, Stages DEF Trees, Torn
<1> QED
  BY <1>0, <1>2 DEF TreeInv

LEMMA TornKept ==
  ASSUME NEW x, NEW tree, NEW marked, NEW tree2 \in SUBSET tree, NEW marked2 \in SUBSET marked,
         Torn(x, tree, marked)
  PROVE  Torn(x, tree2, marked2)
BY DEF Torn

\* Whose record is left alone is as torn down as before if its tree did not grow.
LEMMA TreeKept ==
  ASSUME Trees, NEW s \in Session, h'[s] = h[s],
         Tree(s)' \subseteq Tree(s), Marked(s)' \subseteq Marked(s)
  PROVE  Torn(h'[s], Tree(s)', Marked(s)')
BY TornKept DEF Trees

LEMMA Shrunk ==
  ASSUME NEW s \in Session,
         \A p \in Pid : procs'[p].state = "live" =>
           /\ procs[p].state = "live" /\ procs'[p].tree = procs[p].tree
           /\ procs'[p].mark \in {procs[p].mark, NoMark}
  PROVE  Tree(s)' \subseteq Tree(s) /\ Marked(s)' \subseteq Marked(s)
BY ProcessAssumption DEF Tree, Marked, Live, envHasMarker

LEMMA TreeHandler ==
  ASSUME TreeInv, NEW s \in Session, HandlerSteps(s)
  PROVE  Torn(h'[s], Tree(s), Marked(s))
<1>0. /\ h \in [Session -> Handlers] /\ h[s] \in Handlers
      /\ h[s].started <=> h[s].monitor \notin {"none", "starting"}
  BY DEF TreeInv, Base, Typed
<1>t. PICK T : T = Tree(s)
  OBVIOUS
<1>m. PICK M : M = Marked(s)
  OBVIOUS
<1> SUFFICES Torn(h'[s], T, M)
  BY <1>t, <1>m
<1>i. Torn(h[s], T, M)
  BY <1>t, <1>m DEF TreeInv, Trees
<1>1. CASE Close(s)
  BY <1>0, <1>i, <1>1 DEF Close, Closed, Handlers, Torn
<1>2. CASE setExitError(s)
  BY <1>0, <1>i, <1>2 DEF setExitError, At, Handlers, Torn, Telling, Closing, Reaping
<1>3. CASE CgroupDrained(s)
  <2>1. Contained(s) = Tree(s)
    BY DEF Contained, Tree
  <2> QED
    BY <1>0, <1>t, <1>i, <1>3, <2>1 DEF CgroupDrained, At, Handlers, Torn, Telling, Closing, Reaping
<1>4. CASE CgroupTerm(s)
  BY <1>0, <1>i, <1>4 DEF CgroupTerm, To, At, Handlers, Torn, Telling, Closing, Reaping
<1>5. CASE Callback(s)
  BY <1>0, <1>i, <1>5 DEF Callback, OnProcessExit, To, At, Handlers, Torn, Telling, Closing, Reaping
<1>6. CASE AnnounceExit(s)
  BY <1>0, <1>i, <1>6 DEF AnnounceExit, At, Handlers, Torn, Telling, Closing, Reaping
<1>7. CASE ClosePTY(s)
  BY <1>0, <1>i, <1>7 DEF ClosePTY, At, Handlers, Torn, Telling, Closing, Reaping
<1>8. M \in SUBSET Pid
  BY <1>m DEF Marked
<1>9. CASE ReapScan(s)
  BY <1>0, <1>m, <1>8, <1>i, <1>9 DEF ReapScan, ToWith, At, Handlers, Torn, Telling, Closing, Reaping
<1>10. CASE ReapSettled(s)
  BY <1>0, <1>m, <1>8, <1>i, <1>10 DEF ReapSettled, ToWith, At, Handlers, Torn, Telling, Closing, Reaping
<1>11. CASE ReapUnsettled(s)
  BY <1>0, <1>i, <1>11 DEF ReapUnsettled, To, At, Handlers, Torn, Telling, Closing, Reaping
<1>12. CASE ReapGone(s)
  <2>1. h[s].members \cap M = {}
    BY <1>m, <1>12 DEF ReapGone, Remaining
  <2>2. M = {}
    BY <1>i, <1>12, <2>1 DEF ReapGone, At, Torn, Reaping
  <2> QED
    BY <1>0, <1>i, <1>12, <2>2 DEF ReapGone, To, At, Handlers, Torn, Telling, Closing, Reaping
<1>13. CASE ReapStubborn(s)
  BY <1>0, <1>m, <1>8, <1>i, <1>13 DEF ReapStubborn, ToWith, At, Handlers, Torn, Telling, Closing, Reaping
<1>14. CASE LoopsEnd(s)
  BY <1>0, <1>i, <1>14 DEF LoopsEnd, Handlers, Torn
<1>15. CASE DoneCloses(s)
  BY <1>0, <1>i, <1>15 DEF DoneCloses, At, Handlers, Torn
<1> QED
  BY <1>1, <1>2, <1>3, <1>4, <1>5, <1>6, <1>7, <1>9, <1>10, <1>11, <1>12, <1>13, <1>14,
     <1>15 DEF HandlerSteps

\* A child is of its parent's tree, which nobody tears down at the time.
LEMMA TreeFork ==
  ASSUME TreeInv, "teardownFork" \notin Mishaps, NEW p \in Pid, Fork(p), NEW s \in Session
  PROVE  Torn(h'[s], Tree(s)', Marked(s)')
<1>0. Typed /\ Own(procs) /\ Torn(h[s], Tree(s), Marked(s))
  BY DEF TreeInv, Base, Trees
<1> DEFINE r == procs[p].tree
<1>1. /\ UNCHANGED h /\ Live(p) /\ procs[p] \in Entry /\ r \in Session
      /\ \E q \in FreePid, e \in Entry :
           /\ Born(q, e) /\ e.state = "live"
           /\ e.tree = r /\ e.mark \in {procs[p].mark, NoMark}
  BY <1>0, ForkIs
<1>2. PICK q \in FreePid, e \in Entry :
        Born(q, e) /\ e.state = "live" /\ e.tree = r /\ e.mark \in {procs[p].mark, NoMark}
  BY <1>1
<1>3. procs'[q] = e /\ \A t \in Pid : t # q => procs'[t] = procs[t]
  BY <1>0, <1>2, BornIs
<1>4. procs[p].mark \in {r, NoMark}
  BY <1>0, <1>1 DEF Own, Live
<1>5. CASE s # r
  <2>1. Tree(s)' \subseteq Tree(s)
    BY <1>2, <1>3, <1>5 DEF Tree, Live
  <2>2. Marked(s)' \subseteq Marked(s)
    BY <1>2, <1>3, <1>4, <1>5, ProcessAssumption DEF Marked, envHasMarker, Live
  <2> QED
    BY <1>0, <1>1, <2>1, <2>2, TornKept
<1>6. CASE s = r
  <2>1. p \in Tree(s)
    BY <1>1, <1>6 DEF Tree
  <2>2. h[s].contain # "nil" \/ h[s].monitor \notin Reaping \cup {"ended"}
    BY <1>6 DEF Fork, Reaping
  <2>3. h[s].contain # "removed" /\ (h[s].monitor \in Telling => h[s].contain = "nil")
    <3>1. h[s].contain \in {"nil", "made", "removed"}
      BY <1>0 DEF Typed, Handlers
    <3> QED
      BY <1>0, <2>1, <3>1 DEF Torn
  <2>4. h[s].monitor \notin Reaping \cup {"ended"}
    BY <2>2, <2>3 DEF Telling, Closing
  <2> QED
    BY <1>0, <1>1, <2>3, <2>4 DEF Torn
<1> QED
  BY <1>5, <1>6

LEMMA TreeStart ==
  ASSUME TreeInv, NEW s \in Session, Start(s), NEW r \in Session
  PROVE  Torn(h'[r], Tree(r)', Marked(r)')
<1>0. Typed /\ h \in [Session -> Handlers] /\ h[s] \in Handlers /\ used \in Pid
      /\ Torn(h[r], Tree(r), Marked(r)) /\ Torn(h[s], Tree(s), Marked(s))
  BY DEF TreeInv, Base, Trees, Typed
<1>1. /\ ~h[s].started /\ h[s].monitor # "starting"
      /\ \E q \in FreePid, e \in Entry, contain \in {"nil", "made"} :
           /\ Born(q, e) /\ e.state = "live" /\ e.tree = s /\ e.mark = s
           /\ e.parent = Server
           /\ h' = [h EXCEPT ![s] = Begun(@, q, contain)]
  BY <1>0, StartIs
<1>2. PICK q \in FreePid, e \in Entry, contain \in {"nil", "made"} :
        /\ Born(q, e) /\ e.tree = s /\ e.mark = s
        /\ h' = [h EXCEPT ![s] = Begun(@, q, contain)]
  BY <1>1
<1>3. procs'[q] = e /\ \A t \in Pid : t # q => procs'[t] = procs[t]
  <2>1. Born(q, e)
    BY <1>2
  <2> QED
    BY <1>0, <2>1, BornIs
<1>4. CASE r # s
  <2>1. Tree(r)' \subseteq Tree(r)
    BY <1>2, <1>3, <1>4 DEF Tree, Live
  <2>2. Marked(r)' \subseteq Marked(r)
    BY <1>2, <1>3, <1>4 DEF Marked, envHasMarker, Live
  <2>3. h'[r] = h[r]
    BY <1>0, <1>2, <1>4
  <2> QED
    BY <1>0, <2>1, <2>2, <2>3, TornKept
<1>5. CASE r = s
  <2>1. q \in Nat
    BY <1>0, FreePids DEF Pid
  <2>2. h'[s] = Begun(h[s], q, contain)
    BY <1>0, <1>2
  <2>3. h'[s].contain = contain /\ h'[s].monitor = "starting" /\ h'[s].done = h[s].done
    BY <1>0, <2>1, <2>2, BegunIs
  <2>4. h[s].done # "closed"
    BY <1>0, <1>1 DEF Torn, Typed
  <2>5. contain # "removed"
    OBVIOUS
  <2> QED
    BY <1>5, <2>3, <2>4, <2>5, Stages DEF Torn
<1> QED
  BY <1>4, <1>5

LEMMA TreeRegistered ==
  ASSUME TreeInv, NEW s \in Session, Registered(s), NEW r \in Session
  PROVE  Torn(h'[r], Tree(r)', Marked(r)')
<1>0. Typed /\ h \in [Session -> Handlers] /\ h[s] \in Handlers
      /\ Torn(h[r], Tree(r), Marked(r)) /\ Torn(h[s], Tree(s), Marked(s))
      /\ (h[s].started <=> h[s].monitor \notin {"none", "starting"})
  BY DEF TreeInv, Base, Trees, Typed
<1>1. /\ UNCHANGED procs /\ h[s].monitor = "starting"
      /\ h' = [h EXCEPT ![s].started = Yes, ![s].pty = "open", ![s].done = "armed",
                        ![s].loops = Yes, ![s].monitor = "wait"]
  BY <1>0, RegisteredIs
<1>2. Tree(r)' = Tree(r) /\ Marked(r)' = Marked(r)
  BY <1>1 DEF Tree, Marked, Live, envHasMarker
<1>3. CASE r # s
  BY <1>0, <1>1, <1>2, <1>3
<1>4. CASE r = s
  <2>1. h'[s].monitor = "wait" /\ h'[s].done = "armed" /\ h'[s].contain = h[s].contain
    BY <1>0, <1>1 DEF Handlers
  <2>2. h[s].contain # "removed"
    BY <1>0, <1>1 DEF Torn
  <2> QED
    BY <1>4, <2>1, <2>2, Stages DEF Torn
<1> QED
  BY <1>3, <1>4

\* A step that only moves a monitor that is not telling yet.
LEMMA TreeEarly ==
  ASSUME TreeInv, h' \in [Session -> Handlers], NEW s \in Session, NEW r \in Session,
         \A t \in Session : t # s => h'[t] = h[t],
         h[s].monitor \in {"wait", "forget"}, h'[s].monitor \in {"forget", "keep"},
         h'[s].started = h[s].started, h'[s].contain = h[s].contain, h'[s].done = h[s].done,
         Tree(r)' \subseteq Tree(r), Marked(r)' \subseteq Marked(r)
  PROVE  Torn(h'[r], Tree(r)', Marked(r)')
<1>0. Torn(h[r], Tree(r), Marked(r))
  BY DEF TreeInv, Trees
<1>1. Torn(h[r], Tree(r)', Marked(r)')
  BY <1>0, TornKept
<1>2. CASE r # s
  BY <1>1, <1>2
<1>3. CASE r = s
  <2>1. h[s].done # "closed"
    BY <1>0, <1>3 DEF Torn
  <2> QED
    BY <1>1, <1>3, <2>1, Stages DEF Torn
<1> QED
  BY <1>2, <1>3

LEMMA TreeCmdWait ==
  ASSUME TreeInv, NEW s \in Session, CmdWait(s), NEW r \in Session
  PROVE  Torn(h'[r], Tree(r)', Marked(r)')
<1>0. Typed /\ h \in [Session -> Handlers] /\ h[s] \in Handlers
  BY DEF TreeInv, Base, Typed
<1>1. /\ h' \in [Session -> Handlers] /\ h[s].monitor = "wait" /\ h[s].pid \in Pid
      /\ UNCHANGED procs \/ Reaped(h[s].pid)
      /\ \E err : h' = [h EXCEPT ![s].werr = err, ![s].monitor = "forget"]
  BY <1>0, CmdWaitIs
<1>2. /\ \A t \in Session : t # s => h'[t] = h[t]
      /\ h'[s].monitor = "forget" /\ h'[s].started = h[s].started
      /\ h'[s].contain = h[s].contain /\ h'[s].done = h[s].done
  BY <1>0, <1>1 DEF Handlers
<1>3. \A p \in Pid : procs'[p] \in {procs[p], NoProcess}
  BY <1>0, <1>1, ReapedIs
<1>4. Tree(r)' \subseteq Tree(r) /\ Marked(r)' \subseteq Marked(r)
  BY <1>3, Shrunk, Entries
<1> QED
  BY <1>1, <1>2, <1>4, TreeEarly

LEMMA TreeForget ==
  ASSUME TreeInv, NEW s \in Session, spawnForget(s), NEW r \in Session
  PROVE  Torn(h'[r], Tree(r)', Marked(r)')
<1>0. Typed /\ h \in [Session -> Handlers] /\ h[s] \in Handlers
  BY DEF TreeInv, Base, Typed
<1>1. /\ h' \in [Session -> Handlers] /\ UNCHANGED procs
      /\ h[s].monitor = "forget" /\ h' = [h EXCEPT ![s].monitor = "keep"]
  BY <1>0, ForgetIs
<1>2. /\ \A t \in Session : t # s => h'[t] = h[t]
      /\ h'[s].monitor = "keep" /\ h'[s].started = h[s].started
      /\ h'[s].contain = h[s].contain /\ h'[s].done = h[s].done
  BY <1>0, <1>1 DEF Handlers
<1>3. Tree(r)' \subseteq Tree(r) /\ Marked(r)' \subseteq Marked(r)
  BY <1>1 DEF Tree, Marked, Live, envHasMarker
<1> QED
  BY <1>1, <1>2, <1>3, TreeEarly

\* Processes that end take nobody's tree further.
LEMMA EndedShrinks ==
  ASSUME procs \in Table, NEW dying \in SUBSET Pid, NEW status \in Statuses,
         procs' \in EndAll(procs, dying, status), NEW s \in Session
  PROVE  /\ Tree(s)' \subseteq Tree(s) \ dying
         /\ Marked(s)' \subseteq Marked(s) \ dying
<1>1. Ended(procs, dying, status, procs')
  BY EndAllIs
<1>2. \A p \in Pid : procs'[p].state = "live" =>
        /\ procs[p].state = "live" /\ p \notin dying /\ procs'[p].tree = procs[p].tree
        /\ procs'[p].mark \in {procs[p].mark, NoMark}
  BY <1>1 DEF Ended
<1>3. Tree(s)' \subseteq Tree(s) /\ Marked(s)' \subseteq Marked(s)
  BY <1>2, Shrunk
<1>4. \A p \in Tree(s)' \cup Marked(s)' : p \notin dying
  BY <1>2 DEF Tree, Marked, Live
<1> QED
  BY <1>3, <1>4

LEMMA TreeEnd ==
  ASSUME TreeInv, NEW dying \in SUBSET Pid, NEW status \in Statuses,
         procs' \in EndAll(procs, dying, status), h' = Fates(dying, status),
         NEW s \in Session
  PROVE  Torn(h'[s], Tree(s)', Marked(s)')
<1>0. Typed /\ procs \in Table /\ Torn(h[s], Tree(s), Marked(s))
  BY DEF TreeInv, Base, Trees, Typed
<1>1. Torn(h[s], Tree(s)', Marked(s)')
  BY <1>0, EndedShrinks, TornKept
<1>2. /\ h'[s].monitor = h[s].monitor /\ h'[s].started = h[s].started
      /\ h'[s].pty = h[s].pty /\ h'[s].contain = h[s].contain /\ h'[s].members = h[s].members
      /\ h'[s].exited = h[s].exited /\ h'[s].done = h[s].done
  BY <1>0, FatesPlaced
<1> QED
  BY <1>1, <1>2 DEF Torn

LEMMA TreeCgroupKill ==
  ASSUME TreeInv, NEW s \in Session, CgroupKill(s), NEW r \in Session
  PROVE  Torn(h'[r], Tree(r)', Marked(r)')
<1>0. Typed /\ h \in [Session -> Handlers] /\ h[s] \in Handlers /\ procs \in Table
      /\ Torn(h[r], Tree(r), Marked(r)) /\ Torn(h[s], Tree(s), Marked(s))
      /\ (h[s].started <=> h[s].monitor \notin {"none", "starting"})
  BY DEF TreeInv, Base, Trees, Typed
<1>1. /\ h[s].monitor = "cgroupKill" /\ procs' \in EndAll(procs, Tree(s), "killed")
      /\ h' = [h EXCEPT ![s].contain = "removed", ![s].monitor = "exit"]
  BY <1>0, CgroupKillIs
<1>2. Tree(s) \in SUBSET Pid /\ "killed" \in Statuses
  BY DEF Tree, Statuses
<1>3. /\ Tree(r)' \subseteq Tree(r) \ Tree(s)
      /\ Marked(r)' \subseteq Marked(r)
  BY <1>0, <1>1, <1>2, EndedShrinks
<1>4. CASE r # s
  <2>1. h'[r] = h[r] /\ Tree(r)' \subseteq Tree(r)
    BY <1>0, <1>1, <1>3, <1>4
  <2> QED
    BY <1>0, <1>3, <2>1, TornKept
<1>5. CASE r = s
  <2>1. /\ h'[s].monitor = "exit" /\ h'[s].contain = "removed"
        /\ h'[s].started = h[s].started /\ h'[s].done = h[s].done
    BY <1>0, <1>1 DEF Handlers
  <2>2. Tree(s)' = {} /\ h[s].started /\ h[s].done # "closed"
    BY <1>0, <1>1, <1>3, <1>5 DEF Torn
  <2> QED
    BY <1>5, <2>1, <2>2 DEF Torn, Closing, Reaping
<1> QED
  BY <1>4, <1>5

LEMMA TreeTerm ==
  ASSUME TreeInv, NEW s \in Session, ReapTerm(s), NEW r \in Session
  PROVE  Torn(h'[r], Tree(r)', Marked(r)')
<1>0. Typed /\ h \in [Session -> Handlers] /\ h[s] \in Handlers
      /\ Torn(h[r], Tree(r), Marked(r))
  BY DEF TreeInv, Base, Trees, Typed
<1>1. UNCHANGED procs /\ h[s].monitor = "term" /\ h' = [h EXCEPT ![s].monitor = "settled"]
  BY <1>0, ReapTermIs
<1>2. Torn(h[r], Tree(r)', Marked(r)')
  <2>1. Tree(r)' = Tree(r) /\ Marked(r)' = Marked(r)
    BY <1>1 DEF Tree, Marked, Live, envHasMarker
  <2> QED
    BY <1>0, <2>1
<1>3. CASE r # s
  BY <1>0, <1>1, <1>2, <1>3
<1>4. CASE r = s
  <2>1. /\ h'[s].monitor = "settled" /\ h'[s].contain = h[s].contain
        /\ h'[s].started = h[s].started /\ h'[s].done = h[s].done /\ h'[s].pty = h[s].pty
        /\ h'[s].exited = h[s].exited /\ h'[s].members = h[s].members
    BY <1>0, <1>1 DEF Handlers
  <2> QED
    BY <1>1, <1>2, <1>4, <2>1 DEF Torn, Telling, Closing, Reaping
<1> QED
  BY <1>3, <1>4

LEMMA TreeKill ==
  ASSUME TreeInv, NEW s \in Session, ReapKill(s), NEW r \in Session
  PROVE  Torn(h'[r], Tree(r)', Marked(r)')
<1>0. Typed /\ procs \in Table /\ h[s] \in Handlers
      /\ Torn(h[r], Tree(r), Marked(r)) /\ Torn(h[s], Tree(s), Marked(s))
  BY DEF TreeInv, Base, Trees, Typed
<1> DEFINE dying == h[s].members
<1>1. /\ h[s].monitor = "kill" /\ dying \in SUBSET Pid
      /\ procs' \in EndAll(procs, dying, "killed")
      /\ \E g \in [Session -> Handlers] :
           g = Fates(dying, "killed") /\ h' = [g EXCEPT ![s].monitor = "ended"]
  BY <1>0, ReapKillIs
<1>2. Marked(s) \subseteq dying
  BY <1>0, <1>1 DEF Torn, Reaping
<1> HIDE DEF dying
<1>3. PICK g \in [Session -> Handlers] :
        g = Fates(dying, "killed") /\ h' = [g EXCEPT ![s].monitor = "ended"]
  BY <1>1
<1>4. "killed" \in Statuses
  BY DEF Statuses
<1>5. /\ g[r].monitor = h[r].monitor /\ g[r].started = h[r].started
      /\ g[r].pty = h[r].pty /\ g[r].contain = h[r].contain /\ g[r].members = h[r].members
      /\ g[r].exited = h[r].exited /\ g[r].done = h[r].done
  BY <1>0, <1>3, <1>4, FatesPlaced
<1>6. /\ Tree(r)' \subseteq Tree(r) \ dying
      /\ Marked(r)' \subseteq Marked(r) \ dying
  BY <1>0, <1>1, <1>4, EndedShrinks
<1>7. Torn(h[r], Tree(r)', Marked(r)')
  <2>1. Tree(r)' \subseteq Tree(r) /\ Marked(r)' \subseteq Marked(r)
    BY <1>6
  <2> QED
    BY <1>0, <2>1, TornKept
<1>8. CASE r # s
  <2>1. h'[r] = g[r]
    BY <1>3, <1>8
  <2> QED
    BY <1>5, <1>7, <2>1 DEF Torn
<1>9. CASE r = s
  <2>1. /\ h'[s].monitor = "ended" /\ h'[s].started = g[s].started
        /\ h'[s].pty = g[s].pty /\ h'[s].contain = g[s].contain /\ h'[s].exited = g[s].exited
    BY <1>3 DEF Handlers
  <2>2. Marked(s)' = {}
    BY <1>2, <1>6, <1>9
  <2> QED
    BY <1>1, <1>5, <1>7, <1>9, <2>1, <2>2 DEF Torn, Telling, Closing, Reaping
<1> QED
  BY <1>8, <1>9

LEMMA TreeNext ==
  ASSUME TreeInv, "teardownFork" \notin Mishaps, [Next]_vars
  PROVE  TreeInv'
<1>0. Typed /\ Base'
  BY BaseNext DEF TreeInv, Base
<1> SUFFICES ASSUME NEW r \in Session PROVE Torn(h'[r], Tree(r)', Marked(r)')
  BY <1>0 DEF TreeInv, Trees
<1>i. Trees /\ procs \in Table /\ h \in [Session -> Handlers]
  BY DEF TreeInv, Base, Typed
<1>1. CASE OtherSteps \/ UNCHANGED vars
  <2>1. UNCHANGED <<procs, h>>
    BY <1>1, OtherStepIs
  <2>2. Tree(r)' = Tree(r) /\ Marked(r)' = Marked(r)
    BY <2>1 DEF Tree, Marked, Live, envHasMarker
  <2> QED
    BY <1>i, <2>1, <2>2 DEF Trees
<1>2. CASE ReapIfUnowned
  <2>1. UNCHANGED h /\ (UNCHANGED procs \/ \E p \in Pid : Reaped(p))
    BY <1>0, <1>2, ReapIfUnownedIs
  <2>2. \A p \in Pid : procs'[p] \in {procs[p], NoProcess}
    BY <1>0, <2>1, ReapedIs
  <2>3. Tree(r)' \subseteq Tree(r) /\ Marked(r)' \subseteq Marked(r)
    BY <2>2, Shrunk, Entries
  <2> QED
    BY <1>i, <2>1, <2>3, TreeKept
<1>3. ASSUME NEW p \in Pid, Fork(p)
      PROVE  Torn(h'[r], Tree(r)', Marked(r)')
  BY <1>3, TreeFork
<1>4. ASSUME NEW p \in Pid, Exit(p)
      PROVE  Torn(h'[r], Tree(r)', Marked(r)')
  <2>1. PICK status \in {"ok", "failed", "hup"} :
          procs' \in EndAll(procs, {p}, status) /\ h' = Fates({p}, status)
    BY <1>0, <1>4, ExitIs
  <2>2. status \in Statuses /\ {p} \in SUBSET Pid
    BY DEF Statuses
  <2> QED
    BY <2>1, <2>2, TreeEnd
<1>5. ASSUME NEW s \in Session, KillHead(s)
      PROVE  Torn(h'[r], Tree(r)', Marked(r)')
  <2>1. /\ h[s].pid \in Pid
        /\ procs' \in EndAll(procs, {h[s].pid}, "killed") /\ h' = Fates({h[s].pid}, "killed")
    BY <1>0, <1>5, KillHeadIs
  <2>2. "killed" \in Statuses /\ {h[s].pid} \in SUBSET Pid
    BY <2>1 DEF Statuses
  <2> QED
    BY <2>1, <2>2, TreeEnd
<1>6. ASSUME NEW s \in Session, HandlerSteps(s)
      PROVE  Torn(h'[r], Tree(r)', Marked(r)')
  <2>1. UNCHANGED procs /\ \A t \in Session : t # s => h'[t] = h[t]
    BY <1>0, <1>6, HandlerStepIs
  <2>2. Tree(r)' = Tree(r) /\ Marked(r)' = Marked(r)
    BY <2>1 DEF Tree, Marked, Live, envHasMarker
  <2>3. CASE r = s
    BY <1>6, <2>2, <2>3, TreeHandler
  <2>4. CASE r # s
    BY <1>i, <2>1, <2>2, <2>4 DEF Trees
  <2> QED
    BY <2>3, <2>4
<1>7. ASSUME NEW s \in Session
      PROVE  /\ Start(s) => Torn(h'[r], Tree(r)', Marked(r)')
             /\ Registered(s) => Torn(h'[r], Tree(r)', Marked(r)')
             /\ CmdWait(s) => Torn(h'[r], Tree(r)', Marked(r)')
             /\ spawnForget(s) => Torn(h'[r], Tree(r)', Marked(r)')
             /\ CgroupKill(s) => Torn(h'[r], Tree(r)', Marked(r)')
             /\ ReapTerm(s) => Torn(h'[r], Tree(r)', Marked(r)')
             /\ ReapKill(s) => Torn(h'[r], Tree(r)', Marked(r)')
  BY TreeStart, TreeRegistered, TreeCmdWait, TreeForget, TreeCgroupKill, TreeTerm, TreeKill
<1> QED
  BY <1>1, <1>2, <1>3, <1>4, <1>5, <1>6, <1>7, Steps

\* Where no uncontained tree forks behind its first marker scan, when h.done
\* closes nothing of the session runs but what scrubbed its environment where no
\* cgroup held it (terminal.go, Shutdown; reap.go:31-41), and the PTY is closed
\* and the exit announced by then; pids may be given out again.
THEOREM TreeAlwaysGone ==
  ASSUME "teardownFork" \notin Mishaps
  PROVE  Spec => []TreeGone
<1>1. Init => TreeInv
  BY TreeInit
<1>2. TreeInv /\ [Next]_vars => TreeInv'
  BY TreeNext
<1>3. TreeInv => TreeGone
  <2> SUFFICES ASSUME TreeInv, NEW s \in Session, h[s].done = "closed"
               PROVE  /\ Tree(s) \subseteq (IF h[s].contain = "removed" THEN {} ELSE Escaped(s))
                      /\ h[s].pty = "closed" /\ h[s].exited
    BY DEF TreeGone
  <2>1. Torn(h[s], Tree(s), Marked(s)) /\ Own(procs)
    BY DEF TreeInv, Trees, Base
  <2>2. h[s].monitor = "ended" /\ Marked(s) = {} /\ h[s].pty = "closed" /\ h[s].exited
    BY <2>1 DEF Torn, Closing
  <2>3. Tree(s) \subseteq Escaped(s)
    BY <2>1, <2>2 DEF Own, Tree, Escaped, Marked, Live, envHasMarker
  <2> QED
    BY <2>1, <2>2, <2>3 DEF Torn
<1> QED
  BY <1>1, <1>2, <1>3, PTL DEF Spec

=============================================================================
