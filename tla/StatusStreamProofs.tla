------------------------- MODULE StatusStreamProofs -------------------------
(***************************************************************************)
(* Proofs about StatusStream, for any sessions, strips and connections:    *)
(* the event that carries a turn's end shows it; a latch is kept until the *)
(* program speaks against it; a strip is given every notification at most  *)
(* once; and when all has been said it shows what the server has.          *)
(***************************************************************************)
EXTENDS StatusStream, FiniteSetTheorems, SequenceTheorems, TLAPS

\* What a sweep reads of a handler.
Outcome == {"running", "exited", "crashed"}
Screens == [state : Int, pct : Int, seq : Nat, class : Class \cup {NoClass}]
Sessions ==
  /\ order \in Seq(Session)
  /\ screen \in [Session -> Screens]
  /\ outcome \in [Session -> Outcome]

\* A sweep reads trackers that are there, and only the sweep takes them away.
Phases ==
  /\ sweep.at = "listed" => sweep.todo \subseteq Session \cap DOMAIN tracker
  /\ sweep.at = "read" =>
       /\ DOMAIN sweep.read \subseteq Session \cap DOMAIN tracker
       /\ \A id \in DOMAIN sweep.read :
            sweep.read[id].seq \in Nat /\ sweep.read[id].outcome \in Outcome

\* What has been classified has been delivered: a notification that is new to
\* the subscribers is new to the classifier.
Cursors ==
  \A id \in DOMAIN tracker :
    /\ tracker[id].seen \in Nat /\ tracker[id].delivered \in Nat
    /\ tracker[id].seen <= tracker[id].delivered

\* The events under way, as a sequence of such that show their turn's end.
Good(out) == {ev \in ToSet(out) : ShowsTurnEnd(ev)}
Outgoing  == sweep.out \in Seq(Good(sweep.out))

IInv == Sessions /\ Phases /\ Cursors /\ Outgoing

-----------------------------------------------------------------------------
LEMMA GoodSeq ==
  ASSUME NEW out, NEW S, out \in Seq(S), \A ev \in S : ShowsTurnEnd(ev)
  PROVE  out \in Seq(Good(out))
<1>1. \A i \in 1 .. Len(out) : out[i] \in Good(out)
  BY DEF Good, ToSet
<1> QED
  BY <1>1

LEMMA GoodTail ==
  ASSUME NEW out, out \in Seq(Good(out)), out # <<>>
  PROVE  Tail(out) \in Seq(Good(Tail(out)))
<1>1. Tail(out) \in Seq(Good(out))
  OBVIOUS
<1>2. \A ev \in Good(out) : ShowsTurnEnd(ev)
  BY DEF Good
<1> QED
  BY <1>1, <1>2, GoodSeq

\* The event of a notification that is new shows its class: nothing read with
\* it can clear a latch just set.
LEMMA EventShows ==
  ASSUME NEW id, NEW tr, NEW r, tr.seen \in Nat, tr.delivered \in Nat, r.seq \in Nat,
         tr.seen <= tr.delivered, r.outcome \in Outcome
  PROVE  ShowsTurnEnd(Event(id, tr, r))
<1> DEFINE ev == Event(id, tr, r)
<1>1. CASE r.outcome # "running"
  <2>1. ComputeStatus(tr, r).status = r.outcome
    BY <1>1 DEF ComputeStatus
  <2>2. ev.face.status = r.outcome
    BY <2>1 DEF Event, Face
  <2>3. QED
    BY <1>1, <2>2 DEF ShowsTurnEnd, Outcome
<1>2. CASE r.outcome = "running" /\ NotifNew(tr, r) /\ r.class # NoClass
  <2>1. FreshLatch(tr, r)
    BY <1>2 DEF FreshLatch, NotifNew
  <2>2. ComputeStatus(tr, r).status = r.class
    BY <1>2, <2>1 DEF ComputeStatus
  <2>3. ev.face.status = r.class /\ ev.class = r.class
    BY <1>2, <2>2 DEF Event, Face
  <2>4. QED
    BY <2>3 DEF ShowsTurnEnd
<1>3. CASE ~NotifNew(tr, r) \/ r.class = NoClass
  BY <1>3 DEF Event, ShowsTurnEnd
<1> QED
  BY <1>1, <1>2, <1>3

LEMMA RememberCursors ==
  ASSUME NEW id, NEW tr, NEW r, tr.seen \in Nat, tr.delivered \in Nat, r.seq \in Nat,
         tr.seen <= tr.delivered
  PROVE  LET new == Remember(id, tr, r)
         IN new.seen \in Nat /\ new.delivered \in Nat /\ new.seen <= new.delivered
BY DEF Remember, Delivered, NotifNew

LEMMA Arranged ==
  ASSUME NEW S, IsFiniteSet(S), NEW s \in SetToSeqs(S)
  PROVE  \E n \in Nat : s \in [1 .. n -> S]
<1>1. Cardinality(S) \in Nat
  BY FS_CardinalityType
<1>2. s \in [1 .. Cardinality(S) -> S]
  BY DEF SetToSeqs
<1> QED
  BY <1>1, <1>2

\* What phase 3 sends.
LEMMA EventsGood ==
  ASSUME IInv, sweep.at = "read", IsFiniteSet(Session), DOMAIN tracker \subseteq Session,
         NEW new \in SetToSeqs(News), NEW gone \in SetToSeqs(Lost)
  PROVE  Events(new, gone) \in Seq(Good(Events(new, gone)))
<1> DEFINE X == {Event(id, tracker[id], sweep.read[id]) : id \in News}
           Y == {Removed(id) : id \in Lost}
           A == [i \in DOMAIN new |-> Event(new[i], tracker[new[i]], sweep.read[new[i]])]
           B == [i \in DOMAIN gone |-> Removed(gone[i])]
<1>1. News \subseteq Session /\ Lost \subseteq Session
  BY DEF IInv, Phases, News, Kept, Lost
<1>2. IsFiniteSet(News) /\ IsFiniteSet(Lost)
  BY <1>1, FS_Subset
<1>3. PICK n \in Nat : new \in [1 .. n -> News]
  BY <1>2, Arranged
<1>4. PICK k \in Nat : gone \in [1 .. k -> Lost]
  BY <1>2, Arranged
<1>5. A \in Seq(X)
  <2>1. \A i \in 1 .. n : A[i] \in X
    BY <1>3
  <2> QED
    BY <1>3, <2>1
<1>6. B \in Seq(Y)
  <2>1. \A i \in 1 .. k : B[i] \in Y
    BY <1>4
  <2> QED
    BY <1>4, <2>1
<1>7. \A ev \in X : ShowsTurnEnd(ev)
  <2> SUFFICES ASSUME NEW id \in News
               PROVE  ShowsTurnEnd(Event(id, tracker[id], sweep.read[id]))
    OBVIOUS
  <2>1. id \in DOMAIN tracker /\ id \in DOMAIN sweep.read
    BY DEF IInv, Phases, News, Kept
  <2> QED
    BY <2>1, EventShows DEF IInv, Phases, Cursors
<1>8. \A ev \in Y : ShowsTurnEnd(ev)
  BY DEF Removed, ShowsTurnEnd
<1>9. A \o B \in Seq(X \cup Y)
  <2>1. A \in Seq(X \cup Y) /\ B \in Seq(X \cup Y)
    BY <1>5, <1>6
  <2> QED
    BY <2>1
<1>10. Events(new, gone) = A \o B
  BY DEF Events
<1> HIDE DEF A, B, X, Y
<1>11. \A ev \in X \cup Y : ShowsTurnEnd(ev)
  BY <1>7, <1>8
<1>12. A \o B \in Seq(Good(A \o B))
  BY <1>9, <1>11, GoodSeq
<1> QED
  BY <1>10, <1>12

-----------------------------------------------------------------------------
\* Trackers are of sessions: needed for their number to be finite.
Tracked == DOMAIN tracker \subseteq Session

LEMMA Starts == Init => IInv /\ Tracked
<1> SUFFICES ASSUME Init PROVE IInv /\ Tracked
  OBVIOUS
<1>1. Sessions
  <2>1. QuietScreen \in Screens
    BY DEF QuietScreen, Screens, Absent
  <2>2. order \in Seq(Session)
    BY DEF Init
  <2> QED
    BY <2>1, <2>2 DEF Init, Sessions, Outcome
<1>2. Phases /\ Cursors /\ Tracked
  BY DEF Init, Phases, Cursors, IdleSweep, Tracked
<1>3. sweep.out \in Seq({})
  BY DEF Init, IdleSweep
<1>4. Outgoing
  BY <1>3, GoodSeq DEF Outgoing
<1> QED
  BY <1>1, <1>2, <1>4 DEF IInv

\* No sweep step: only the sessions' own types are at stake.
LEMMA Undisturbed ==
  ASSUME IInv, Tracked, UNCHANGED <<tracker, sweep>>, Sessions'
  PROVE  IInv' /\ Tracked'
BY DEF IInv, Tracked, Phases, Cursors, Outgoing, Good

LEMMA LiveSessions ==
  ASSUME order \in Seq(Session)
  PROVE  Live \subseteq Session
BY DEF Live, ToSet

LEMMA CloseKeeps ==
  ASSUME order \in Seq(Session), NEW id \in Live
  PROVE  RemoveAt(order, Rank(id) + 1) \in Seq(Session)
<1> DEFINE i == CHOOSE j \in DOMAIN order : order[j] = id
<1>1. i \in 1 .. Len(order)
  BY DEF Live, ToSet
<1>2. Rank(id) + 1 = i
  BY <1>1 DEF Rank
<1> HIDE DEF i
<1>3. SubSeq(order, 1, i - 1) \in Seq(Session) /\ SubSeq(order, i + 1, Len(order)) \in Seq(Session)
  BY <1>1
<1>4. RemoveAt(order, i) = SubSeq(order, 1, i - 1) \o SubSeq(order, i + 1, Len(order))
  BY DEF RemoveAt
<1>5. RemoveAt(order, i) \in Seq(Session)
  BY <1>3, <1>4
<1> QED
  BY <1>2, <1>5

LEMMA SessionsStep ==
  ASSUME IInv, StatusAssumption,
         NEW id \in Session, Child(id) \/ User(id)
  PROVE  Sessions' /\ UNCHANGED <<tracker, sweep>>
<1> USE DEF Sessions
<1>0. order \in Seq(Session) /\ screen \in [Session -> Screens]
      /\ outcome \in [Session -> Outcome]
  BY DEF IInv
<1>1. ASSUME NEW p \in Reported, Report(id, p)
      PROVE  Sessions' /\ UNCHANGED <<tracker, sweep>>
  <2>1. p[1] \in Int /\ p[2] \in Int
    BY DEF StatusAssumption, Absent
  <2> QED
    BY <1>0, <1>1, <2>1 DEF Report, Change, Screens
<1>2. ASSUME NEW class \in Class \cup {NoClass}, Notify(id, class)
      PROVE  Sessions' /\ UNCHANGED <<tracker, sweep>>
  <2>1. screen[id] \in Screens /\ screen[id].seq + 1 \in Nat
    BY <1>0 DEF Screens
  <2>2. screen' = [screen EXCEPT ![id] = [screen[id] EXCEPT !.seq = screen[id].seq + 1,
                                                            !.class = class]]
    BY <1>2 DEF Notify
  <2>3. [screen[id] EXCEPT !.seq = screen[id].seq + 1, !.class = class] \in Screens
    BY <2>1 DEF Screens
  <2> QED
    BY <1>0, <1>2, <2>2, <2>3 DEF Notify, Change
<1>3. ASSUME NEW how \in {"exited", "crashed"}, Exit(id, how)
      PROVE  Sessions' /\ UNCHANGED <<tracker, sweep>>
  BY <1>0, <1>3 DEF Exit, Change, Outcome
<1>4. CASE Create(id)
  BY <1>0, <1>4 DEF Create, Change
<1>5. CASE Close(id)
  BY <1>0, <1>5, CloseKeeps DEF Close, Change
<1>6. ASSUME NEW n \in Name, SetSessionPinnedTitle(id, n)
      PROVE  Sessions' /\ UNCHANGED <<tracker, sweep>>
  BY <1>0, <1>6 DEF SetSessionPinnedTitle, Change
<1> QED
  BY <1>1, <1>2, <1>3, <1>4, <1>5, <1>6 DEF Child, User

LEMMA SweepKeeps ==
  ASSUME IInv, Tracked, StatusAssumption, Sweep
  PROVE  IInv' /\ Tracked'
<1>0. Live \subseteq Session /\ order \in Seq(Session)
      /\ screen \in [Session -> Screens] /\ outcome \in [Session -> Outcome]
  BY LiveSessions DEF IInv, Sessions
<1>1. Sessions'
  BY DEF IInv, Sessions, Sweep, SweepBegin, SweepRead, SweepDiff, Broadcast, sessionVars
<1>2. ASSUME sweep'.out = <<>> PROVE Outgoing'
  <2>1. sweep'.out \in Seq({})
    BY <1>2
  <2> QED
    BY <2>1, GoodSeq DEF Outgoing
<1>3. CASE SweepBegin
  <2>1. Phases' /\ Tracked' /\ sweep'.out = <<>>
    BY <1>0, <1>3 DEF SweepBegin, Phases, Tracked
  <2>2. Cursors'
    <3>1. tracker' = [id \in DOMAIN tracker \cup Live |-> TrackerOf(id)]
      BY <1>3 DEF SweepBegin
    <3>2. \A id : /\ TrackerOf(id).seen \in Nat /\ TrackerOf(id).delivered \in Nat
                  /\ TrackerOf(id).seen <= TrackerOf(id).delivered
      BY DEF IInv, Cursors, TrackerOf, NewTracker
    <3> QED
      BY <3>1, <3>2, Zenon DEF Cursors
  <2> QED
    BY <1>1, <1>2, <2>1, <2>2 DEF IInv
<1>4. CASE SweepRead
  <2>1. tracker' = tracker /\ sweep'.out = <<>>
    BY <1>4 DEF SweepRead
  <2>2. Phases'
    <3>1. sweep.todo \subseteq Session \cap DOMAIN tracker
      BY <1>4 DEF SweepRead, IInv, Phases
    <3>2. \A id \in Session : Reading(id).seq \in Nat /\ Reading(id).outcome \in Outcome
      BY <1>0 DEF Reading, Screens
    <3> QED
      BY <1>4, <2>1, <3>1, <3>2 DEF SweepRead, Phases
  <2> QED
    BY <1>1, <1>2, <2>1, <2>2 DEF IInv, Cursors, Tracked
<1>5. CASE SweepDiff
  <2>1. Tracked'
    BY <1>5 DEF SweepDiff, Tracked
  <2>2. Phases'
    BY <1>5 DEF SweepDiff, Phases, IdleSweep
  <2>3. Cursors'
    <3> SUFFICES ASSUME NEW id \in DOMAIN tracker \ Lost
                 PROVE  /\ tracker'[id].seen \in Nat /\ tracker'[id].delivered \in Nat
                        /\ tracker'[id].seen <= tracker'[id].delivered
      BY <1>5 DEF SweepDiff, Cursors
    <3>1. CASE id \in Kept
      <4>1. /\ tracker[id].seen \in Nat /\ tracker[id].delivered \in Nat
            /\ tracker[id].seen <= tracker[id].delivered
            /\ sweep.read[id].seq \in Nat
        BY <1>5, <3>1 DEF SweepDiff, IInv, Phases, Cursors, Kept
      <4>2. tracker'[id] = Remember(id, tracker[id], sweep.read[id])
        BY <1>5, <3>1 DEF SweepDiff
      <4> QED
        BY <4>1, <4>2, RememberCursors
    <3>2. CASE id \notin Kept
      BY <1>5, <3>2 DEF SweepDiff, IInv, Cursors
    <3> QED
      BY <3>1, <3>2
  <2>4. Outgoing'
    <3>1. PICK new \in SetToSeqs(News), gone \in SetToSeqs(Lost) :
            sweep' = IF News \cup Lost = {} THEN IdleSweep
                     ELSE [at |-> "sending", todo |-> {}, read |-> <<>>, out |-> Events(new, gone)]
      BY <1>5 DEF SweepDiff
    <3>2. CASE News \cup Lost = {}
      BY <1>2, <3>1, <3>2 DEF IdleSweep
    <3>3. CASE News \cup Lost # {}
      <4>1. sweep'.out = Events(new, gone)
        BY <3>1, <3>3
      <4>2. Events(new, gone) \in Seq(Good(Events(new, gone)))
        BY <1>5, EventsGood DEF SweepDiff, StatusAssumption, Tracked
      <4> QED
        BY <4>1, <4>2 DEF Outgoing
    <3> QED
      BY <3>2, <3>3
  <2> QED
    BY <1>1, <2>1, <2>2, <2>3, <2>4 DEF IInv
<1>6. CASE Broadcast
  <2>1. tracker' = tracker /\ sweep'.at \in {"idle", "sending"}
    BY <1>6 DEF Broadcast, IdleSweep
  <2>2. Outgoing'
    <3>1. CASE Len(sweep.out) = 1
      BY <1>2, <1>6, <3>1 DEF Broadcast, IdleSweep
    <3>2. CASE Len(sweep.out) # 1 /\ sweep.out # <<>>
      <4>1. sweep'.out = Tail(sweep.out)
        BY <1>6, <3>2 DEF Broadcast
      <4> QED
        BY <3>2, <4>1, GoodTail DEF IInv, Outgoing
    <3> QED
      BY <1>6, <3>1, <3>2 DEF Broadcast
  <2> QED
    BY <1>1, <2>1, <2>2 DEF IInv, Phases, Cursors, Tracked
<1> QED
  BY <1>3, <1>4, <1>5, <1>6 DEF Sweep

\* A connection changes neither the sessions nor the sweep.
LEMMA ServeQuiet ==
  ASSUME NEW c, Serve(c)
  PROVE  UNCHANGED <<sessionVars, tracker, sweep>>
<1>1. CASE SnapTable(c)
  <2>1. UNCHANGED <<sessionVars, tracker, sweep, subs, queue, stripVars>>
    BY <1>1, Zenon DEF SnapTable
  <2> QED
    BY <2>1
<1>2. CASE WriteSnapshot(c)
  BY <1>2 DEF WriteSnapshot
<1>3. CASE Stream(c)
  BY <1>3 DEF Stream
<1>4. CASE Return(c)
  BY <1>4 DEF Return
<1> QED
  BY <1>1, <1>2, <1>3, <1>4 DEF Serve

LEMMA Steps == IInv /\ Tracked /\ [Next]_vars => (IInv /\ Tracked)'
<1> SUFFICES ASSUME IInv, Tracked, [Next]_vars
             PROVE  (IInv /\ Tracked)'
  OBVIOUS
<1> USE StatusAssumption
<1>1. ASSUME NEW id \in Session, Child(id) \/ User(id)
      PROVE  (IInv /\ Tracked)'
  BY <1>1, SessionsStep, Undisturbed
<1>2. ASSUME NEW ids \in Arrangement, SetSessionOrder(ids)
      PROVE  (IInv /\ Tracked)'
  <2>1. ids \in Seq(Session)
    BY FS_CardinalityType DEF Arrangement, StatusAssumption
  <2>2. Sessions' /\ UNCHANGED <<tracker, sweep>>
    BY <1>2, <2>1 DEF SetSessionOrder, Change, IInv, Sessions
  <2> QED
    BY <2>2, Undisturbed
<1>3. CASE Sweep
  BY <1>3, SweepKeeps
<1>4. ASSUME NEW c \in Conn, Serve(c)
      PROVE  (IInv /\ Tracked)'
  <2>1. UNCHANGED <<sessionVars, tracker, sweep>>
    BY <1>4, ServeQuiet
  <2> QED
    BY <2>1, Undisturbed DEF sessionVars, IInv, Sessions
<1>5. ASSUME NEW t \in Strip, Connect(t) \/ Lose(t)
      PROVE  (IInv /\ Tracked)'
  <2>1. UNCHANGED <<sessionVars, tracker, sweep>>
    BY <1>5 DEF Connect, Subscribe, Lose
  <2> QED
    BY <2>1, Undisturbed DEF sessionVars, IInv, Sessions
<1>6. CASE UNCHANGED vars
  BY <1>6, Undisturbed DEF vars, sessionVars, IInv, Sessions
<1> QED
  BY <1>1, <1>2, <1>3, <1>4, <1>5, <1>6 DEF Next

\* A turn's end is shown by the event that carries it, for every classifier,
\* every program and every interleaving of sweep, children and requests: the
\* precedence of a fresh latch over progress in computeStatus.
THEOREM TurnEndAlwaysShown == Spec => []TurnEndShown
<1>1. IInv => TurnEndShown
  BY DEF IInv, Outgoing, Good, TurnEndShown
<1> QED
  BY <1>1, Starts, Steps, PTL DEF Spec

-----------------------------------------------------------------------------
(* The latch.                                                              *)

\* The classifier's cursor follows what was read, and what was read follows
\* the screen.
Behind ==
  /\ owed \in [Session -> Class \cup {NoClass}]
  /\ \A id \in DOMAIN tracker : tracker[id].seen <= screen[id].seq
  /\ sweep.at = "read" =>
       \A id \in DOMAIN sweep.read :
         /\ tracker[id].seen <= sweep.read[id].seq /\ sweep.read[id].seq <= screen[id].seq
         /\ outcome[id] = "running" => sweep.read[id].outcome = "running"

\* What a sweep has read of the latest notification does not speak against it.
ReadAgrees(id) ==
  sweep.at = "read" /\ id \in DOMAIN sweep.read /\ sweep.read[id].seq = screen[id].seq =>
    sweep.read[id].class = owed[id] /\ sweep.read[id].state \notin Contrary

\* A tracker that has seen the latest notification holds its latch.
Latches ==
  \A id \in Session : owed[id] # NoClass =>
    /\ screen[id].class = owed[id] /\ screen[id].seq > 0
    /\ screen[id].state \notin Contrary
    /\ outcome[id] = "running" =>
         /\ ReadAgrees(id)
         /\ id \in DOMAIN tracker /\ tracker[id].seen = screen[id].seq =>
              tracker[id].latched = owed[id]

LatchIInv == IInv /\ Tracked /\ Behind /\ Latches

\* No sweep step and the handler's screen as it was.
LEMMA LatchUndisturbed ==
  ASSUME LatchIInv, UNCHANGED <<tracker, sweep, screen, owed>>,
         \A id \in Session : outcome'[id] = "running" => outcome[id] = "running"
  PROVE  Behind' /\ Latches'
<1>0. /\ DOMAIN tracker \subseteq Session
      /\ sweep.at = "read" => DOMAIN sweep.read \subseteq Session
  BY DEF LatchIInv, Tracked, IInv, Phases
<1>1. Behind'
  BY <1>0 DEF LatchIInv, Behind
<1>2. \A id \in Session : ReadAgrees(id)' <=> ReadAgrees(id)
  BY DEF ReadAgrees
<1>3. Latches'
  BY <1>2 DEF LatchIInv, Latches
<1> QED
  BY <1>1, <1>3

LEMMA ReportLatch ==
  ASSUME LatchIInv, StatusAssumption, NEW id \in Session, NEW p \in Reported, Report(id, p)
  PROVE  Behind' /\ Latches'
<1>0. /\ screen \in [Session -> Screens] /\ owed \in [Session -> Class \cup {NoClass}]
      /\ tracker' = tracker /\ sweep' = sweep /\ outcome' = outcome
      /\ DOMAIN tracker \subseteq Session
      /\ sweep.at = "read" => DOMAIN sweep.read \subseteq Session
  BY DEF LatchIInv, IInv, Sessions, Behind, Report, Change, Tracked, Phases
<1>1. \A i \in Session : screen'[i].seq = screen[i].seq /\ screen'[i].class = screen[i].class
  BY <1>0 DEF Report, Screens
<1>2. \A i \in Session : i # id => screen'[i] = screen[i] /\ owed'[i] = owed[i]
  BY <1>0 DEF Report
<1>3. /\ screen'[id].state = p[1]
      /\ owed'[id] = IF p[1] \in Contrary THEN NoClass ELSE owed[id]
  BY <1>0 DEF Report, Screens
<1>4. Behind'
  <2>1. owed' \in [Session -> Class \cup {NoClass}]
    BY <1>0 DEF Report
  <2> QED
    BY <1>0, <1>1, <2>1 DEF LatchIInv, Behind
<1>5. Latches'
  <2> SUFFICES ASSUME NEW i \in Session, owed'[i] # NoClass
               PROVE  /\ screen'[i].class = owed'[i] /\ screen'[i].seq > 0
                      /\ screen'[i].state \notin Contrary
                      /\ outcome'[i] = "running" =>
                           /\ ReadAgrees(i)'
                           /\ i \in DOMAIN tracker' /\ tracker'[i].seen = screen'[i].seq =>
                                tracker'[i].latched = owed'[i]
    BY DEF Latches
  <2>1. owed'[i] = owed[i] /\ screen'[i].state \notin Contrary
    BY <1>2, <1>3 DEF LatchIInv, Latches
  <2> QED
    BY <1>0, <1>1, <2>1 DEF LatchIInv, Latches, ReadAgrees
<1> QED
  BY <1>4, <1>5

LEMMA NotifyLatch ==
  ASSUME LatchIInv, StatusAssumption, NEW id \in Session, NEW class \in Class \cup {NoClass},
         Notify(id, class)
  PROVE  Behind' /\ Latches'
<1>0. /\ screen \in [Session -> Screens] /\ owed \in [Session -> Class \cup {NoClass}]
      /\ outcome \in [Session -> Outcome]
      /\ tracker' = tracker /\ sweep' = sweep /\ outcome' = outcome
      /\ DOMAIN tracker \subseteq Session
      /\ sweep.at = "read" => DOMAIN sweep.read \subseteq Session
  BY DEF LatchIInv, IInv, Sessions, Behind, Notify, Change, Tracked, Phases
<1>1. \A i \in Session : i # id => screen'[i] = screen[i] /\ owed'[i] = owed[i]
  BY <1>0 DEF Notify
<1>2. /\ screen'[id].seq = screen[id].seq + 1 /\ screen'[id].class = class
      /\ screen'[id].state = screen[id].state
      /\ owed'[id] = IF screen[id].state \in Contrary THEN NoClass ELSE class
  BY <1>0 DEF Notify, Screens
<1>3. screen[id].seq \in Nat
  BY <1>0 DEF Screens
<1>4. id \in DOMAIN tracker =>
        /\ tracker[id].seen \in Nat /\ tracker[id].seen <= screen[id].seq
        /\ tracker[id].seen # screen[id].seq + 1
  <2>1. id \in DOMAIN tracker => tracker[id].seen \in Nat /\ tracker[id].seen <= screen[id].seq
    BY DEF LatchIInv, IInv, Cursors, Behind
  <2> QED
    BY <1>3, <2>1
<1>5. sweep.at = "read" /\ id \in DOMAIN sweep.read =>
        /\ sweep.read[id].seq \in Nat /\ sweep.read[id].seq <= screen[id].seq
        /\ sweep.read[id].seq # screen[id].seq + 1
  <2>1. sweep.at = "read" /\ id \in DOMAIN sweep.read =>
          sweep.read[id].seq \in Nat /\ sweep.read[id].seq <= screen[id].seq
    BY DEF LatchIInv, IInv, Phases, Behind
  <2> QED
    BY <1>3, <2>1
<1>6. Behind'
  <2>1. owed' \in [Session -> Class \cup {NoClass}]
    <3>1. (IF screen[id].state \in Contrary THEN NoClass ELSE class) \in Class \cup {NoClass}
      OBVIOUS
    <3> QED
      BY <1>0, <3>1 DEF Notify
  <2>2. \A i \in DOMAIN tracker : tracker[i].seen <= screen'[i].seq
    <3> SUFFICES ASSUME NEW i \in DOMAIN tracker PROVE tracker[i].seen <= screen'[i].seq
      OBVIOUS
    <3>1. CASE i = id
      BY <1>2, <1>3, <1>4, <3>1
    <3>2. CASE i # id
      <4>1. i \in Session /\ tracker[i].seen <= screen[i].seq
        BY <1>0 DEF LatchIInv, Behind
      <4> QED
        BY <1>1, <3>2, <4>1
    <3> QED
      BY <3>1, <3>2
  <2>3. sweep.at = "read" =>
          \A i \in DOMAIN sweep.read :
            /\ tracker[i].seen <= sweep.read[i].seq /\ sweep.read[i].seq <= screen'[i].seq
            /\ outcome[i] = "running" => sweep.read[i].outcome = "running"
    <3> SUFFICES ASSUME sweep.at = "read", NEW i \in DOMAIN sweep.read
                 PROVE  tracker[i].seen <= sweep.read[i].seq /\ sweep.read[i].seq <= screen'[i].seq
      BY DEF LatchIInv, Behind
    <3>0. tracker[i].seen <= sweep.read[i].seq /\ sweep.read[i].seq <= screen[i].seq
      BY DEF LatchIInv, Behind
    <3>1. CASE i = id
      BY <1>2, <1>3, <1>5, <3>0, <3>1
    <3>2. CASE i # id
      BY <1>0, <1>1, <3>0, <3>2
    <3> QED
      BY <3>1, <3>2
  <2> QED
    BY <1>0, <2>1, <2>2, <2>3 DEF Behind
<1>7. Latches'
  <2> SUFFICES ASSUME NEW i \in Session, owed'[i] # NoClass
               PROVE  /\ screen'[i].class = owed'[i] /\ screen'[i].seq > 0
                      /\ screen'[i].state \notin Contrary
                      /\ outcome'[i] = "running" =>
                           /\ ReadAgrees(i)'
                           /\ i \in DOMAIN tracker' /\ tracker'[i].seen = screen'[i].seq =>
                                tracker'[i].latched = owed'[i]
    BY DEF Latches
  <2>1. CASE i # id
    BY <1>0, <1>1, <2>1 DEF LatchIInv, Latches, ReadAgrees
  <2>2. CASE i = id
    <3>1. owed'[id] = class /\ screen[id].state \notin Contrary
      BY <1>2, <2>2
    <3>2. screen'[id].seq > 0
      BY <1>2, <1>3
    <3>3. outcome[id] = "running" => ReadAgrees(id)'
      BY <1>0, <1>2, <1>5 DEF ReadAgrees
    <3> QED
      BY <1>0, <1>2, <1>4, <2>2, <3>1, <3>2, <3>3
  <2> QED
    BY <2>1, <2>2
<1> QED
  BY <1>6, <1>7

\* Of the states that do not speak against a latch only a pause shows, and it
\* leaves the latch alone.
LEMMA OnlyPause ==
  ASSUME NEW tr, NEW r, NEW latched, latched # NoClass, r.state \notin Contrary
  PROVE  ~Overrides(tr, r, latched)
BY DEF Overrides, ProgressStatus, Contrary, ProgressSupersedesLatch

\* Phase 3: a tracker that has just caught up with the latest notification
\* takes its latch, and what was read with it does not clear it.
LEMMA RememberLatch ==
  ASSUME NEW id, NEW tr, NEW r, NEW class, NEW seq \in Nat,
         tr.seen \in Nat, r.seq \in Nat, r.outcome \in Outcome, class # NoClass,
         tr.seen <= r.seq, r.seq <= seq,
         r.outcome = "running",
         tr.seen = seq => tr.latched = class,
         r.seq = seq => r.class = class /\ r.state \notin Contrary
  PROVE  Remember(id, tr, r).seen = seq => Remember(id, tr, r).latched = class
<1> SUFFICES ASSUME Remember(id, tr, r).seen = seq
             PROVE  Remember(id, tr, r).latched = class
  OBVIOUS
<1>1. r.seq = seq
  BY DEF Remember
<1>2. r.class = class /\ r.state \notin Contrary
  BY <1>1
<1>3. (IF FreshLatch(tr, r) THEN r.class ELSE tr.latched) = class
  <2>1. CASE r.seq > tr.seen
    BY <1>2, <2>1 DEF FreshLatch
  <2>2. CASE ~(r.seq > tr.seen)
    <3>1. tr.seen = seq
      BY <1>1, <2>2
    <3> QED
      BY <2>2, <3>1 DEF FreshLatch
  <2> QED
    BY <2>1, <2>2
<1>4. ~Overrides(tr, r, class)
  BY <1>2, OnlyPause
<1>5. ComputeStatus(tr, r).latched = class
  BY <1>3, <1>4 DEF ComputeStatus
<1> QED
  BY <1>5 DEF Remember

LEMMA RememberSeen ==
  ASSUME NEW id, NEW tr, NEW r, tr.seen \in Nat, r.seq \in Nat, tr.seen <= r.seq
  PROVE  Remember(id, tr, r).seen <= r.seq
BY DEF Remember

LEMMA BeginLatch ==
  ASSUME LatchIInv, SweepBegin
  PROVE  Behind' /\ Latches'
<1>0. /\ screen \in [Session -> Screens] /\ Live \subseteq Session
      /\ DOMAIN tracker \subseteq Session
      /\ screen' = screen /\ owed' = owed /\ outcome' = outcome /\ sweep'.at = "listed"
  BY LiveSessions DEF LatchIInv, IInv, Sessions, Tracked, SweepBegin, sessionVars
<1>1. tracker' = [id \in DOMAIN tracker \cup Live |-> TrackerOf(id)]
  BY DEF SweepBegin
<1>2. ASSUME NEW id \in DOMAIN tracker'
      PROVE  tracker'[id].seen = 0 \/ (id \in DOMAIN tracker /\ tracker'[id] = tracker[id])
  <2>1. tracker'[id] = TrackerOf(id)
    BY <1>1
  <2>2. CASE id \in DOMAIN tracker
    BY <2>1, <2>2 DEF TrackerOf
  <2>3. CASE id \notin DOMAIN tracker
    <3>1. NewTracker.seen = 0
      BY DEF NewTracker
    <3>2. TrackerOf(id).seen = 0
      BY <2>3, <3>1 DEF TrackerOf
    <3> QED
      BY <2>1, <3>2
  <2> QED
    BY <2>2, <2>3
<1>3. \A id \in Session : screen[id].seq \in Nat /\ 0 <= screen[id].seq
  BY <1>0 DEF Screens
<1>4. DOMAIN tracker' \subseteq Session
  BY <1>0, <1>1
<1>5. Behind'
  BY <1>0, <1>2, <1>3, <1>4 DEF LatchIInv, Behind
<1>6. Latches'
  <2>1. \A id \in Session : owed[id] # NoClass => screen[id].seq # 0
    BY <1>3 DEF LatchIInv, Latches
  <2> QED
    BY <1>0, <1>2, <2>1 DEF LatchIInv, Latches, ReadAgrees
<1> QED
  BY <1>5, <1>6

LEMMA ReadLatch ==
  ASSUME LatchIInv, SweepRead
  PROVE  Behind' /\ Latches'
<1>0. /\ screen' = screen /\ owed' = owed /\ outcome' = outcome /\ tracker' = tracker
      /\ sweep.todo \subseteq Session \cap DOMAIN tracker
      /\ sweep'.read = [id \in sweep.todo |-> Reading(id)]
  BY DEF SweepRead, sessionVars, LatchIInv, IInv, Phases
<1>1. \A id \in DOMAIN sweep'.read :
        /\ id \in Session /\ id \in DOMAIN tracker
        /\ sweep'.read[id].seq = screen[id].seq /\ sweep'.read[id].class = screen[id].class
        /\ sweep'.read[id].state = screen[id].state /\ sweep'.read[id].outcome = outcome[id]
  BY <1>0 DEF Reading
<1>2. \A id \in DOMAIN sweep'.read : screen[id].seq <= screen[id].seq
  BY <1>1 DEF LatchIInv, IInv, Sessions, Screens
<1>3. Behind'
  BY <1>0, <1>1, <1>2 DEF LatchIInv, Behind
<1>4. Latches'
  BY <1>0, <1>1 DEF LatchIInv, Latches, ReadAgrees
<1> QED
  BY <1>3, <1>4

LEMMA DiffLatch ==
  ASSUME LatchIInv, SweepDiff
  PROVE  Behind' /\ Latches'
<1>0. /\ screen' = screen /\ owed' = owed /\ outcome' = outcome /\ sweep.at = "read"
      /\ sweep'.at # "read" /\ screen \in [Session -> Screens]
      /\ tracker' = [id \in DOMAIN tracker \ Lost |->
                       IF id \in Kept THEN Remember(id, tracker[id], sweep.read[id])
                       ELSE tracker[id]]
      /\ DOMAIN tracker \subseteq Session
  BY DEF SweepDiff, sessionVars, LatchIInv, IInv, Sessions, Tracked, IdleSweep
<1>1. ASSUME NEW id \in DOMAIN tracker'
      PROVE  /\ id \in Session /\ id \in DOMAIN tracker /\ screen[id].seq \in Nat
             /\ tracker[id].seen \in Nat /\ tracker[id].seen <= screen[id].seq
             /\ \/ tracker'[id] = tracker[id]
                \/ id \in Kept /\ tracker'[id] = Remember(id, tracker[id], sweep.read[id])
  <2>1. id \in Session /\ id \in DOMAIN tracker
    BY <1>0
  <2>2. screen[id].seq \in Nat
    BY <1>0, <2>1 DEF Screens
  <2>3. tracker[id].seen \in Nat /\ tracker[id].seen <= screen[id].seq
    BY <2>1 DEF LatchIInv, IInv, Cursors, Behind
  <2> QED
    BY <1>0, <2>1, <2>2, <2>3
<1>2. ASSUME NEW id \in Kept
      PROVE  /\ sweep.read[id].seq \in Nat /\ sweep.read[id].outcome \in Outcome
             /\ tracker[id].seen <= sweep.read[id].seq
             /\ sweep.read[id].seq <= screen[id].seq
             /\ outcome[id] = "running" => sweep.read[id].outcome = "running"
  <2>1. id \in DOMAIN sweep.read
    BY DEF Kept
  <2> QED
    BY <1>0, <2>1 DEF LatchIInv, IInv, Phases, Behind
<1>3. Behind'
  <2>1. ASSUME NEW id \in DOMAIN tracker'
        PROVE  tracker'[id].seen <= screen'[id].seq
    <3>1. CASE tracker'[id] = tracker[id]
      BY <1>0, <1>1, <3>1
    <3>2. CASE id \in Kept /\ tracker'[id] = Remember(id, tracker[id], sweep.read[id])
      <4>1. PICK n : n = tracker'[id].seen
        OBVIOUS
      <4>2. n <= sweep.read[id].seq
        BY <1>1, <1>2, <3>2, <4>1, RememberSeen
      <4>3. n \in Nat
        BY <1>1, <1>2, <3>2, <4>1 DEF Remember
      <4>4. n <= screen[id].seq
        BY <1>1, <1>2, <3>2, <4>2, <4>3
      <4> QED
        BY <1>0, <4>1, <4>4
    <3> QED
      BY <1>1, <3>1, <3>2
  <2> QED
    BY <1>0, <2>1 DEF LatchIInv, Behind
<1>4. Latches'
  <2> SUFFICES ASSUME NEW id \in Session, owed[id] # NoClass, outcome[id] = "running",
                      id \in DOMAIN tracker', tracker'[id].seen = screen[id].seq
               PROVE  tracker'[id].latched = owed[id]
    BY <1>0 DEF LatchIInv, Latches, ReadAgrees
  <2>1. tracker[id].seen = screen[id].seq => tracker[id].latched = owed[id]
    BY <1>1 DEF LatchIInv, Latches
  <2>2. CASE tracker'[id] = tracker[id]
    BY <2>1, <2>2
  <2>3. CASE id \in Kept /\ tracker'[id] = Remember(id, tracker[id], sweep.read[id])
    <3>1. id \in DOMAIN sweep.read
      BY <2>3 DEF Kept
    <3>2. sweep.read[id].seq = screen[id].seq =>
            sweep.read[id].class = owed[id] /\ sweep.read[id].state \notin Contrary
      BY <1>0, <3>1 DEF LatchIInv, Latches, ReadAgrees
    <3>3. PICK tr : tr = tracker[id]
      OBVIOUS
    <3>4. PICK r : r = sweep.read[id]
      OBVIOUS
    <3>5. PICK class : class = owed[id]
      OBVIOUS
    <3>6. PICK seq : seq = screen[id].seq
      OBVIOUS
    <3>7. /\ seq \in Nat /\ tr.seen \in Nat /\ class # NoClass
          /\ tr.seen = seq => tr.latched = class
      BY <1>1, <2>1, <3>3, <3>5, <3>6
    <3>8. /\ r.seq \in Nat /\ r.outcome \in Outcome /\ tr.seen <= r.seq /\ r.seq <= seq
          /\ r.outcome = "running"
      BY <1>2, <2>3, <3>3, <3>4, <3>6
    <3>9. r.seq = seq => r.class = class /\ r.state \notin Contrary
      BY <3>2, <3>4, <3>5, <3>6
    <3>10. Remember(id, tr, r).seen = seq => Remember(id, tr, r).latched = class
      BY <3>7, <3>8, <3>9, RememberLatch
    <3> QED
      BY <2>3, <3>3, <3>4, <3>5, <3>6, <3>10
  <2> QED
    BY <1>1, <2>2, <2>3
<1> QED
  BY <1>3, <1>4

LEMMA LatchSteps == LatchIInv /\ [Next]_vars => LatchIInv'
<1> SUFFICES ASSUME LatchIInv, [Next]_vars
             PROVE  Behind' /\ Latches'
  BY Steps DEF LatchIInv
<1> USE StatusAssumption
<1>1. ASSUME NEW id \in Session, Child(id) \/ User(id)
      PROVE  Behind' /\ Latches'
  <2>1. ASSUME NEW how \in {"exited", "crashed"}, Exit(id, how)
        PROVE  Behind' /\ Latches'
    <3>1. UNCHANGED <<tracker, sweep, screen, owed>>
      BY <2>1 DEF Exit, Change
    <3>2. \A i \in Session : outcome'[i] = "running" => outcome[i] = "running"
      BY <2>1 DEF Exit, LatchIInv, IInv, Sessions
    <3> QED
      BY <3>1, <3>2, LatchUndisturbed
  <2>2. CASE User(id)
    <3>1. UNCHANGED <<tracker, sweep, screen, owed, outcome>>
      BY <2>2 DEF User, Create, Close, SetSessionPinnedTitle, Change
    <3> QED
      BY <3>1, LatchUndisturbed
  <2> QED
    BY <1>1, <2>1, <2>2, ReportLatch, NotifyLatch DEF Child
<1>2. ASSUME NEW ids \in Arrangement, SetSessionOrder(ids)
      PROVE  Behind' /\ Latches'
  <2>1. UNCHANGED <<tracker, sweep, screen, owed, outcome>>
    BY <1>2 DEF SetSessionOrder, Change
  <2> QED
    BY <2>1, LatchUndisturbed
<1>3. CASE Sweep
  <2>1. CASE Broadcast
    <3>1. UNCHANGED <<tracker, screen, owed, outcome>>
      BY <2>1 DEF Broadcast, sessionVars
    <3>2. sweep.at # "read" /\ sweep'.at # "read"
      BY <2>1 DEF Broadcast, IdleSweep
    <3>3. Behind'
      BY <3>1, <3>2 DEF LatchIInv, Behind
    <3>4. \A i \in Session : ReadAgrees(i)'
      BY <3>2 DEF ReadAgrees
    <3>5. Latches'
      BY <3>1, <3>4 DEF LatchIInv, Latches
    <3> QED
      BY <3>3, <3>5
  <2>2. CASE SweepBegin
    BY <2>2, BeginLatch
  <2>3. CASE SweepRead
    BY <2>3, ReadLatch
  <2>4. CASE SweepDiff
    BY <2>4, DiffLatch
  <2> QED
    BY <1>3, <2>1, <2>2, <2>3, <2>4 DEF Sweep
<1>4. ASSUME NEW c \in Conn, Serve(c)
      PROVE  Behind' /\ Latches'
  <2>1. UNCHANGED <<sessionVars, tracker, sweep>>
    BY <1>4, ServeQuiet
  <2> QED
    BY <2>1, LatchUndisturbed DEF sessionVars
<1>5. ASSUME NEW t \in Strip, Connect(t) \/ Lose(t)
      PROVE  Behind' /\ Latches'
  <2>1. UNCHANGED <<sessionVars, tracker, sweep>>
    BY <1>5 DEF Connect, Subscribe, Lose
  <2> QED
    BY <2>1, LatchUndisturbed DEF sessionVars
<1>6. CASE UNCHANGED vars
  BY <1>6, LatchUndisturbed DEF vars, sessionVars
<1> QED
  BY <1>1, <1>2, <1>3, <1>4, <1>5, <1>6 DEF Next

LEMMA LatchStarts == Init => LatchIInv
<1> SUFFICES ASSUME Init PROVE Behind /\ Latches
  BY Starts DEF LatchIInv
<1>1. owed = [id \in Session |-> NoClass] /\ tracker = <<>> /\ sweep.at # "read"
  BY DEF Init, IdleSweep
<1> QED
  BY <1>1 DEF Behind, Latches

\* With nothing new to read, the strip's face of a session is that of its latch.
LEMMA LatchShows ==
  ASSUME NEW tr, NEW r, NEW class, tr.seen \in Nat, r.seq \in Nat, class # NoClass,
         r.outcome = "running", tr.seen <= r.seq, r.class = class, r.state \notin Contrary,
         tr.seen = r.seq => tr.latched = class
  PROVE  ComputeStatus(tr, r).status = class
<1>1. (IF FreshLatch(tr, r) THEN r.class ELSE tr.latched) = class
  <2>1. CASE r.seq > tr.seen
    BY <2>1 DEF FreshLatch
  <2>2. CASE ~(r.seq > tr.seen)
    <3>1. tr.seen = r.seq
      BY <2>2
    <3> QED
      BY <2>2, <3>1 DEF FreshLatch
  <2> QED
    BY <2>1, <2>2
<1>2. ~Overrides(tr, r, class)
  BY OnlyPause
<1> QED
  BY <1>1, <1>2 DEF ComputeStatus

\* "Done" and "needs input" stay in view until the program says otherwise,
\* whatever the sweep has read when, and whichever notifications came in one
\* sweep: a tracker whose cursor is at the latest notification holds its latch
\* (progressSupersedesLatch, computeStatus).
THEOREM LatchAlwaysKept == Spec => []LatchKept
<1>1. LatchIInv => LatchKept
  <2> SUFFICES ASSUME LatchIInv, NEW id \in Live, owed[id] # NoClass, outcome[id] = "running"
               PROVE  Truth[id].status = owed[id]
    BY DEF LatchKept
  <2> DEFINE tr == TrackerOf(id)
             r  == Reading(id)
  <2>0. id \in Session /\ screen \in [Session -> Screens]
    BY LiveSessions DEF LatchIInv, IInv, Sessions
  <2>1. /\ r.seq = screen[id].seq /\ r.class = screen[id].class
        /\ r.state = screen[id].state /\ r.outcome = "running" /\ screen[id].seq \in Nat
    BY <2>0 DEF Reading, Screens
  <2>2. /\ r.class = owed[id] /\ screen[id].seq > 0 /\ r.state \notin Contrary
        /\ id \in DOMAIN tracker /\ tracker[id].seen = screen[id].seq =>
             tracker[id].latched = owed[id]
    BY <2>0, <2>1 DEF LatchIInv, Latches
  <2>3. tr.seen \in Nat /\ tr.seen <= r.seq /\ (tr.seen = r.seq => tr.latched = owed[id])
    <3>1. CASE id \in DOMAIN tracker
      <4>1. tr = tracker[id]
        BY <3>1 DEF TrackerOf
      <4> QED
        BY <2>1, <2>2, <3>1, <4>1 DEF LatchIInv, IInv, Cursors, Behind
    <3>2. CASE id \notin DOMAIN tracker
      <4>1. tr.seen = 0
        BY <3>2 DEF TrackerOf, NewTracker
      <4> QED
        BY <2>1, <2>2, <4>1
    <3> QED
      BY <3>1, <3>2
  <2> HIDE DEF tr, r
  <2>4. ComputeStatus(tr, r).status = owed[id]
    BY <2>1, <2>2, <2>3, LatchShows
  <2> QED
    BY <2>4 DEF tr, r, Truth, Face
<1> QED
  BY <1>1, LatchStarts, LatchSteps, PTL DEF Spec

-----------------------------------------------------------------------------
(* Notifications, each once and in order.                                  *)

\* A sequence of events, whose notes are numbers.
Noted(q) == q \in Seq(ToSet(q)) /\ \A i \in DOMAIN q : q[i].note \in Nat
\* No two events of one session; notes of one session rise; those of one
\* sequence lie below those of another.
Once(q)    == \A i, j \in DOMAIN q : i # j => q[i].id # q[j].id
Rising(q)  == \A i, j \in DOMAIN q :
                i < j /\ q[i].id = q[j].id /\ q[j].note > 0 => q[i].note < q[j].note
Below(p, q) == \A i \in DOMAIN p, j \in DOMAIN q :
                 p[i].id = q[j].id /\ q[j].note > 0 => p[i].note < q[j].note
HeardBelow(t, q) == \A i \in DOMAIN q :
                      q[i].id \in DOMAIN heard[t] /\ q[i].note > 0 =>
                        heard[t][q[i].id] < q[i].note

\* A number no later note of the session can have: its tracker is past it, or
\* there is no tracker any more and never will be.
PastOf(tr, dead, id, n) == IF id \in DOMAIN tr THEN n <= tr[id].delivered ELSE id \in dead
Past(id, n) == PastOf(tracker, born \ Live, id, n)

Table == Live \subseteq born /\ DOMAIN tracker \subseteq born
Mail  == /\ Noted(sweep.out) /\ Once(sweep.out)
         /\ sweep.at # "sending" => sweep.out = <<>>
Channels ==
  /\ DOMAIN queue = Conn /\ DOMAIN stage = Conn
  /\ \A t \in Strip : conn[t] # NoConn => conn[t] \in Conn
  /\ \A c \in Conn : /\ Noted(queue[c]) /\ Rising(queue[c])
                     /\ stage[c] = "free" => queue[c] = <<>> /\ c \notin subs
AllPast ==
  /\ \A k \in DOMAIN sweep.out : Past(sweep.out[k].id, sweep.out[k].note)
  /\ \A c \in Conn : \A i \in DOMAIN queue[c] : Past(queue[c][i].id, queue[c][i].note)
  /\ \A t \in Strip : \A id \in DOMAIN heard[t] : heard[t][id] \in Nat /\ Past(id, heard[t][id])
InOrder ==
  /\ \A c \in Conn : Below(queue[c], sweep.out)
  /\ \A t \in Strip : /\ HeardBelow(t, sweep.out)
                      /\ conn[t] # NoConn => HeardBelow(t, queue[conn[t]])

NoteIInv == IInv /\ Tracked /\ Table /\ Mail /\ Channels /\ AllPast /\ InOrder

LEMMA OwnSeq ==
  ASSUME NEW q, NEW S, q \in Seq(S)
  PROVE  q \in Seq(ToSet(q))
<1>1. \A i \in 1 .. Len(q) : q[i] \in ToSet(q)
  BY DEF ToSet
<1> QED
  BY <1>1

LEMMA TailIs ==
  ASSUME NEW q, Noted(q), q # <<>>
  PROVE  /\ Noted(Tail(q)) /\ 1 \in DOMAIN q /\ Head(q) = q[1]
         /\ \A i \in DOMAIN Tail(q) : /\ i \in Nat /\ 1 < i + 1 /\ i + 1 \in DOMAIN q
                                      /\ Tail(q)[i] = q[i + 1]
         /\ \A i, j \in DOMAIN Tail(q) : (i < j => i + 1 < j + 1) /\ (i # j => i + 1 # j + 1)
<1>1. q \in Seq(ToSet(q)) /\ \A i \in DOMAIN q : q[i].note \in Nat
  BY DEF Noted
<1>2. /\ Tail(q) \in Seq(ToSet(q)) /\ 1 \in DOMAIN q /\ Head(q) = q[1]
      /\ \A i \in DOMAIN Tail(q) : /\ i \in Nat /\ 1 < i + 1 /\ i + 1 \in DOMAIN q
                                   /\ Tail(q)[i] = q[i + 1]
  BY <1>1
<1>3. Noted(Tail(q))
  BY <1>1, <1>2, OwnSeq DEF Noted
<1>4. \A i, j \in DOMAIN Tail(q) : (i < j => i + 1 < j + 1) /\ (i # j => i + 1 # j + 1)
  BY <1>2
<1> QED
  BY <1>2, <1>3, <1>4

LEMMA TailOfOne ==
  ASSUME NEW S, NEW s \in Seq(S), Len(s) = 1
  PROVE  Tail(s) = <<>>
<1>1. Tail(s) \in Seq(S) /\ Len(Tail(s)) = 0
  OBVIOUS
<1> QED
  BY <1>1, EmptySeq

LEMMA AppendIs ==
  ASSUME NEW q, NEW e, Noted(q), e.note \in Nat
  PROVE  /\ Noted(Append(q, e))
         /\ \A i \in DOMAIN Append(q, e) :
              \/ i \in DOMAIN q /\ Append(q, e)[i] = q[i]
              \/ Append(q, e)[i] = e /\ \A j \in DOMAIN Append(q, e) : ~(i < j)
         /\ \A i, j \in DOMAIN Append(q, e) : i < j => i \in DOMAIN q
<1>1. q \in Seq(ToSet(q)) /\ Len(q) \in Nat /\ DOMAIN q = 1 .. Len(q)
  BY DEF Noted
<1>2. q \in Seq(ToSet(q) \cup {e})
  BY <1>1
<1>3. /\ Append(q, e) \in Seq(ToSet(q) \cup {e})
      /\ DOMAIN Append(q, e) = 1 .. Len(q) + 1
      /\ \A i \in 1 .. Len(q) : Append(q, e)[i] = q[i]
      /\ Append(q, e)[Len(q) + 1] = e
  BY <1>1, <1>2
<1>4. \A i \in DOMAIN Append(q, e) :
        \/ i \in DOMAIN q /\ Append(q, e)[i] = q[i]
        \/ Append(q, e)[i] = e /\ \A j \in DOMAIN Append(q, e) : ~(i < j)
  BY <1>1, <1>3
<1>5. \A i, j \in DOMAIN Append(q, e) : i < j => i \in DOMAIN q
  BY <1>1, <1>3
<1>6. Noted(Append(q, e))
  <2>1. Append(q, e) \in Seq(ToSet(Append(q, e)))
    BY <1>3, OwnSeq
  <2>2. \A i \in DOMAIN Append(q, e) : Append(q, e)[i].note \in Nat
    BY <1>4 DEF Noted
  <2> QED
    BY <2>1, <2>2 DEF Noted
<1> QED
  BY <1>4, <1>5, <1>6

\* What has been given out stays given out.
LEMMA CreateTable ==
  ASSUME order \in Seq(Session), Table, NEW id \in Session, Create(id)
  PROVE  /\ Table' /\ \A i : i \in born \ Live => i \in born' \ Live'
         /\ tracker' = tracker
<1>1. order' = Append(order, id) /\ tracker' = tracker /\ born' = born \cup {id} /\ id \notin born
  BY DEF Create, Change
<1>2. Live' \subseteq Live \cup {id}
  <2>1. DOMAIN order' = 1 .. Len(order) + 1 /\ DOMAIN order = 1 .. Len(order)
    BY <1>1
  <2>2. \A i \in DOMAIN order' : order'[i] = id \/ (i \in DOMAIN order /\ order'[i] = order[i])
    BY <1>1, <2>1
  <2> QED
    BY <2>2 DEF Live, ToSet
<1> QED
  BY <1>1, <1>2 DEF Table

LEMMA CloseTable ==
  ASSUME order \in Seq(Session), Table, NEW id \in Session, Close(id)
  PROVE  /\ Table' /\ \A i : i \in born \ Live => i \in born' \ Live'
         /\ tracker' = tracker
<1> DEFINE k == CHOOSE j \in DOMAIN order : order[j] = id
<1>1. k \in 1 .. Len(order) /\ Rank(id) + 1 = k
  <2>1. k \in 1 .. Len(order)
    BY DEF Close, Live, ToSet
  <2> QED
    BY <2>1 DEF Rank
<1> HIDE DEF k
<1>2. order' = SubSeq(order, 1, k - 1) \o SubSeq(order, k + 1, Len(order))
  BY <1>1 DEF Close, RemoveAt
<1>3. Live' \subseteq Live
  <2> DEFINE a == SubSeq(order, 1, k - 1)
             b == SubSeq(order, k + 1, Len(order))
  <2>1. /\ a \in Seq(Session) /\ Len(a) = k - 1 /\ \A i \in 1 .. k - 1 : a[i] = order[i]
        /\ b \in Seq(Session) /\ Len(b) = Len(order) - k
        /\ \A i \in 1 .. Len(order) - k : b[i] = order[i + k]
    BY <1>1
  <2> HIDE DEF a, b
  <2>2. \A i \in DOMAIN (a \o b) : \E j \in DOMAIN order : (a \o b)[i] = order[j]
    <3> SUFFICES ASSUME NEW i \in DOMAIN (a \o b)
                 PROVE  \E j \in DOMAIN order : (a \o b)[i] = order[j]
      OBVIOUS
    <3>1. i \in 1 .. Len(a) + Len(b) /\ Len(a) \in Nat /\ Len(b) \in Nat
      BY <2>1
    <3>2. (a \o b)[i] = IF i <= Len(a) THEN a[i] ELSE b[i - Len(a)]
      BY <2>1, <3>1
    <3>3. CASE i <= Len(a)
      BY <1>1, <2>1, <3>1, <3>2, <3>3
    <3>4. CASE ~(i <= Len(a))
      <4>1. i - Len(a) \in 1 .. Len(order) - k /\ i - Len(a) + k \in 1 .. Len(order)
        BY <1>1, <2>1, <3>1, <3>4
      <4> QED
        BY <2>1, <3>2, <3>4, <4>1
    <3> QED
      BY <3>3, <3>4
  <2>3. order' = a \o b
    BY <1>2 DEF a, b
  <2> QED
    BY <2>2, <2>3 DEF Live, ToSet
<1> QED
  BY <1>3 DEF Table, Close, Change

\* What a step of the requests or the children does to the tables.
LEMMA TablesStep ==
  ASSUME IInv, Table, StatusAssumption,
         \/ \E id \in Session : Child(id) \/ User(id)
         \/ \E ids \in Arrangement : SetSessionOrder(ids)
  PROVE  /\ Table' /\ \A i : i \in born \ Live => i \in born' \ Live'
         /\ tracker' = tracker /\ sweep' = sweep
         /\ UNCHANGED <<connVars, stripVars>>
<1>0. order \in Seq(Session)
  BY DEF IInv, Sessions
<1>1. ASSUME UNCHANGED <<order, born>>, tracker' = tracker
      PROVE  Table' /\ \A i : i \in born \ Live => i \in born' \ Live'
  BY <1>1 DEF Table, Live
<1>2. ASSUME NEW id \in Session, Child(id)
      PROVE  /\ UNCHANGED <<order, born>> /\ tracker' = tracker /\ sweep' = sweep
             /\ UNCHANGED <<connVars, stripVars>>
  BY <1>2 DEF Child, Report, Notify, Exit, Change
<1>3. ASSUME NEW id \in Session, Create(id)
      PROVE  sweep' = sweep /\ UNCHANGED <<connVars, stripVars>>
  BY <1>3 DEF Create, Change
<1>4. ASSUME NEW id \in Session, Close(id)
      PROVE  sweep' = sweep /\ UNCHANGED <<connVars, stripVars>>
  BY <1>4 DEF Close, Change
<1>5. ASSUME NEW id \in Session, NEW n \in Name, SetSessionPinnedTitle(id, n)
      PROVE  /\ UNCHANGED <<order, born>> /\ tracker' = tracker /\ sweep' = sweep
             /\ UNCHANGED <<connVars, stripVars>>
  BY <1>5 DEF SetSessionPinnedTitle, Change
<1>6. ASSUME NEW ids \in Arrangement, SetSessionOrder(ids)
      PROVE  /\ Live' = Live /\ born' = born /\ tracker' = tracker /\ sweep' = sweep
             /\ UNCHANGED <<connVars, stripVars>>
  BY <1>6 DEF SetSessionOrder, Change, Live
<1>7. CASE \E id \in Session : Child(id) \/ User(id)
  <2>1. PICK id \in Session : Child(id) \/ User(id)
    BY <1>7
  <2>2. CASE Child(id)
    BY <1>1, <1>2, <2>2
  <2>3. CASE Create(id)
    BY <1>0, <1>3, <2>3, CreateTable
  <2>4. CASE Close(id)
    BY <1>0, <1>4, <2>4, CloseTable
  <2>5. CASE \E n \in Name : SetSessionPinnedTitle(id, n)
    BY <1>1, <1>5, <2>5
  <2> QED
    BY <2>1, <2>2, <2>3, <2>4, <2>5 DEF User
<1>8. CASE \E ids \in Arrangement : SetSessionOrder(ids)
  BY <1>6, <1>8 DEF Table
<1> QED
  BY <1>7, <1>8

\* Neither the channels nor the strips, and no new mail: only the tables.
LEMMA PastStays ==
  ASSUME NoteIInv, UNCHANGED <<connVars, stripVars>>,
         \A id : \A n \in Nat : Past(id, n) => Past(id, n)',
         sweep' = sweep \/ sweep'.out = <<>>
  PROVE  Mail' /\ Channels' /\ AllPast' /\ InOrder'
<1> USE DEF connVars, stripVars
<1>0. ASSUME sweep'.out = <<>>
      PROVE  Noted(sweep'.out)
  <2>1. sweep'.out \in Seq({}) /\ DOMAIN sweep'.out = {}
    BY <1>0
  <2> QED
    BY <2>1, OwnSeq DEF Noted
<1>1. Mail'
  BY <1>0 DEF NoteIInv, Mail, Once
<1>2. Channels'
  BY DEF NoteIInv, Channels
<1>3. DOMAIN sweep'.out = {} \/ sweep' = sweep
  OBVIOUS
<1>4. AllPast'
  <2> DEFINE P(id, n) == PastOf(tracker', born' \ Live', id, n)
  <2>0. \A id : \A n \in Nat : Past(id, n) => P(id, n)
    BY DEF Past
  <2>1. \A k \in DOMAIN sweep'.out : P(sweep'.out[k].id, sweep'.out[k].note)
    BY <1>3, <2>0 DEF NoteIInv, AllPast, Mail, Noted
  <2>2. \A c \in Conn : \A i \in DOMAIN queue'[c] : P(queue'[c][i].id, queue'[c][i].note)
    BY <2>0 DEF NoteIInv, AllPast, Channels, Noted
  <2>3. \A t \in Strip : \A id \in DOMAIN heard'[t] : heard'[t][id] \in Nat /\ P(id, heard'[t][id])
    BY <2>0 DEF NoteIInv, AllPast
  <2> QED
    BY <2>1, <2>2, <2>3, Zenon DEF AllPast, Past
<1>5. InOrder'
  BY <1>3 DEF NoteIInv, InOrder, HeardBelow, Below
<1> QED
  BY <1>1, <1>2, <1>4, <1>5

\* The tables change only by the steps of a sweep, and Past only grows.
LEMMA BeginPast ==
  ASSUME IInv, Table, SweepBegin
  PROVE  Table' /\ \A id, n : Past(id, n) => Past(id, n)'
<1>1. /\ tracker' = [id \in DOMAIN tracker \cup Live |-> TrackerOf(id)]
      /\ Live' = Live /\ born' = born
  BY DEF SweepBegin, sessionVars, Live
<1>2. \A id \in DOMAIN tracker : id \in DOMAIN tracker' /\ tracker'[id] = tracker[id]
  BY <1>1 DEF TrackerOf
<1>3. \A id \in born \ Live : id \in DOMAIN tracker' => id \in DOMAIN tracker
  BY <1>1
<1>4. DOMAIN tracker' = DOMAIN tracker \cup Live
  BY <1>1
<1>5. ASSUME NEW id, NEW n, Past(id, n) PROVE Past(id, n)'
  <2>1. CASE id \in DOMAIN tracker
    BY <1>2, <1>5, <2>1 DEF Past, PastOf
  <2>2. CASE id \notin DOMAIN tracker
    <3>1. id \in born \ Live
      BY <1>5, <2>2 DEF Past, PastOf
    <3>2. id \notin DOMAIN tracker' /\ id \in born' \ Live'
      BY <1>1, <1>4, <2>2, <3>1
    <3> QED
      BY <3>2 DEF Past, PastOf
  <2> QED
    BY <2>1, <2>2
<1> QED
  BY <1>1, <1>4, <1>5 DEF Table

LEMMA DiffPast ==
  ASSUME IInv, Table, SweepDiff
  PROVE  Table' /\ \A id : \A n \in Nat : Past(id, n) => Past(id, n)'
<1>0. /\ sweep.at = "read" /\ Live' = Live /\ born' = born
      /\ tracker' = [id \in DOMAIN tracker \ Lost |->
                       IF id \in Kept THEN Remember(id, tracker[id], sweep.read[id])
                       ELSE tracker[id]]
  BY DEF SweepDiff, sessionVars, Live
<1>1. ASSUME NEW id \in DOMAIN tracker'
      PROVE  /\ id \in DOMAIN tracker
             /\ \A n \in Nat : n <= tracker[id].delivered => n <= tracker'[id].delivered
  <2>0. id \in DOMAIN tracker /\ tracker[id].delivered \in Nat
    BY <1>0 DEF IInv, Cursors
  <2>1. CASE id \in Kept
    <3>1. sweep.read[id].seq \in Nat
      BY <1>0, <2>1 DEF IInv, Phases, Kept
    <3>2. tracker'[id].delivered = Delivered(tracker[id], sweep.read[id])
      <4>1. tracker'[id] = Remember(id, tracker[id], sweep.read[id])
        BY <1>0, <2>1
      <4> QED
        BY <4>1 DEF Remember
    <3>3. \/ tracker'[id].delivered = tracker[id].delivered
          \/ /\ tracker'[id].delivered = sweep.read[id].seq
             /\ sweep.read[id].seq > tracker[id].delivered
      BY <3>2 DEF Delivered, NotifNew
    <3> QED
      BY <2>0, <3>1, <3>3
  <2>2. CASE id \notin Kept
    BY <1>0, <2>0, <2>2
  <2> QED
    BY <2>0, <2>1, <2>2
<1>2. DOMAIN tracker' = DOMAIN tracker \ Lost
  BY <1>0
<1>3. ASSUME NEW id, NEW n \in Nat, Past(id, n) PROVE Past(id, n)'
  <2>1. CASE id \in DOMAIN tracker'
    BY <1>1, <1>3, <2>1 DEF Past, PastOf
  <2>2. CASE id \notin DOMAIN tracker'
    <3>1. id \in born \ Live
      BY <1>2, <1>3, <2>2 DEF Past, PastOf, Lost, Table
    <3> QED
      BY <1>0, <2>2, <3>1 DEF Past, PastOf
  <2> QED
    BY <2>1, <2>2
<1> QED
  BY <1>0, <1>2, <1>3 DEF Table

\* The events of phase 3: one of each session it concerns.
LEMMA EventsAre ==
  ASSUME NoteIInv, sweep.at = "read", IsFiniteSet(Session),
         NEW new \in SetToSeqs(News), NEW gone \in SetToSeqs(Lost)
  PROVE  /\ Events(new, gone) \in Seq(ToSet(Events(new, gone)))
         /\ Once(Events(new, gone))
         /\ \A k \in DOMAIN Events(new, gone) :
              \/ \E id \in News : Events(new, gone)[k] = Event(id, tracker[id], sweep.read[id])
              \/ \E id \in Lost : Events(new, gone)[k] = Removed(id)
<1> DEFINE X == {Event(id, tracker[id], sweep.read[id]) : id \in News}
           Y == {Removed(id) : id \in Lost}
           A == [i \in DOMAIN new |-> Event(new[i], tracker[new[i]], sweep.read[new[i]])]
           B == [i \in DOMAIN gone |-> Removed(gone[i])]
<1>1. News \subseteq Session /\ Lost \subseteq Session
  BY DEF NoteIInv, IInv, Tracked, Phases, News, Kept, Lost
<1>2. IsFiniteSet(News) /\ IsFiniteSet(Lost)
  BY <1>1, FS_Subset
<1>3. PICK n \in Nat : new \in [1 .. n -> News]
  BY <1>2, Arranged
<1>4. PICK k \in Nat : gone \in [1 .. k -> Lost]
  BY <1>2, Arranged
<1>5. /\ \A i, j \in 1 .. n : i # j => new[i] # new[j]
      /\ \A i, j \in 1 .. k : i # j => gone[i] # gone[j]
  BY <1>3, <1>4 DEF SetToSeqs
<1>6. News \cap Lost = {}
  BY DEF News, Kept, Lost
<1>7. /\ A \in Seq(X) /\ Len(A) = n
      /\ \A i \in 1 .. n : A[i] = Event(new[i], tracker[new[i]], sweep.read[new[i]])
  <2>1. \A i \in 1 .. n : A[i] \in X
    BY <1>3
  <2> QED
    BY <1>3, <2>1
<1>8. B \in Seq(Y) /\ Len(B) = k /\ \A i \in 1 .. k : B[i] = Removed(gone[i])
  <2>1. \A i \in 1 .. k : B[i] \in Y
    BY <1>4
  <2> QED
    BY <1>4, <2>1
<1>9. \A i \in 1 .. n : A[i].id = new[i] /\ new[i] \in News
  BY <1>3, <1>7 DEF Event
<1>10. \A i \in 1 .. k : B[i].id = gone[i] /\ gone[i] \in Lost
  BY <1>4, <1>8 DEF Removed
<1>11. Events(new, gone) = A \o B
  BY DEF Events
<1> HIDE DEF A, B, X, Y
<1>12. /\ A \o B \in Seq(X \cup Y)
       /\ DOMAIN (A \o B) = 1 .. n + k
       /\ \A i \in 1 .. n + k : (A \o B)[i] = IF i <= n THEN A[i] ELSE B[i - n]
  <2>1. A \in Seq(X \cup Y) /\ B \in Seq(X \cup Y)
    BY <1>7, <1>8
  <2> QED
    BY <1>7, <1>8, <2>1
<1>13. Once(A \o B)
  <2> SUFFICES ASSUME NEW i \in 1 .. n + k, NEW j \in 1 .. n + k, i # j
               PROVE  (A \o B)[i].id # (A \o B)[j].id
    BY <1>12 DEF Once
  <2>1. CASE i <= n /\ j <= n
    BY <1>5, <1>9, <1>12, <2>1
  <2>2. CASE ~(i <= n) /\ ~(j <= n)
    <3>1. i - n \in 1 .. k /\ j - n \in 1 .. k /\ i - n # j - n
      BY <2>2
    <3>2. (A \o B)[i] = B[i - n] /\ (A \o B)[j] = B[j - n]
      BY <1>12, <2>2
    <3>3. B[i - n].id = gone[i - n] /\ B[j - n].id = gone[j - n]
      BY <1>10, <3>1
    <3>4. gone[i - n] # gone[j - n]
      BY <1>5, <3>1
    <3> QED
      BY <3>2, <3>3, <3>4
  <2>3. CASE i <= n /\ ~(j <= n)
    <3>1. i \in 1 .. n /\ j - n \in 1 .. k
      BY <2>3
    <3> QED
      BY <1>6, <1>9, <1>10, <1>12, <2>3, <3>1
  <2>4. CASE ~(i <= n) /\ j <= n
    <3>1. j \in 1 .. n /\ i - n \in 1 .. k
      BY <2>4
    <3> QED
      BY <1>6, <1>9, <1>10, <1>12, <2>4, <3>1
  <2> QED
    BY <2>1, <2>2, <2>3, <2>4
<1>14. \A i \in DOMAIN (A \o B) :
         \/ \E id \in News : (A \o B)[i] = Event(id, tracker[id], sweep.read[id])
         \/ \E id \in Lost : (A \o B)[i] = Removed(id)
  <2> SUFFICES ASSUME NEW i \in 1 .. n + k
               PROVE  \/ \E id \in News : (A \o B)[i] = Event(id, tracker[id], sweep.read[id])
                      \/ \E id \in Lost : (A \o B)[i] = Removed(id)
    BY <1>12
  <2>1. CASE i <= n
    <3>1. i \in 1 .. n
      BY <2>1
    <3>2. (A \o B)[i] = A[i]
      BY <1>12, <2>1
    <3> QED
      BY <1>7, <1>9, <3>1, <3>2
  <2>2. CASE ~(i <= n)
    <3>1. i - n \in 1 .. k
      BY <2>2
    <3>2. (A \o B)[i] = B[i - n]
      BY <1>12, <2>2
    <3> QED
      BY <1>8, <1>10, <3>1, <3>2
  <2> QED
    BY <2>1, <2>2
<1>15. A \o B \in Seq(ToSet(A \o B))
  BY <1>12, OwnSeq
<1> QED
  BY <1>11, <1>13, <1>14, <1>15

\* A new notification's number is above all that has been given out.
LEMMA DiffNotes ==
  ASSUME NoteIInv, SweepDiff, StatusAssumption
  PROVE  Table' /\ Mail' /\ Channels' /\ AllPast' /\ InOrder'
<1>0. /\ sweep.at = "read" /\ born' = born /\ Live' = Live
      /\ UNCHANGED <<connVars, stripVars>>
      /\ tracker' = [id \in DOMAIN tracker \ Lost |->
                       IF id \in Kept THEN Remember(id, tracker[id], sweep.read[id])
                       ELSE tracker[id]]
  BY DEF SweepDiff, sessionVars, Live
<1>1. Table' /\ \A id : \A n \in Nat : Past(id, n) => Past(id, n)'
  BY DiffPast DEF NoteIInv
<1>2. PICK new \in SetToSeqs(News), gone \in SetToSeqs(Lost) :
        sweep' = IF News \cup Lost = {} THEN IdleSweep
                 ELSE [at |-> "sending", todo |-> {}, read |-> <<>>, out |-> Events(new, gone)]
  BY DEF SweepDiff
<1>3. CASE News \cup Lost = {}
  <2>1. sweep'.out = <<>>
    BY <1>2, <1>3 DEF IdleSweep
  <2> QED
    BY <1>0, <1>1, <2>1, PastStays
<1>4. CASE News \cup Lost # {}
  <2>1. sweep'.out = Events(new, gone) /\ sweep'.at = "sending"
    BY <1>2, <1>4
  <2>2. /\ sweep'.out \in Seq(ToSet(sweep'.out)) /\ Once(sweep'.out)
        /\ \A k \in DOMAIN sweep'.out :
             \/ \E id \in News : sweep'.out[k] = Event(id, tracker[id], sweep.read[id])
             \/ \E id \in Lost : sweep'.out[k] = Removed(id)
    BY <1>0, <2>1, EventsAre DEF StatusAssumption
  <2> DEFINE P(id, n) == PastOf(tracker', born' \ Live', id, n)
  <2>3. ASSUME NEW k \in DOMAIN sweep'.out
        PROVE  /\ sweep'.out[k].note \in Nat
               /\ P(sweep'.out[k].id, sweep'.out[k].note)
               /\ sweep'.out[k].note > 0 =>
                    \A n \in Nat : Past(sweep'.out[k].id, n) => n < sweep'.out[k].note
    <3>1. ASSUME NEW id \in News, sweep'.out[k] = Event(id, tracker[id], sweep.read[id])
          PROVE  /\ sweep'.out[k].note \in Nat
                 /\ P(sweep'.out[k].id, sweep'.out[k].note)
                 /\ sweep'.out[k].note > 0 =>
                      \A n \in Nat : Past(sweep'.out[k].id, n) => n < sweep'.out[k].note
      <4>0. id \in Kept /\ id \in DOMAIN sweep.read /\ id \in Live /\ id \in DOMAIN tracker
        BY <1>0 DEF News, Kept, NoteIInv, IInv, Phases
      <4>1. sweep.read[id].seq \in Nat /\ tracker[id].delivered \in Nat
        BY <1>0, <4>0 DEF NoteIInv, IInv, Phases, Cursors
      <4>2. PICK note : note = sweep'.out[k].note
        OBVIOUS
      <4>3. /\ sweep'.out[k].id = id
            /\ note = IF NotifNew(tracker[id], sweep.read[id]) THEN sweep.read[id].seq ELSE 0
        BY <3>1, <4>2 DEF Event
      <4>4. /\ id \in DOMAIN tracker'
            /\ tracker'[id].delivered = Delivered(tracker[id], sweep.read[id])
        <5>1. id \in DOMAIN tracker \ Lost
          BY <4>0 DEF Lost
        <5>2. tracker'[id] = Remember(id, tracker[id], sweep.read[id])
          BY <1>0, <4>0, <5>1
        <5> QED
          BY <1>0, <5>1, <5>2 DEF Remember
      <4>5. CASE NotifNew(tracker[id], sweep.read[id])
        <5>1. note = sweep.read[id].seq /\ tracker'[id].delivered = sweep.read[id].seq
          BY <4>3, <4>4, <4>5 DEF Delivered
        <5>2. tracker[id].delivered < sweep.read[id].seq
          BY <4>1, <4>5 DEF NotifNew
        <5>3. note \in Nat /\ note <= tracker'[id].delivered
          BY <4>1, <5>1
        <5>4. P(id, note)
          BY <4>4, <5>3 DEF Past, PastOf
        <5>5. ASSUME NEW n \in Nat, Past(id, n) PROVE n < note
          <6>1. n <= tracker[id].delivered
            BY <4>0, <5>5 DEF Past, PastOf
          <6> QED
            BY <4>1, <5>1, <5>2, <6>1
        <5> QED
          BY <4>2, <4>3, <5>3, <5>4, <5>5
      <4>6. CASE ~NotifNew(tracker[id], sweep.read[id])
        <5>1. note = 0 /\ tracker'[id].delivered = tracker[id].delivered
          BY <4>3, <4>4, <4>6 DEF Delivered
        <5>2. 0 <= tracker'[id].delivered
          BY <4>1, <5>1
        <5>3. P(id, note)
          BY <4>4, <5>1, <5>2 DEF Past, PastOf
        <5> QED
          BY <4>2, <4>3, <5>1, <5>3
      <4> QED
        BY <4>5, <4>6
    <3>2. ASSUME NEW id \in Lost, sweep'.out[k] = Removed(id)
          PROVE  /\ sweep'.out[k].note = 0
                 /\ P(sweep'.out[k].id, sweep'.out[k].note)
      <4>1. sweep'.out[k].id = id /\ sweep'.out[k].note = 0
        BY <3>2 DEF Removed
      <4>2. id \notin DOMAIN tracker' /\ id \in born' \ Live'
        BY <1>0 DEF Lost, NoteIInv, Table
      <4> QED
        BY <4>1, <4>2 DEF Past, PastOf
    <3> QED
      BY <2>2, <3>1, <3>2
  <2>4. Mail'
    BY <2>1, <2>2, <2>3 DEF Mail, Noted
  <2>5. Channels'
    BY <1>0 DEF NoteIInv, Channels, connVars, stripVars
  <2>6. AllPast'
    <3>0. \A id : \A n \in Nat : Past(id, n) => P(id, n)
      BY <1>1 DEF Past
    <3>1. \A c \in Conn : \A i \in DOMAIN queue'[c] : P(queue'[c][i].id, queue'[c][i].note)
      BY <1>0, <3>0 DEF NoteIInv, AllPast, Channels, Noted, connVars
    <3>2. \A t \in Strip : \A id \in DOMAIN heard'[t] :
            heard'[t][id] \in Nat /\ P(id, heard'[t][id])
      BY <1>0, <3>0 DEF NoteIInv, AllPast, stripVars
    <3> QED
      BY <2>3, <3>1, <3>2, Zenon DEF AllPast, Past
  <2>7. InOrder'
    <3>1. ASSUME NEW c \in Conn PROVE Below(queue[c], sweep'.out)
      <4>1. \A i \in DOMAIN queue[c] :
              queue[c][i].note \in Nat /\ Past(queue[c][i].id, queue[c][i].note)
        BY DEF NoteIInv, Channels, Noted, AllPast
      <4> QED
        BY <2>3, <4>1 DEF Below
    <3>2. ASSUME NEW t \in Strip PROVE HeardBelow(t, sweep'.out)
      <4>1. \A id \in DOMAIN heard[t] : heard[t][id] \in Nat /\ Past(id, heard[t][id])
        BY DEF NoteIInv, AllPast
      <4> QED
        BY <2>3, <4>1 DEF HeardBelow
    <3>3. \A t \in Strip : conn[t] # NoConn => HeardBelow(t, queue[conn[t]])
      BY DEF NoteIInv, InOrder
    <3> QED
      BY <1>0, <3>1, <3>2, <3>3 DEF InOrder, HeardBelow, connVars, stripVars
  <2> QED
    BY <1>1, <2>4, <2>5, <2>6, <2>7
<1> QED
  BY <1>3, <1>4

\* The hub passes the head of its mail on to every channel it sends to.
LEMMA BroadcastNotes ==
  ASSUME NoteIInv, Broadcast
  PROVE  Table' /\ Mail' /\ Channels' /\ AllPast' /\ InOrder'
<1> DEFINE ev == Head(sweep.out)
<1>0. /\ UNCHANGED <<order, born, tracker, stage, conn, heard>> /\ sweep.out # <<>>
      /\ queue' = [c \in Conn |-> IF c \in subs /\ ~Full(c) THEN Append(queue[c], ev)
                                  ELSE queue[c]]
      /\ subs' \subseteq subs
      /\ sweep' = IF Len(sweep.out) = 1 THEN IdleSweep
                  ELSE [at |-> "sending", todo |-> {}, read |-> <<>>, out |-> Tail(sweep.out)]
  BY DEF Broadcast, sessionVars, stripVars
<1>1. Table'
  BY <1>0 DEF NoteIInv, Table, Live
<1>2. Noted(sweep.out) /\ Once(sweep.out)
  BY DEF NoteIInv, Mail
<1>3. /\ Noted(Tail(sweep.out)) /\ 1 \in DOMAIN sweep.out /\ ev = sweep.out[1]
      /\ \A i \in DOMAIN Tail(sweep.out) :
           /\ i \in Nat /\ 1 < i + 1 /\ i + 1 \in DOMAIN sweep.out
           /\ Tail(sweep.out)[i] = sweep.out[i + 1]
      /\ \A i, j \in DOMAIN Tail(sweep.out) : i # j => i + 1 # j + 1
  BY <1>0, <1>2, TailIs
<1>4. sweep'.out = Tail(sweep.out)
  <2>1. CASE Len(sweep.out) = 1
    <3>1. sweep.out \in Seq(ToSet(sweep.out))
      BY <1>2 DEF Noted
    <3>2. Tail(sweep.out) = <<>>
      BY <2>1, <3>1, TailOfOne
    <3> QED
      BY <1>0, <2>1, <3>2 DEF IdleSweep
  <2>2. CASE Len(sweep.out) # 1
    BY <1>0, <2>2
  <2> QED
    BY <2>1, <2>2
<1> HIDE DEF ev
<1>5. \A i \in DOMAIN sweep'.out :
        \E k \in DOMAIN sweep.out : k # 1 /\ sweep'.out[i] = sweep.out[k]
  BY <1>3, <1>4
<1>6. Mail'
  <2>1. Once(sweep'.out)
    BY <1>2, <1>3, <1>4 DEF Once
  <2>2. sweep'.at # "sending" => sweep'.out = <<>>
    BY <1>0 DEF IdleSweep
  <2> QED
    BY <1>3, <1>4, <2>1, <2>2 DEF Mail
<1>7. ev.note \in Nat
  BY <1>2, <1>3 DEF Noted
<1>8. ASSUME NEW c \in Conn
      PROVE  \/ queue'[c] = queue[c]
             \/ queue'[c] = Append(queue[c], ev) /\ c \in subs
  BY <1>0
<1>9. ASSUME NEW c \in Conn
      PROVE  /\ Noted(queue[c]) /\ Rising(queue[c]) /\ Below(queue[c], sweep.out)
             /\ stage[c] = "free" => queue[c] = <<>> /\ c \notin subs
             /\ \A i \in DOMAIN queue[c] : Past(queue[c][i].id, queue[c][i].note)
  BY DEF NoteIInv, Channels, InOrder, AllPast
<1>10. ASSUME NEW c \in Conn
       PROVE  /\ Noted(Append(queue[c], ev))
              /\ \A i \in DOMAIN Append(queue[c], ev) :
                   \/ i \in DOMAIN queue[c] /\ Append(queue[c], ev)[i] = queue[c][i]
                   \/ /\ Append(queue[c], ev)[i] = ev
                      /\ \A j \in DOMAIN Append(queue[c], ev) : ~(i < j)
              /\ \A i, j \in DOMAIN Append(queue[c], ev) : i < j => i \in DOMAIN queue[c]
  BY <1>7, <1>9, AppendIs
<1>11. ASSUME NEW c \in Conn, NEW i \in DOMAIN queue'[c]
       PROVE  \/ i \in DOMAIN queue[c] /\ queue'[c][i] = queue[c][i]
              \/ /\ queue'[c][i] = ev
                 /\ \A j \in DOMAIN queue'[c] : ~(i < j)
  <2>1. CASE queue'[c] = queue[c]
    BY <2>1
  <2>2. CASE queue'[c] = Append(queue[c], ev)
    BY <1>10, <2>2
  <2> QED
    BY <1>8, <2>1, <2>2
<1>12. ASSUME NEW c \in Conn
       PROVE  Noted(queue'[c]) /\ Rising(queue'[c])
  <2>1. CASE queue'[c] = queue[c]
    BY <1>9, <2>1
  <2>2. CASE queue'[c] = Append(queue[c], ev)
    <3>1. Noted(queue'[c])
      BY <1>10, <2>2
    <3>2. ASSUME NEW i \in DOMAIN queue'[c], NEW j \in DOMAIN queue'[c],
                 i < j, queue'[c][i].id = queue'[c][j].id, queue'[c][j].note > 0
          PROVE  queue'[c][i].note < queue'[c][j].note
      <4>1. i \in DOMAIN queue[c] /\ queue'[c][i] = queue[c][i]
        BY <1>10, <1>11, <2>2, <3>2
      <4>2. CASE j \in DOMAIN queue[c] /\ queue'[c][j] = queue[c][j]
        BY <1>9, <3>2, <4>1, <4>2 DEF Rising
      <4>3. CASE queue'[c][j] = ev
        BY <1>3, <1>9, <3>2, <4>1, <4>3 DEF Below
      <4> QED
        BY <1>11, <4>2, <4>3
    <3> QED
      BY <3>1, <3>2 DEF Rising
  <2> QED
    BY <1>8, <2>1, <2>2
<1>13. Channels'
  <2>1. DOMAIN queue' = Conn
    BY <1>0
  <2>2. \A c \in Conn : stage'[c] = "free" => queue'[c] = <<>> /\ c \notin subs'
    BY <1>0, <1>8, <1>9
  <2> QED
    BY <1>0, <1>12, <2>1, <2>2 DEF NoteIInv, Channels
<1>14. AllPast'
  <2> DEFINE P(id, n) == PastOf(tracker', born' \ Live', id, n)
  <2>0. \A id, n : Past(id, n) => P(id, n)
    BY <1>0 DEF Past, Live
  <2>1. \A k \in DOMAIN sweep.out : P(sweep.out[k].id, sweep.out[k].note)
    BY <2>0 DEF NoteIInv, AllPast
  <2>2. \A k \in DOMAIN sweep'.out : P(sweep'.out[k].id, sweep'.out[k].note)
    BY <1>5, <2>1
  <2>3. \A c \in Conn : \A i \in DOMAIN queue'[c] : P(queue'[c][i].id, queue'[c][i].note)
    BY <1>3, <1>9, <1>11, <2>0, <2>1
  <2>4. \A t \in Strip : \A id \in DOMAIN heard'[t] : heard'[t][id] \in Nat /\ P(id, heard'[t][id])
    BY <1>0, <2>0 DEF NoteIInv, AllPast
  <2> QED
    BY <2>2, <2>3, <2>4, Zenon DEF AllPast, Past
<1>15. InOrder'
  <2>1. ASSUME NEW c \in Conn, NEW i \in DOMAIN queue'[c], NEW j \in DOMAIN sweep'.out,
               queue'[c][i].id = sweep'.out[j].id, sweep'.out[j].note > 0
        PROVE  queue'[c][i].note < sweep'.out[j].note
    <3>1. PICK k \in DOMAIN sweep.out : k # 1 /\ sweep'.out[j] = sweep.out[k]
      BY <1>5
    <3>2. queue'[c][i] # ev
      BY <1>2, <1>3, <2>1, <3>1 DEF Once
    <3>3. i \in DOMAIN queue[c] /\ queue'[c][i] = queue[c][i]
      BY <1>11, <3>2
    <3> QED
      BY <1>9, <2>1, <3>1, <3>3 DEF Below
  <2>2. ASSUME NEW t \in Strip
        PROVE  HeardBelow(t, sweep.out)
    BY DEF NoteIInv, InOrder
  <2>3. ASSUME NEW t \in Strip, NEW j \in DOMAIN sweep'.out,
               sweep'.out[j].id \in DOMAIN heard[t], sweep'.out[j].note > 0
        PROVE  heard[t][sweep'.out[j].id] < sweep'.out[j].note
    <3>1. PICK k \in DOMAIN sweep.out : k # 1 /\ sweep'.out[j] = sweep.out[k]
      BY <1>5
    <3> QED
      BY <2>2, <2>3, <3>1 DEF HeardBelow
  <2>4. ASSUME NEW t \in Strip, conn[t] # NoConn, NEW i \in DOMAIN queue'[conn[t]],
               queue'[conn[t]][i].id \in DOMAIN heard[t], queue'[conn[t]][i].note > 0
        PROVE  heard[t][queue'[conn[t]][i].id] < queue'[conn[t]][i].note
    <3>1. conn[t] \in Conn /\ HeardBelow(t, queue[conn[t]])
      BY <2>4 DEF NoteIInv, Channels, InOrder
    <3>2. CASE i \in DOMAIN queue[conn[t]] /\ queue'[conn[t]][i] = queue[conn[t]][i]
      BY <2>4, <3>1, <3>2 DEF HeardBelow
    <3>3. CASE queue'[conn[t]][i] = ev
      BY <1>3, <2>2, <2>4, <3>3 DEF HeardBelow
    <3> QED
      BY <1>11, <3>1, <3>2, <3>3
  <2>5. \A c \in Conn : Below(queue'[c], sweep'.out)
    BY <2>1 DEF Below
  <2>6. /\ \A t \in Strip : HeardBelow(t, sweep'.out)
        /\ \A t \in Strip : conn[t] # NoConn => HeardBelow(t, queue'[conn[t]])
    BY <2>3, <2>4 DEF HeardBelow
  <2> QED
    BY <1>0, <2>5, <2>6 DEF InOrder, HeardBelow
<1> QED
  BY <1>1, <1>6, <1>13, <1>14, <1>15

\* A connection's goroutine forwards the head of its channel.
LEMMA StreamNotes ==
  ASSUME NoteIInv, NEW c \in Conn, Stream(c)
  PROVE  Table' /\ Mail' /\ Channels' /\ AllPast' /\ InOrder'
<1> DEFINE ev == Head(queue[c])
<1>0. /\ UNCHANGED <<order, born, tracker, sweep, stage, subs, conn>>
      /\ queue[c] # <<>> /\ DOMAIN queue = Conn
      /\ queue' = [queue EXCEPT ![c] = Tail(queue[c])]
      /\ heard' = [t \in Strip |-> IF conn[t] = c /\ ev.note > 0
                                   THEN Put(heard[t], ev.id, ev.note) ELSE heard[t]]
  BY DEF Stream, sessionVars, NoteIInv, Channels
<1>1. ASSUME NEW d \in Conn
      PROVE  /\ Noted(queue[d]) /\ Rising(queue[d]) /\ Below(queue[d], sweep.out)
             /\ stage[d] = "free" => queue[d] = <<>> /\ d \notin subs
             /\ \A i \in DOMAIN queue[d] : Past(queue[d][i].id, queue[d][i].note)
  BY DEF NoteIInv, Channels, InOrder, AllPast
<1>2. /\ Noted(Tail(queue[c])) /\ 1 \in DOMAIN queue[c] /\ ev = queue[c][1]
      /\ \A i \in DOMAIN Tail(queue[c]) :
           /\ i \in Nat /\ 1 < i + 1 /\ i + 1 \in DOMAIN queue[c]
           /\ Tail(queue[c])[i] = queue[c][i + 1]
      /\ \A i, j \in DOMAIN Tail(queue[c]) : i < j => i + 1 < j + 1
  BY <1>0, <1>1, TailIs
<1> HIDE DEF ev
<1>3. queue'[c] = Tail(queue[c]) /\ \A d \in Conn : d # c => queue'[d] = queue[d]
  BY <1>0
<1>31. ASSUME NEW d \in Conn, NEW i \in DOMAIN queue'[d]
       PROVE  \E k \in DOMAIN queue[d] : queue'[d][i] = queue[d][k]
  <2>1. CASE d = c
    BY <1>2, <1>3, <2>1
  <2>2. CASE d # c
    BY <1>3, <2>2
  <2> QED
    BY <2>1, <2>2
<1>4. Table' /\ Mail'
  BY <1>0 DEF NoteIInv, Table, Live, Mail
<1>5. ASSUME NEW t \in Strip
      PROVE  \/ heard'[t] = heard[t] /\ (conn[t] = c => ~(ev.note > 0))
             \/ /\ conn[t] = c /\ ev.note > 0
                /\ DOMAIN heard'[t] = DOMAIN heard[t] \cup {ev.id}
                /\ \A id \in DOMAIN heard'[t] :
                     heard'[t][id] = IF id = ev.id THEN ev.note ELSE heard[t][id]
  BY <1>0 DEF Put
<1>6. Channels'
  <2>1. Rising(Tail(queue[c]))
    BY <1>1, <1>2 DEF Rising
  <2>2. \A d \in Conn : Noted(queue'[d]) /\ Rising(queue'[d])
    BY <1>1, <1>2, <1>3, <2>1
  <2>3. \A d \in Conn : stage'[d] = "free" => queue'[d] = <<>> /\ d \notin subs'
    BY <1>0, <1>1, <1>3
  <2> QED
    BY <1>0, <2>2, <2>3 DEF NoteIInv, Channels
<1>7. ev.note \in Nat /\ Past(ev.id, ev.note)
  BY <1>1, <1>2 DEF Noted
<1>8. AllPast'
  <2> DEFINE P(id, n) == PastOf(tracker', born' \ Live', id, n)
  <2>0. \A id, n : Past(id, n) => P(id, n)
    BY <1>0 DEF Past, Live
  <2>1. \A k \in DOMAIN sweep'.out : P(sweep'.out[k].id, sweep'.out[k].note)
    BY <1>0, <2>0 DEF NoteIInv, AllPast
  <2>2. \A d \in Conn : \A i \in DOMAIN queue[d] : P(queue[d][i].id, queue[d][i].note)
    BY <1>1, <2>0
  <2>3. \A d \in Conn : \A i \in DOMAIN queue'[d] : P(queue'[d][i].id, queue'[d][i].note)
    BY <1>31, <2>2
  <2>4. \A t \in Strip : \A id \in DOMAIN heard[t] : heard[t][id] \in Nat /\ P(id, heard[t][id])
    BY <2>0 DEF NoteIInv, AllPast
  <2>5. ASSUME NEW t \in Strip, NEW id \in DOMAIN heard'[t]
        PROVE  heard'[t][id] \in Nat /\ P(id, heard'[t][id])
    <3>1. P(ev.id, ev.note)
      BY <1>7, <2>0
    <3> HIDE DEF P
    <3> QED
      BY <1>5, <1>7, <2>4, <3>1
  <2> QED
    BY <2>1, <2>3, <2>5, Zenon DEF AllPast, Past
<1>9. ASSUME NEW t \in Strip, NEW id \in DOMAIN heard'[t], NEW note,
             note > 0, id \in DOMAIN heard[t] => heard[t][id] < note,
             conn[t] = c /\ ev.id = id => ev.note < note
      PROVE  heard'[t][id] < note
  BY <1>5, <1>9
<1>10. ASSUME NEW t \in Strip
       PROVE  /\ HeardBelow(t, sweep.out)
              /\ conn[t] # NoConn => conn[t] \in Conn /\ HeardBelow(t, queue[conn[t]])
  BY DEF NoteIInv, InOrder, Channels
<1>11. ASSUME NEW t \in Strip, NEW k \in DOMAIN sweep.out,
              sweep.out[k].id \in DOMAIN heard'[t], sweep.out[k].note > 0
       PROVE  heard'[t][sweep.out[k].id] < sweep.out[k].note
  <2>1. sweep.out[k].id \in DOMAIN heard[t] => heard[t][sweep.out[k].id] < sweep.out[k].note
    BY <1>10, <1>11 DEF HeardBelow
  <2>2. ev.id = sweep.out[k].id => ev.note < sweep.out[k].note
    BY <1>1, <1>2, <1>11 DEF Below
  <2> QED
    BY <1>9, <1>11, <2>1, <2>2
<1>12. ASSUME NEW t \in Strip, conn[t] # NoConn, NEW i \in DOMAIN queue'[conn[t]],
              queue'[conn[t]][i].id \in DOMAIN heard'[t], queue'[conn[t]][i].note > 0
       PROVE  heard'[t][queue'[conn[t]][i].id] < queue'[conn[t]][i].note
  <2>1. conn[t] \in Conn /\ HeardBelow(t, queue[conn[t]])
    BY <1>10, <1>12
  <2>2. PICK e : e = queue'[conn[t]][i]
    OBVIOUS
  <2>3. \E k \in DOMAIN queue[conn[t]] : e = queue[conn[t]][k]
    BY <1>31, <2>1, <2>2
  <2>4. e.id \in DOMAIN heard[t] => heard[t][e.id] < e.note
    BY <1>12, <2>1, <2>2, <2>3 DEF HeardBelow
  <2>5. conn[t] = c /\ ev.id = e.id => ev.note < e.note
    <3> SUFFICES ASSUME conn[t] = c, ev.id = e.id PROVE ev.note < e.note
      OBVIOUS
    <3>1. i + 1 \in DOMAIN queue[c] /\ 1 < i + 1 /\ e = queue[c][i + 1]
      BY <1>2, <1>3, <2>2
    <3> QED
      BY <1>1, <1>2, <1>12, <2>2, <3>1 DEF Rising
  <2> QED
    BY <1>9, <1>12, <2>2, <2>4, <2>5
<1>13. ASSUME NEW d \in Conn PROVE Below(queue'[d], sweep.out)
  BY <1>1, <1>31 DEF Below
<1>14. InOrder'
  <2>1. /\ \A t \in Strip : \A k \in DOMAIN sweep.out :
             sweep.out[k].id \in DOMAIN heard'[t] /\ sweep.out[k].note > 0 =>
               heard'[t][sweep.out[k].id] < sweep.out[k].note
        /\ \A t \in Strip : conn[t] # NoConn => \A i \in DOMAIN queue'[conn[t]] :
             queue'[conn[t]][i].id \in DOMAIN heard'[t] /\ queue'[conn[t]][i].note > 0 =>
               heard'[t][queue'[conn[t]][i].id] < queue'[conn[t]][i].note
    BY <1>11, <1>12
  <2> QED
    BY <1>0, <1>13, <2>1 DEF InOrder, HeardBelow
<1> QED
  BY <1>4, <1>6, <1>8, <1>14

\* A connection comes and goes with an empty channel; what a strip has been
\* given stays given.
LEMMA ComesAndGoes ==
  ASSUME NoteIInv, UNCHANGED <<order, born, tracker, sweep, heard>>,
         DOMAIN queue' = Conn, DOMAIN stage' = Conn,
         \A d \in Conn :
           /\ queue'[d] = queue[d] \/ queue'[d] = <<>>
           /\ stage'[d] = "free" => queue'[d] = <<>> /\ d \notin subs',
         \A t \in Strip : \/ conn'[t] = conn[t] \/ conn'[t] = NoConn
                          \/ conn'[t] \in Conn /\ queue'[conn'[t]] = <<>>
  PROVE  Table' /\ Mail' /\ Channels' /\ AllPast' /\ InOrder'
<1>1. Table' /\ Mail'
  BY DEF NoteIInv, Table, Live, Mail
<1>2. \A d \in Conn : queue'[d] = queue[d] \/ DOMAIN queue'[d] = {}
  OBVIOUS
<1>3. Noted(<<>>) /\ Rising(<<>>)
  <2>1. <<>> \in Seq({})
    OBVIOUS
  <2> QED
    BY <2>1, OwnSeq DEF Noted, Rising
<1>4. Channels'
  BY <1>3 DEF NoteIInv, Channels
<1>5. AllPast'
  <2> DEFINE P(id, n) == PastOf(tracker', born' \ Live', id, n)
  <2>0. \A id, n : Past(id, n) => P(id, n)
    BY DEF Past, Live
  <2>1. \A k \in DOMAIN sweep'.out : P(sweep'.out[k].id, sweep'.out[k].note)
    BY <2>0 DEF NoteIInv, AllPast
  <2>2. \A d \in Conn : \A i \in DOMAIN queue'[d] : P(queue'[d][i].id, queue'[d][i].note)
    BY <1>2, <2>0 DEF NoteIInv, AllPast
  <2>3. \A t \in Strip : \A id \in DOMAIN heard'[t] : heard'[t][id] \in Nat /\ P(id, heard'[t][id])
    BY <2>0 DEF NoteIInv, AllPast
  <2> QED
    BY <2>1, <2>2, <2>3, Zenon DEF AllPast, Past
<1>6. InOrder'
  <2>1. \A d \in Conn : Below(queue'[d], sweep.out)
    BY <1>2 DEF NoteIInv, InOrder, Below
  <2>2. ASSUME NEW t \in Strip, conn'[t] # NoConn
        PROVE  HeardBelow(t, queue'[conn'[t]])
    <3>1. conn'[t] \in Conn /\ (conn'[t] = conn[t] \/ DOMAIN queue'[conn'[t]] = {})
      BY <1>4, <2>2 DEF Channels
    <3>2. CASE DOMAIN queue'[conn'[t]] = {}
      BY <3>2 DEF HeardBelow
    <3>3. CASE conn'[t] = conn[t] /\ queue'[conn'[t]] = queue[conn[t]]
      BY <2>2, <3>3 DEF NoteIInv, InOrder
    <3> QED
      BY <1>2, <3>1, <3>2, <3>3
  <2>3. \A t \in Strip : HeardBelow(t, sweep.out)
    BY DEF NoteIInv, InOrder
  <2> QED
    BY <2>1, <2>2, <2>3 DEF InOrder, HeardBelow
<1> QED
  BY <1>1, <1>4, <1>5, <1>6

LEMMA ServeNotes ==
  ASSUME NoteIInv, NEW c \in Conn, Serve(c)
  PROVE  Table' /\ Mail' /\ Channels' /\ AllPast' /\ InOrder'
<1>0. /\ DOMAIN queue = Conn /\ DOMAIN stage = Conn
      /\ \A d \in Conn : stage[d] = "free" => queue[d] = <<>> /\ d \notin subs
  BY DEF NoteIInv, Channels
<1>1. CASE SnapTable(c)
  <2>1. UNCHANGED <<order, born, tracker, sweep, heard, queue, subs, conn>>
    <3>1. UNCHANGED <<sessionVars, tracker, sweep, subs, queue, stripVars>>
      BY <1>1, Zenon DEF SnapTable
    <3> QED
      BY <3>1 DEF sessionVars, stripVars
  <2>2. stage[c] = "subscribed" /\ stage' = [stage EXCEPT ![c] = "reading"]
    BY <1>1, Zenon DEF SnapTable
  <2>3. DOMAIN stage' = Conn /\ \A d \in Conn : stage'[d] = "free" => stage[d] = "free"
    BY <1>0, <2>2
  <2> QED
    BY <1>0, <2>1, <2>3, ComesAndGoes
<1>2. CASE WriteSnapshot(c)
  <2>1. UNCHANGED <<order, born, tracker, sweep, heard, queue, subs, conn>>
    BY <1>2 DEF WriteSnapshot, sessionVars
  <2>2. stage[c] = "reading" /\ stage' = [stage EXCEPT ![c] = "streaming"]
    BY <1>2 DEF WriteSnapshot
  <2>3. DOMAIN stage' = Conn /\ \A d \in Conn : stage'[d] = "free" => stage[d] = "free"
    BY <1>0, <2>2
  <2> QED
    BY <1>0, <2>1, <2>3, ComesAndGoes
<1>3. CASE Stream(c)
  BY <1>3, StreamNotes
<1>4. CASE Return(c)
  <2>1. /\ UNCHANGED <<order, born, tracker, sweep, heard>> /\ subs' = subs \ {c}
        /\ stage' = [stage EXCEPT ![c] = "free"] /\ queue' = [queue EXCEPT ![c] = <<>>]
        /\ conn' = [t \in Strip |-> IF conn[t] = c THEN NoConn ELSE conn[t]]
    BY <1>4 DEF Return, sessionVars
  <2>2. DOMAIN queue' = Conn /\ DOMAIN stage' = Conn
    BY <1>0, <2>1
  <2>3. \A d \in Conn :
          /\ queue'[d] = queue[d] \/ queue'[d] = <<>>
          /\ stage'[d] = "free" => queue'[d] = <<>> /\ d \notin subs'
    BY <1>0, <2>1
  <2>4. \A t \in Strip : conn'[t] = conn[t] \/ conn'[t] = NoConn
    BY <2>1
  <2> QED
    BY <2>1, <2>2, <2>3, <2>4, ComesAndGoes
<1> QED
  BY <1>1, <1>2, <1>3, <1>4 DEF Serve

LEMMA StripNotes ==
  ASSUME NoteIInv, NEW t \in Strip, Connect(t) \/ Lose(t)
  PROVE  Table' /\ Mail' /\ Channels' /\ AllPast' /\ InOrder'
<1>0. /\ DOMAIN queue = Conn /\ DOMAIN stage = Conn
      /\ \A d \in Conn : stage[d] = "free" => queue[d] = <<>> /\ d \notin subs
  BY DEF NoteIInv, Channels
<1>1. ASSUME NEW c \in Conn, Subscribe(t, c)
      PROVE  Table' /\ Mail' /\ Channels' /\ AllPast' /\ InOrder'
  <2>1. /\ UNCHANGED <<order, born, tracker, sweep, heard, queue>> /\ subs' = subs \cup {c}
        /\ stage[c] = "free" /\ stage' = [stage EXCEPT ![c] = "subscribed"]
        /\ conn' = [conn EXCEPT ![t] = c]
    BY <1>1 DEF Subscribe, sessionVars
  <2>2. /\ DOMAIN stage' = Conn
        /\ \A d \in Conn : stage'[d] = "free" => stage[d] = "free" /\ d # c
    BY <1>0, <2>1
  <2>3. \A u \in Strip : conn'[u] = conn[u] \/ (conn'[u] \in Conn /\ queue'[conn'[u]] = <<>>)
    BY <1>0, <2>1
  <2> QED
    BY <1>0, <2>1, <2>2, <2>3, ComesAndGoes
<1>2. CASE Lose(t)
  <2>1. /\ UNCHANGED <<order, born, tracker, sweep, heard, queue, stage, subs>>
        /\ conn' = [conn EXCEPT ![t] = NoConn]
    BY <1>2 DEF Lose, sessionVars, connVars
  <2>2. \A u \in Strip : conn'[u] = conn[u] \/ conn'[u] = NoConn
    BY <2>1
  <2> QED
    BY <1>0, <2>1, <2>2, ComesAndGoes
<1> QED
  BY <1>1, <1>2 DEF Connect

LEMMA NoteSteps == NoteIInv /\ [Next]_vars => NoteIInv'
<1> SUFFICES ASSUME NoteIInv, [Next]_vars
             PROVE  Table' /\ Mail' /\ Channels' /\ AllPast' /\ InOrder'
  BY Steps DEF NoteIInv
<1> USE StatusAssumption
<1>0. IInv /\ Table
  BY DEF NoteIInv
<1>1. CASE \/ \E id \in Session : Child(id) \/ User(id)
           \/ \E ids \in Arrangement : SetSessionOrder(ids)
  <2>1. /\ Table' /\ \A i : i \in born \ Live => i \in born' \ Live'
        /\ tracker' = tracker /\ sweep' = sweep /\ UNCHANGED <<connVars, stripVars>>
    BY <1>0, <1>1, TablesStep
  <2>2. \A id : \A n \in Nat : Past(id, n) => Past(id, n)'
    BY <2>1 DEF Past, PastOf
  <2> QED
    BY <2>1, <2>2, PastStays
<1>2. CASE SweepBegin
  <2>1. UNCHANGED <<connVars, stripVars>> /\ sweep'.out = <<>>
    BY <1>2 DEF SweepBegin
  <2>2. Table' /\ \A id : \A n \in Nat : Past(id, n) => Past(id, n)'
    BY <1>0, <1>2, BeginPast
  <2> QED
    BY <2>1, <2>2, PastStays
<1>3. CASE SweepRead
  <2>1. UNCHANGED <<order, born, tracker, connVars, stripVars>> /\ sweep'.out = <<>>
    BY <1>3 DEF SweepRead, sessionVars
  <2>2. \A id : \A n \in Nat : Past(id, n) => Past(id, n)'
    BY <2>1 DEF Past, Live
  <2>3. Table'
    BY <1>0, <2>1 DEF Table, Live
  <2> QED
    BY <2>1, <2>2, <2>3, PastStays
<1>4. CASE SweepDiff
  BY <1>4, DiffNotes
<1>5. CASE Broadcast
  BY <1>5, BroadcastNotes
<1>6. ASSUME NEW c \in Conn, Serve(c)
      PROVE  Table' /\ Mail' /\ Channels' /\ AllPast' /\ InOrder'
  BY <1>6, ServeNotes
<1>7. ASSUME NEW t \in Strip, Connect(t) \/ Lose(t)
      PROVE  Table' /\ Mail' /\ Channels' /\ AllPast' /\ InOrder'
  BY <1>7, StripNotes
<1>8. CASE UNCHANGED vars
  <2>1. UNCHANGED <<order, born, tracker, sweep, connVars, stripVars>>
    BY <1>8 DEF vars, sessionVars
  <2>2. \A id : \A n \in Nat : Past(id, n) => Past(id, n)'
    BY <2>1 DEF Past, Live
  <2>3. Table'
    BY <1>0, <2>1 DEF Table, Live
  <2> QED
    BY <2>1, <2>2, <2>3, PastStays
<1> QED
  BY <1>1, <1>2, <1>3, <1>4, <1>5, <1>6, <1>7, <1>8 DEF Next, Sweep

LEMMA NoteStarts == Init => NoteIInv
<1> SUFFICES ASSUME Init PROVE Table /\ Mail /\ Channels /\ AllPast /\ InOrder
  BY Starts DEF NoteIInv
<1>1. /\ order = <<>> /\ tracker = <<>> /\ sweep.out = <<>> /\ sweep.at = "idle"
      /\ queue = [c \in Conn |-> <<>>] /\ stage = [c \in Conn |-> "free"] /\ subs = {}
      /\ conn = [t \in Strip |-> NoConn] /\ heard = [t \in Strip |-> <<>>]
  BY DEF Init, IdleSweep
<1>2. Noted(<<>>) /\ DOMAIN <<>> = {}
  <2>1. <<>> \in Seq({})
    OBVIOUS
  <2> QED
    BY <2>1, OwnSeq DEF Noted
<1>3. Table
  BY <1>1 DEF Table, Live, ToSet
<1>4. Mail
  BY <1>1, <1>2 DEF Mail, Once
<1>5. Channels
  BY <1>1, <1>2 DEF Channels, Rising
<1>6. AllPast
  BY <1>1, <1>2 DEF AllPast
<1>7. InOrder
  BY <1>1, <1>2 DEF InOrder, Below, HeardBelow
<1> QED
  BY <1>3, <1>4, <1>5, <1>6, <1>7

\* Each notification is given to a strip at most once and in order, over however
\* many connections, resubscriptions and dropped queues: a note that is still on
\* its way is above every one given, and the tracker is past them all
\* (statusTracker.notifDelivered).
THEOREM NotifiedAlwaysOnce == Spec => []NotifiedOnce
<1>1. NoteIInv => NotifiedOnce
  <2> SUFFICES ASSUME NoteIInv, NEW t \in Strip, conn[t] # NoConn,
                      NEW i \in DOMAIN queue[conn[t]], queue[conn[t]][i].note > 0
               PROVE  /\ queue[conn[t]][i].id \in DOMAIN heard[t] =>
                           heard[t][queue[conn[t]][i].id] < queue[conn[t]][i].note
                      /\ \A j \in 1 .. i - 1 :
                           queue[conn[t]][j].id = queue[conn[t]][i].id =>
                             queue[conn[t]][j].note < queue[conn[t]][i].note
    BY DEF NotifiedOnce
  <2>1. /\ HeardBelow(t, queue[conn[t]]) /\ conn[t] \in Conn
    BY DEF NoteIInv, InOrder, Channels
  <2>2. PICK q : q = queue[conn[t]]
    OBVIOUS
  <2>3. Noted(q) /\ Rising(q)
    BY <2>1, <2>2 DEF NoteIInv, Channels
  <2>4. i \in 1 .. Len(q) /\ DOMAIN q = 1 .. Len(q) /\ Len(q) \in Nat
    BY <2>2, <2>3 DEF Noted
  <2>5. \A j \in 1 .. i - 1 : j \in DOMAIN q /\ j < i
    BY <2>4
  <2> QED
    BY <2>1, <2>2, <2>3, <2>5 DEF HeardBelow, Rising
<1> QED
  BY <1>1, NoteStarts, NoteSteps, PTL DEF Spec

-----------------------------------------------------------------------------
(* What a strip shows.                                                     *)

\* What the faces of a session are made of, as it is now.
Now(id) == [name |-> name[id], pct |-> screen[id].pct, rank |-> Rank(id),
            outcome |-> outcome[id], state |-> screen[id].state]
Dead == born \ Live

\* A face shows what the tracker sent last, or the session has moved on since
\* and the next sweep will find it so.
ShowsOrMoved(f, tr, now) ==
  /\ f.name = tr.name \/ now.name # tr.name
  /\ f.pct = tr.pct \/ now.pct # tr.pct
  /\ f.rank = tr.rank \/ now.rank # tr.rank
  /\ f.status = tr.status \/ (now.outcome # "running" /\ now.outcome # tr.status)
  /\ tr.reports => f.reports
  /\ f.reports => tr.reports \/ now.state >= 0
\* A face of a snapshot in the making, whose screen has yet to be read.
HalfShows(f, tr, now) ==
  /\ f.name = tr.name \/ now.name # tr.name
  /\ f.rank = tr.rank \/ now.rank # tr.rank
  /\ f.status = tr.status
  /\ tr.reports => f.reports \/ now.state >= 0
  /\ f.reports => tr.reports

\* Of session id, faces v are right, or what is tracked will put them right:
\* a session shown is live or a sweep will tell of its end, one that has been
\* sent is shown.
Whole(f) ==
  /\ f.reports \in BOOLEAN
  /\ f = [status |-> f.status, name |-> f.name, pct |-> f.pct, rank |-> f.rank,
          reports |-> f.reports]
Sent(id, live, trk) == id \in live /\ id \in DOMAIN trk /\ trk[id].status # ""
Right(v, id, live, trk, now) ==
  /\ id \in DOMAIN v => Whole(v[id]) /\ (id \in live \/ id \in DOMAIN trk)
  /\ Sent(id, live, trk) => id \in DOMAIN v /\ ShowsOrMoved(v[id], trk[id], now)
HalfRight(v, id, live, trk, now) ==
  /\ id \in DOMAIN v => Whole(v[id]) /\ (id \in live \/ id \in DOMAIN trk)
  /\ Sent(id, live, trk) => id \in DOMAIN v /\ HalfShows(v[id], trk[id], now)

\* An event tells the truth; in a channel each does or another one of the
\* session follows, in the channel or from the sweep.
Tells(ev, dead, trk) ==
  IF ev.removed THEN ev.id \in dead /\ ev.id \notin DOMAIN trk
  ELSE ev.id \in DOMAIN trk /\ ev.face = Shown(trk[ev.id])
Names(q, id) == \E i \in DOMAIN q : q[i].id = id
Settles(q, out, dead, trk) ==
  \A i \in DOMAIN q : \/ Tells(q[i], dead, trk)
                      \/ \E j \in DOMAIN q : i < j /\ q[j].id = q[i].id
                      \/ Names(out, q[i].id)

\* The sweep knows all that is tracked and live, and what it has read holds.
Covered ==
  /\ IsInjective(order)
  /\ sweep.at = "listed" => DOMAIN tracker \cap Live \subseteq sweep.todo
  /\ sweep.at = "read" => DOMAIN tracker \cap Live \subseteq DOMAIN sweep.read
  /\ sweep.at = "read" => \A id \in DOMAIN sweep.read :
                            sweep.read[id].state >= 0 => screen[id].state >= 0
\* A tracker says that a session reports if it holds a latch, and only if it
\* does or the program has reported.
Reporting ==
  \A id \in DOMAIN tracker :
    /\ tracker[id].reports \in BOOLEAN
    /\ tracker[id].latched # NoClass => tracker[id].reports
    /\ tracker[id].reports => tracker[id].latched # NoClass \/ screen[id].state >= 0
Telling ==
  /\ \A k \in DOMAIN sweep.out : Tells(sweep.out[k], Dead, tracker)
  /\ \A c \in subs : c \in Conn /\ Settles(queue[c], sweep.out, Dead, tracker)
Showing ==
  /\ \A t \in Strip : view[t] = [id \in DOMAIN view[t] |-> view[t][id]]
  /\ \A c \in subs : stage[c] = "reading" => \A id :
       \/ Names(queue[c], id) \/ Names(sweep.out, id)
       \/ HalfRight(snap[c], id, Live, tracker, Now(id))
  /\ \A t \in Strip : conn[t] \in subs /\ stage[conn[t]] = "streaming" => \A id :
       \/ Names(queue[conn[t]], id) \/ Names(sweep.out, id)
       \/ Right(view[t], id, Live, tracker, Now(id))
\* Every connection may have a snapshot in the making.
Making == DOMAIN snap = Conn
StripIInv == NoteIInv /\ Covered /\ Reporting /\ Telling /\ Showing /\ Making

-----------------------------------------------------------------------------
\* How a session's step moves what its faces are made of: not back to what the
\* tracker sent last, unless it was there; an end is an end, and a program that
\* has reported has reported.
Moves(now, new, tr) ==
  /\ new.name = now.name \/ new.name # tr.name
  /\ new.pct = now.pct \/ new.pct # tr.pct
  /\ new.rank = now.rank \/ new.rank # tr.rank
  /\ now.outcome # "running" => new.outcome = now.outcome
  /\ now.state >= 0 => new.state >= 0

\* A step of sessions, with a sweep to come that will find it.
Drift ==
  /\ UNCHANGED <<tracker, sweep, connVars, stripVars>>
  /\ Dead \subseteq Dead'
  /\ DOMAIN tracker \cap Live' \subseteq Live
  /\ Live \ Live' \subseteq DOMAIN tracker
  /\ \A id \in DOMAIN tracker \cap Live \cap Live' : Moves(Now(id), Now(id)', tracker[id])
  /\ \A id \in Session : screen[id].state >= 0 => screen'[id].state >= 0

LEMMA RightStays ==
  ASSUME NEW v, NEW id, NEW live, NEW live2, NEW trk, NEW now, NEW new,
         id \in live2 /\ id \in DOMAIN trk => id \in live,
         id \in live => id \in live2 \/ id \in DOMAIN trk,
         id \in live /\ id \in live2 /\ id \in DOMAIN trk => Moves(now, new, trk[id])
  PROVE  /\ Right(v, id, live, trk, now) => Right(v, id, live2, trk, new)
         /\ HalfRight(v, id, live, trk, now) => HalfRight(v, id, live2, trk, new)
<1>1. ASSUME NEW f, Moves(now, new, trk[id]), ShowsOrMoved(f, trk[id], now)
      PROVE  ShowsOrMoved(f, trk[id], new)
  BY <1>1 DEF Moves, ShowsOrMoved
<1>2. ASSUME NEW f, Moves(now, new, trk[id]), HalfShows(f, trk[id], now)
      PROVE  HalfShows(f, trk[id], new)
  BY <1>2 DEF Moves, HalfShows
<1>3. ASSUME Sent(id, live2, trk)
      PROVE  Sent(id, live, trk) /\ Moves(now, new, trk[id])
  <2>1. id \in live /\ id \in live2 /\ id \in DOMAIN trk /\ trk[id].status # ""
    BY <1>3 DEF Sent
  <2>2. Moves(now, new, trk[id])
    BY <2>1
  <2> QED
    BY <2>1, <2>2 DEF Sent
<1>4. ASSUME Right(v, id, live, trk, now) PROVE Right(v, id, live2, trk, new)
  BY <1>1, <1>3, <1>4 DEF Right
<1>5. ASSUME HalfRight(v, id, live, trk, now) PROVE HalfRight(v, id, live2, trk, new)
  BY <1>2, <1>3, <1>5 DEF HalfRight
<1> QED
  BY <1>4, <1>5

LEMMA TellsStays ==
  ASSUME NEW ev, NEW dead, NEW dead2, NEW trk, dead \subseteq dead2
  PROVE  Tells(ev, dead, trk) => Tells(ev, dead2, trk)
BY DEF Tells

LEMMA DriftKeeps ==
  ASSUME StripIInv, Drift, IsInjective(order)'
  PROVE  Covered' /\ Reporting' /\ Telling' /\ Showing'
<1> USE DEF connVars, stripVars
<1>0. /\ DOMAIN tracker \subseteq Session
      /\ sweep.at = "read" => DOMAIN sweep.read \subseteq Session
  BY DEF StripIInv, NoteIInv, IInv, Tracked, Phases
<1>1. Covered'
  <2>1. /\ sweep' = sweep /\ tracker' = tracker /\ DOMAIN tracker \cap Live' \subseteq Live
        /\ \A id \in Session : screen[id].state >= 0 => screen'[id].state >= 0
    BY DEF Drift
  <2>2. /\ sweep.at = "listed" => DOMAIN tracker \cap Live' \subseteq sweep.todo
        /\ sweep.at = "read" => DOMAIN tracker \cap Live' \subseteq DOMAIN sweep.read
    BY <2>1 DEF StripIInv, Covered
  <2>3. sweep.at = "read" => \A id \in DOMAIN sweep.read :
                               sweep.read[id].state >= 0 => screen'[id].state >= 0
    BY <1>0, <2>1 DEF StripIInv, Covered
  <2> QED
    BY <2>1, <2>2, <2>3 DEF Covered
<1>2. Reporting'
  BY <1>0 DEF StripIInv, Reporting, Drift
<1>3. UNCHANGED <<tracker, sweep, connVars, stripVars>> /\ Dead \subseteq Dead'
  BY DEF Drift
<1>4. \A ev : Tells(ev, Dead, tracker) => Tells(ev, Dead', tracker)
  BY <1>3, TellsStays
<1>5. Telling'
  <2>1. \A k \in DOMAIN sweep.out : Tells(sweep.out[k], Dead', tracker)
    BY <1>4 DEF StripIInv, Telling
  <2>2. \A c \in subs : c \in Conn /\ Settles(queue[c], sweep.out, Dead', tracker)
    BY <1>4 DEF StripIInv, Telling, Settles
  <2> QED
    BY <1>3, <2>1, <2>2 DEF Telling
<1>6. ASSUME NEW v, NEW id
      PROVE  /\ Right(v, id, Live, tracker, Now(id)) => Right(v, id, Live', tracker, Now(id)')
             /\ HalfRight(v, id, Live, tracker, Now(id)) => HalfRight(v, id, Live', tracker, Now(id)')
  <2>1. /\ id \in Live' /\ id \in DOMAIN tracker => id \in Live
        /\ id \in Live => id \in Live' \/ id \in DOMAIN tracker
        /\ id \in Live /\ id \in Live' /\ id \in DOMAIN tracker => Moves(Now(id), Now(id)', tracker[id])
    BY DEF Drift
  <2> QED
    BY <2>1, RightStays
<1>7. Showing'
  <2>1. ASSUME NEW c \in subs, stage[c] = "reading", NEW id
        PROVE  \/ Names(queue[c], id) \/ Names(sweep.out, id)
               \/ HalfRight(snap[c], id, Live', tracker, Now(id)')
    BY <1>6, <2>1 DEF StripIInv, Showing
  <2>2. ASSUME NEW t \in Strip, conn[t] \in subs, stage[conn[t]] = "streaming", NEW id
        PROVE  \/ Names(queue[conn[t]], id) \/ Names(sweep.out, id)
               \/ Right(view[t], id, Live', tracker, Now(id)')
    BY <1>6, <2>2 DEF StripIInv, Showing
  <2>3. \A t \in Strip : view[t] = [id \in DOMAIN view[t] |-> view[t][id]]
    BY DEF StripIInv, Showing
  <2> QED
    BY <1>3, <2>1, <2>2, <2>3 DEF Showing
<1> QED
  BY <1>1, <1>2, <1>5, <1>7

\* Nothing of a session that is not touched moves.
LEMMA StillMoves ==
  ASSUME NEW now, NEW tr
  PROVE  Moves(now, now, tr)
BY DEF Moves

LEMMA SameOrder ==
  ASSUME order' = order, born' = born
  PROVE  /\ Live' = Live /\ Dead' = Dead
         /\ \A id : Rank(id)' = Rank(id)
BY DEF Live, Dead, Rank

LEMMA ReportDrift ==
  ASSUME StripIInv, StatusAssumption, Mishaps = {}, NEW id \in Session, NEW p \in Reported,
         Report(id, p)
  PROVE  Drift /\ IsInjective(order)'
<1>0. /\ order' = order /\ born' = born /\ name' = name /\ outcome' = outcome
      /\ UNCHANGED <<tracker, sweep, connVars, stripVars>>
      /\ screen' = [screen EXCEPT ![id].state = p[1], ![id].pct = p[2]] /\ ~Reverts
      /\ screen \in [Session -> Screens]
  BY DEF Report, Change, StripIInv, NoteIInv, IInv, Sessions
<1>1. p[1] >= 0
  BY DEF StatusAssumption
<1>2. /\ screen'[id].state = p[1] /\ screen'[id].pct = p[2]
      /\ \A i \in Session : i # id => screen'[i] = screen[i]
  BY <1>0 DEF Screens
<1>3. IsInjective(order)'
  BY <1>0 DEF StripIInv, Covered, IsInjective
<1>4. Live' = Live /\ Dead' = Dead /\ \A i : Rank(i)' = Rank(i)
  BY <1>0, SameOrder
<1>5. ASSUME NEW i \in DOMAIN tracker \cap Live
      PROVE  Moves(Now(i), Now(i)', tracker[i])
  <2>0. i \in Session
    BY DEF StripIInv, NoteIInv, IInv, Tracked
  <2>1. CASE i = id
    <3>1. tracker[id].pct = screen'[id].pct => screen[id].pct = screen'[id].pct
      BY <1>0, <1>4, <2>1 DEF Reverts
    <3> QED
      BY <1>0, <1>1, <1>2, <1>4, <2>1, <3>1 DEF Moves, Now
  <2>2. CASE i # id
    <3>1. Now(i)' = Now(i)
      BY <1>0, <1>2, <1>4, <2>0, <2>2 DEF Now
    <3> QED
      BY <3>1, StillMoves
  <2> QED
    BY <2>1, <2>2
<1>6. \A i \in Session : screen[i].state >= 0 => screen'[i].state >= 0
  BY <1>1, <1>2
<1> QED
  BY <1>0, <1>3, <1>4, <1>5, <1>6 DEF Drift

LEMMA NotifyDrift ==
  ASSUME StripIInv, NEW id \in Session, NEW class, Notify(id, class)
  PROVE  Drift /\ IsInjective(order)'
<1>0. /\ order' = order /\ born' = born /\ name' = name /\ outcome' = outcome
      /\ UNCHANGED <<tracker, sweep, connVars, stripVars>>
      /\ screen' = [screen EXCEPT ![id].seq = screen[id].seq + 1, ![id].class = class]
      /\ screen \in [Session -> Screens]
  BY DEF Notify, Change, StripIInv, NoteIInv, IInv, Sessions
<1>1. \A i \in Session : screen'[i].state = screen[i].state /\ screen'[i].pct = screen[i].pct
  BY <1>0 DEF Screens
<1>2. IsInjective(order)'
  BY <1>0 DEF StripIInv, Covered, IsInjective
<1>3. Live' = Live /\ Dead' = Dead /\ \A i : Rank(i)' = Rank(i)
  BY <1>0, SameOrder
<1>4. ASSUME NEW i \in DOMAIN tracker
      PROVE  Moves(Now(i), Now(i)', tracker[i])
  <2>1. i \in Session
    BY DEF StripIInv, NoteIInv, IInv, Tracked
  <2>2. Now(i)' = Now(i)
    BY <1>0, <1>1, <1>3, <2>1 DEF Now
  <2> QED
    BY <2>2, StillMoves
<1> QED
  BY <1>0, <1>1, <1>2, <1>3, <1>4 DEF Drift

LEMMA ExitDrift ==
  ASSUME StripIInv, NEW id \in Session, NEW how \in {"exited", "crashed"}, Exit(id, how)
  PROVE  Drift /\ IsInjective(order)'
<1>0. /\ order' = order /\ born' = born /\ name' = name /\ screen' = screen
      /\ UNCHANGED <<tracker, sweep, connVars, stripVars>>
      /\ outcome[id] = "running" /\ outcome' = [outcome EXCEPT ![id] = how]
      /\ outcome \in [Session -> Outcome]
  BY DEF Exit, Change, StripIInv, NoteIInv, IInv, Sessions
<1>1. \A i \in Session : outcome[i] # "running" => outcome'[i] = outcome[i]
  BY <1>0
<1>2. IsInjective(order)'
  BY <1>0 DEF StripIInv, Covered, IsInjective
<1>3. Live' = Live /\ Dead' = Dead /\ \A i : Rank(i)' = Rank(i)
  BY <1>0, SameOrder
<1>4. ASSUME NEW i \in DOMAIN tracker
      PROVE  Moves(Now(i), Now(i)', tracker[i])
  <2>1. i \in Session
    BY DEF StripIInv, NoteIInv, IInv, Tracked
  <2> QED
    BY <1>0, <1>1, <1>3, <2>1 DEF Now, Moves
<1> QED
  BY <1>0, <1>2, <1>3, <1>4 DEF Drift

LEMMA NameDrift ==
  ASSUME StripIInv, Mishaps = {}, NEW id \in Session, NEW n, SetSessionPinnedTitle(id, n)
  PROVE  Drift /\ IsInjective(order)'
<1>0. /\ order' = order /\ born' = born /\ screen' = screen /\ outcome' = outcome
      /\ UNCHANGED <<tracker, sweep, connVars, stripVars>> /\ ~Reverts
  BY DEF SetSessionPinnedTitle, Change
<1>1. IsInjective(order)'
  BY <1>0 DEF StripIInv, Covered, IsInjective
<1>2. Live' = Live /\ Dead' = Dead /\ \A i : Rank(i)' = Rank(i)
  BY <1>0, SameOrder
<1>3. ASSUME NEW i \in DOMAIN tracker \cap Live
      PROVE  Moves(Now(i), Now(i)', tracker[i])
  <2>1. name'[i] = name[i] \/ name'[i] # tracker[i].name
    BY <1>0, <1>2 DEF Reverts
  <2> QED
    BY <1>0, <1>2, <2>1 DEF Now, Moves
<1> QED
  BY <1>0, <1>1, <1>2, <1>3 DEF Drift

\* Where things are once one has been taken out of a sequence.
LEMMA RemoveAtIs ==
  ASSUME NEW S, NEW s \in Seq(S), NEW k \in 1 .. Len(s)
  PROVE  /\ DOMAIN RemoveAt(s, k) = 1 .. Len(s) - 1
         /\ \A i \in 1 .. Len(s) - 1 : RemoveAt(s, k)[i] = s[IF i < k THEN i ELSE i + 1]
<1> DEFINE a == SubSeq(s, 1, k - 1)
           b == SubSeq(s, k + 1, Len(s))
<1>1. /\ a \in Seq(S) /\ Len(a) = k - 1 /\ \A i \in 1 .. k - 1 : a[i] = s[i]
      /\ b \in Seq(S) /\ Len(b) = Len(s) - k /\ \A i \in 1 .. Len(s) - k : b[i] = s[i + k]
  OBVIOUS
<1>2. RemoveAt(s, k) = a \o b
  BY DEF RemoveAt
<1> HIDE DEF a, b
<1>3. /\ DOMAIN (a \o b) = 1 .. Len(s) - 1
      /\ \A i \in 1 .. Len(s) - 1 : (a \o b)[i] = IF i <= k - 1 THEN a[i] ELSE b[i - (k - 1)]
  BY <1>1
<1>4. ASSUME NEW i \in 1 .. Len(s) - 1
      PROVE  (a \o b)[i] = s[IF i < k THEN i ELSE i + 1]
  <2>1. CASE i < k
    <3>1. i <= k - 1 /\ i \in 1 .. k - 1
      BY <2>1
    <3> QED
      BY <1>1, <1>3, <2>1, <3>1
  <2>2. CASE ~(i < k)
    <3>1. ~(i <= k - 1) /\ i - (k - 1) \in 1 .. Len(s) - k /\ (i - (k - 1)) + k = i + 1
      BY <2>2
    <3>2. (a \o b)[i] = b[i - (k - 1)]
      BY <1>3, <3>1
    <3>3. b[i - (k - 1)] = s[i + 1]
      BY <1>1, <3>1
    <3> QED
      BY <2>2, <3>2, <3>3
  <2> QED
    BY <2>1, <2>2
<1> QED
  BY <1>2, <1>3, <1>4

LEMMA CloseDrift ==
  ASSUME StripIInv, Mishaps = {}, NEW id \in Session, Close(id)
  PROVE  Drift /\ IsInjective(order)'
<1>0. /\ born' = born /\ screen' = screen /\ outcome' = outcome /\ name' = name
      /\ UNCHANGED <<tracker, sweep, connVars, stripVars>> /\ ~Reverts
      /\ id \in Live /\ id \in DOMAIN tracker /\ order \in Seq(Session) /\ IsInjective(order)
  BY DEF Close, Change, StripIInv, NoteIInv, IInv, Sessions, Covered
<1> DEFINE k == CHOOSE j \in DOMAIN order : order[j] = id
<1>1. k \in 1 .. Len(order) /\ order[k] = id /\ Rank(id) + 1 = k
  <2>1. k \in 1 .. Len(order) /\ order[k] = id
    BY <1>0 DEF Live, ToSet
  <2> QED
    BY <2>1 DEF Rank
<1> HIDE DEF k
<1>2. order' = RemoveAt(order, k)
  BY <1>1 DEF Close
<1>3. /\ DOMAIN order' = 1 .. Len(order) - 1 /\ DOMAIN order = 1 .. Len(order)
      /\ \A i \in 1 .. Len(order) - 1 : order'[i] = order[IF i < k THEN i ELSE i + 1]
  BY <1>0, <1>1, <1>2, RemoveAtIs
<1>4. Len(order) \in Nat
  BY <1>0
<1>5. IsInjective(order)'
  <2> SUFFICES ASSUME NEW i \in 1 .. Len(order) - 1, NEW j \in 1 .. Len(order) - 1, i # j
               PROVE  order'[i] # order'[j]
    BY <1>3 DEF IsInjective
  <2> DEFINE u == IF i < k THEN i ELSE i + 1
             w == IF j < k THEN j ELSE j + 1
  <2>1. u \in 1 .. Len(order) /\ w \in 1 .. Len(order) /\ u # w
    BY <1>1, <1>4
  <2> QED
    BY <1>0, <1>3, <2>1 DEF IsInjective
<1>6. Live' \subseteq Live
  <2>1. \A i \in 1 .. Len(order) - 1 : (IF i < k THEN i ELSE i + 1) \in 1 .. Len(order)
    BY <1>1, <1>4
  <2> QED
    BY <1>3, <2>1 DEF Live, ToSet
<1>7. Live \subseteq Live' \cup {id}
  <2> SUFFICES ASSUME NEW i \in 1 .. Len(order), order[i] # id
               PROVE  \E j \in 1 .. Len(order) - 1 : order'[j] = order[i]
    BY <1>3 DEF Live, ToSet
  <2>1. i # k
    BY <1>1
  <2>2. CASE i < k
    <3>1. i \in 1 .. Len(order) - 1
      BY <1>1, <1>4, <2>2
    <3> QED
      BY <1>3, <2>2, <3>1
  <2>3. CASE ~(i < k)
    <3>1. i - 1 \in 1 .. Len(order) - 1 /\ ~(i - 1 < k) /\ (i - 1) + 1 = i
      BY <1>1, <1>4, <2>1, <2>3
    <3>2. order'[i - 1] = order[i]
      BY <1>3, <3>1
    <3> QED
      BY <3>1, <3>2
  <2> QED
    BY <2>2, <2>3
<1>8. ASSUME NEW i \in DOMAIN tracker \cap Live \cap Live'
      PROVE  Moves(Now(i), Now(i)', tracker[i])
  <2>1. Rank(i)' = Rank(i) \/ Rank(i)' # tracker[i].rank
    BY <1>0 DEF Reverts
  <2> QED
    BY <1>0, <2>1 DEF Now, Moves
<1>9. Dead \subseteq Dead'
  BY <1>0, <1>6 DEF Dead
<1> QED
  BY <1>0, <1>5, <1>6, <1>7, <1>8, <1>9 DEF Drift

LEMMA OrderDrift ==
  ASSUME StripIInv, Mishaps = {}, NEW ids, SetSessionOrder(ids)
  PROVE  Drift /\ IsInjective(order)'
<1>0. /\ born' = born /\ screen' = screen /\ outcome' = outcome /\ name' = name
      /\ UNCHANGED <<tracker, sweep, connVars, stripVars>> /\ ~Reverts
      /\ order' = ids /\ ToSet(ids) = Live /\ IsInjective(ids)
  BY DEF SetSessionOrder, Change
<1>1. Live' = Live
  BY <1>0 DEF Live
<1>2. IsInjective(order)'
  BY <1>0 DEF IsInjective
<1>3. ASSUME NEW i \in DOMAIN tracker \cap Live \cap Live'
      PROVE  Moves(Now(i), Now(i)', tracker[i])
  <2>1. Rank(i)' = Rank(i) \/ Rank(i)' # tracker[i].rank
    BY <1>0 DEF Reverts
  <2> QED
    BY <1>0, <2>1 DEF Now, Moves
<1> QED
  BY <1>0, <1>1, <1>2, <1>3 DEF Drift, Dead

LEMMA CreateDrift ==
  ASSUME StripIInv, NEW id \in Session, Create(id)
  PROVE  Drift /\ IsInjective(order)'
<1>0. /\ screen' = screen /\ outcome' = outcome /\ name' = name
      /\ UNCHANGED <<tracker, sweep, connVars, stripVars>>
      /\ order' = Append(order, id) /\ born' = born \cup {id} /\ id \notin born
      /\ order \in Seq(Session) /\ IsInjective(order)
      /\ Live \subseteq born /\ DOMAIN tracker \subseteq born
  BY DEF Create, Change, StripIInv, NoteIInv, IInv, Sessions, Covered, Table
<1>1. /\ DOMAIN order' = 1 .. Len(order) + 1 /\ DOMAIN order = 1 .. Len(order)
      /\ Len(order) \in Nat /\ order'[Len(order) + 1] = id
      /\ \A i \in 1 .. Len(order) : order'[i] = order[i] /\ order[i] # id
  <2>1. \A i \in DOMAIN order : order[i] \in Live
    BY DEF Live, ToSet
  <2> QED
    BY <1>0, <2>1
<1>2. Live' = Live \cup {id}
  <2>1. \A x : (\E i \in 1 .. Len(order) + 1 : order'[i] = x) <=>
               (\E i \in 1 .. Len(order) : order[i] = x) \/ x = id
    <3>1. \A i \in 1 .. Len(order) + 1 : i \in 1 .. Len(order) \/ i = Len(order) + 1
      BY <1>1
    <3>2. \A i \in 1 .. Len(order) : i \in 1 .. Len(order) + 1
      BY <1>1
    <3>3. Len(order) + 1 \in 1 .. Len(order) + 1
      BY <1>1
    <3> QED
      BY <1>1, <3>1, <3>2, <3>3
  <2> QED
    BY <1>1, <2>1 DEF Live, ToSet
<1>3. IsInjective(order)'
  <2> SUFFICES ASSUME NEW i \in 1 .. Len(order) + 1, NEW j \in 1 .. Len(order) + 1,
                      order'[i] = order'[j]
               PROVE  i = j
    BY <1>1 DEF IsInjective
  <2>1. CASE i \in 1 .. Len(order) /\ j \in 1 .. Len(order)
    BY <1>0, <1>1, <2>1 DEF IsInjective
  <2>2. CASE i \notin 1 .. Len(order) \/ j \notin 1 .. Len(order)
    BY <1>1, <2>2
  <2> QED
    BY <2>1, <2>2
<1>4. ASSUME NEW i \in Live PROVE Rank(i)' = Rank(i)
  <2> DEFINE u == CHOOSE j \in DOMAIN order : order[j] = i
             w == CHOOSE j \in DOMAIN order' : order'[j] = i
  <2>1. u \in 1 .. Len(order) /\ order[u] = i
    BY <1>1 DEF Live, ToSet
  <2>2. u \in DOMAIN order' /\ order'[u] = i
    BY <1>1, <2>1
  <2>3. w \in DOMAIN order' /\ order'[w] = i
    BY <2>2
  <2>4. w = u
    BY <1>3, <2>2, <2>3 DEF IsInjective
  <2> QED
    BY <2>4 DEF Rank
<1>5. ASSUME NEW i \in DOMAIN tracker \cap Live
      PROVE  Moves(Now(i), Now(i)', tracker[i])
  <2>1. Now(i)' = Now(i)
    BY <1>0, <1>4 DEF Now
  <2> QED
    BY <2>1, StillMoves
<1>6. Dead \subseteq Dead' /\ DOMAIN tracker \cap Live' \subseteq Live /\ Live \subseteq Live'
  BY <1>0, <1>2 DEF Dead
<1> QED
  BY <1>0, <1>3, <1>5, <1>6 DEF Drift

-----------------------------------------------------------------------------
\* The sweep begins: what it now tracks has not been sent yet.
LEMMA BeginStrip ==
  ASSUME StripIInv, SweepBegin
  PROVE  Covered' /\ Reporting' /\ Telling' /\ Showing'
<1>0. /\ UNCHANGED <<order, born, screen, outcome, name, connVars, stripVars>>
      /\ sweep.at = "idle" /\ sweep' = [at |-> "listed", todo |-> Live, read |-> <<>>, out |-> <<>>]
      /\ tracker' = [id \in DOMAIN tracker \cup Live |-> TrackerOf(id)]
      /\ sweep.out = <<>>
  BY DEF SweepBegin, sessionVars, StripIInv, NoteIInv, Mail
<1>1. Live' = Live /\ Dead' = Dead /\ \A id : Rank(id)' = Rank(id)
  BY <1>0, SameOrder
<1>2. \A id : Now(id)' = Now(id)
  BY <1>0, <1>1 DEF Now
<1>3. /\ DOMAIN tracker' = DOMAIN tracker \cup Live
      /\ \A id \in DOMAIN tracker : tracker'[id] = tracker[id]
  BY <1>0 DEF TrackerOf
<1>4. \A id \in Live : id \notin DOMAIN tracker => tracker'[id] = NewTracker
  BY <1>0 DEF TrackerOf
<1>5. Covered'
  <2>1. IsInjective(order')
    BY <1>0 DEF StripIInv, Covered, IsInjective
  <2>2. sweep'.at = "listed" /\ sweep'.todo = Live
    BY <1>0
  <2> QED
    BY <1>1, <2>1, <2>2 DEF Covered
<1>6. Reporting'
  <2> SUFFICES ASSUME NEW id \in DOMAIN tracker'
               PROVE  /\ tracker'[id].reports \in BOOLEAN
                      /\ tracker'[id].latched # NoClass => tracker'[id].reports
                      /\ tracker'[id].reports =>
                           tracker'[id].latched # NoClass \/ screen[id].state >= 0
    BY <1>0 DEF Reporting
  <2>1. CASE id \in DOMAIN tracker
    BY <1>3, <2>1 DEF StripIInv, Reporting
  <2>2. CASE id \notin DOMAIN tracker
    <3>1. tracker'[id] = NewTracker
      BY <1>3, <1>4, <2>2
    <3>2. ~NewTracker.reports /\ NewTracker.reports \in BOOLEAN /\ NewTracker.latched = NoClass
      BY DEF NewTracker
    <3> QED
      BY <3>1, <3>2
  <2> QED
    BY <2>1, <2>2
<1>7. \A ev : Tells(ev, Dead, tracker) => Tells(ev, Dead, tracker')
  <2> SUFFICES ASSUME NEW ev, Tells(ev, Dead, tracker)
               PROVE  Tells(ev, Dead, tracker')
    OBVIOUS
  <2>1. ev.id \in Dead => ev.id \notin Live
    BY DEF Dead
  <2>2. CASE ev.removed
    BY <1>3, <2>1, <2>2 DEF Tells
  <2>3. CASE ~ev.removed
    BY <1>3, <2>3 DEF Tells
  <2> QED
    BY <2>2, <2>3
<1>8. sweep'.out = <<>>
  BY <1>0
<1>9. Telling'
  <2>1. \A c \in subs : c \in Conn /\ Settles(queue[c], sweep.out, Dead, tracker')
    BY <1>7 DEF StripIInv, Telling, Settles
  <2>2. DOMAIN sweep'.out = {}
    BY <1>8
  <2> QED
    BY <1>0, <1>1, <1>8, <2>1, <2>2 DEF Telling, connVars
<1>10. ASSUME NEW v, NEW id
       PROVE  /\ Right(v, id, Live, tracker, Now(id)) => Right(v, id, Live, tracker', Now(id))
              /\ HalfRight(v, id, Live, tracker, Now(id)) => HalfRight(v, id, Live, tracker', Now(id))
  <2>1. NewTracker.status = ""
    BY DEF NewTracker
  <2>2. ASSUME Sent(id, Live, tracker')
        PROVE  Sent(id, Live, tracker) /\ tracker'[id] = tracker[id]
    BY <1>3, <1>4, <2>1, <2>2 DEF Sent
  <2>3. id \in DOMAIN tracker => id \in DOMAIN tracker'
    BY <1>3
  <2> QED
    BY <2>2, <2>3 DEF Right, HalfRight
<1>11. Showing'
  <2>1. ASSUME NEW c \in subs, stage[c] = "reading", NEW id
        PROVE  \/ Names(queue[c], id) \/ Names(sweep.out, id)
               \/ HalfRight(snap[c], id, Live, tracker', Now(id))
    BY <1>10, <2>1 DEF StripIInv, Showing
  <2>2. ASSUME NEW t \in Strip, conn[t] \in subs, stage[conn[t]] = "streaming", NEW id
        PROVE  \/ Names(queue[conn[t]], id) \/ Names(sweep.out, id)
               \/ Right(view[t], id, Live, tracker', Now(id))
    BY <1>10, <2>2 DEF StripIInv, Showing
  <2>3. \A t \in Strip : view[t] = [id \in DOMAIN view[t] |-> view[t][id]]
    BY DEF StripIInv, Showing
  <2> QED
    BY <1>0, <1>1, <1>2, <1>8, <2>1, <2>2, <2>3 DEF Showing, connVars, stripVars
<1> QED
  BY <1>5, <1>6, <1>9, <1>11

LEMMA ReadStrip ==
  ASSUME StripIInv, SweepRead
  PROVE  Covered' /\ Reporting' /\ Telling' /\ Showing'
<1>0. /\ UNCHANGED <<order, born, screen, outcome, name, tracker, connVars, stripVars>>
      /\ sweep.at = "listed" /\ sweep.out = <<>>
      /\ sweep' = [at |-> "read", todo |-> {}, out |-> <<>>,
                   read |-> [id \in sweep.todo |-> Reading(id)]]
  BY DEF SweepRead, sessionVars, StripIInv, NoteIInv, Mail
<1>1. Live' = Live /\ Dead' = Dead /\ \A id : Rank(id)' = Rank(id)
  BY <1>0, SameOrder
<1>2. \A id : Now(id)' = Now(id)
  BY <1>0, <1>1 DEF Now
<1>3. sweep'.out = sweep.out /\ sweep'.at = "read" /\ sweep'.read = [id \in sweep.todo |-> Reading(id)]
  BY <1>0
<1>4. Covered'
  <2>1. IsInjective(order')
    BY <1>0 DEF StripIInv, Covered, IsInjective
  <2>2. DOMAIN tracker \cap Live \subseteq DOMAIN sweep'.read
    BY <1>0, <1>3 DEF StripIInv, Covered
  <2>3. \A id \in DOMAIN sweep'.read : sweep'.read[id].state = screen[id].state
    BY <1>3 DEF Reading
  <2> QED
    BY <1>0, <1>1, <1>3, <2>1, <2>2, <2>3 DEF Covered
<1>5. Reporting'
  BY <1>0 DEF StripIInv, Reporting
<1>6. Telling'
  BY <1>0, <1>1, <1>3 DEF StripIInv, Telling, connVars
<1>7. Showing'
  BY <1>0, <1>1, <1>2, <1>3 DEF StripIInv, Showing, connVars, stripVars
<1> QED
  BY <1>4, <1>5, <1>6, <1>7

\* What arranges a set names all of it.
LEMMA NamesAll ==
  ASSUME NEW S, IsFiniteSet(S), NEW s \in SetToSeqs(S), NEW x \in S
  PROVE  \E i \in DOMAIN s : s[i] = x
<1> DEFINE n == Cardinality(S)
<1>0. n \in Nat
  BY FS_CardinalityType
<1>1. s \in [1 .. n -> S] /\ \A i, j \in 1 .. n : i # j => s[i] # s[j]
  BY DEF SetToSeqs
<1>2. IsFiniteSet(1 .. n) /\ Cardinality(1 .. n) = n
  <2>1. n = 0 \/ 1 <= n
    BY <1>0
  <2> QED
    BY <1>0, <2>1, FS_Interval
<1>3. s \in Injection(1 .. n, S)
  BY <1>1 DEF Injection, IsInjective
<1>4. s \in Surjection(1 .. n, S)
  BY <1>2, <1>3, FS_Injection
<1> QED
  BY <1>1, <1>4 DEF Surjection

\* What the sweep remembers of a session is the face it has sent.
LEMMA FaceIsRemembered ==
  ASSUME NEW id, NEW tr, NEW r
  PROVE  /\ Shown(Remember(id, tr, r)) = Face(id, tr, r)
         /\ Face(id, tr, r).reports \in BOOLEAN
         /\ Face(id, tr, r).reports <=> r.state >= 0 \/ ComputeStatus(tr, r).latched # NoClass
         /\ Remember(id, tr, r).reports = Face(id, tr, r).reports
         /\ Remember(id, tr, r).latched = ComputeStatus(tr, r).latched
<1>1. PICK b \in BOOLEAN : b <=> r.state >= 0 \/ ComputeStatus(tr, r).latched # NoClass
  OBVIOUS
<1>2. (r.state >= 0 \/ ComputeStatus(tr, r).latched # NoClass) = b
  BY <1>1
<1>3. Face(id, tr, r) = [status |-> ComputeStatus(tr, r).status, name |-> name[id], pct |-> r.pct,
                         rank |-> Rank(id), reports |-> b]
  BY <1>2, Zenon DEF Face
<1>4. PICK f : f = Face(id, tr, r)
  OBVIOUS
<1>5. f.reports = b /\ f = [status |-> f.status, name |-> f.name, pct |-> f.pct, rank |-> f.rank,
                            reports |-> f.reports]
  BY <1>3, <1>4
<1>6. Remember(id, tr, r) =
        [status |-> f.status, name |-> f.name, pct |-> f.pct, rank |-> f.rank,
         reports |-> f.reports, latched |-> ComputeStatus(tr, r).latched,
         seen |-> IF r.outcome = "running" /\ r.seq > tr.seen THEN r.seq ELSE tr.seen,
         delivered |-> Delivered(tr, r)]
  BY <1>4, Zenon DEF Remember
<1>7. Shown(Remember(id, tr, r)) = f
  BY <1>5, <1>6 DEF Shown
<1> QED
  BY <1>1, <1>4, <1>5, <1>6, <1>7

\* What is shown is shown whole.
LEMMA ShownWhole ==
  ASSUME NEW tr, tr.reports \in BOOLEAN
  PROVE  /\ Whole(Shown(tr)) /\ Shown(tr).status = tr.status /\ Shown(tr).name = tr.name
         /\ Shown(tr).pct = tr.pct /\ Shown(tr).rank = tr.rank /\ Shown(tr).reports = tr.reports
BY DEF Whole, Shown

LEMMA EventIs ==
  ASSUME NEW id, NEW tr, NEW r
  PROVE  /\ Event(id, tr, r).id = id /\ ~Event(id, tr, r).removed
         /\ Event(id, tr, r).face = Face(id, tr, r)
<1>1. PICK f : f = Face(id, tr, r)
  OBVIOUS
<1>2. PICK n : n = IF NotifNew(tr, r) THEN r.seq ELSE 0
  OBVIOUS
<1>3. PICK c : c = IF NotifNew(tr, r) THEN r.class ELSE NoClass
  OBVIOUS
<1>4. Event(id, tr, r) = [id |-> id, removed |-> FALSE, face |-> f, note |-> n, class |-> c]
  BY <1>1, <1>2, <1>3, Zenon DEF Event
<1> QED
  BY <1>1, <1>4

LEMMA RemovedIs ==
  ASSUME NEW id
  PROVE  Removed(id).id = id /\ Removed(id).removed
<1>1. PICK f : f = Shown(tracker[id])
  OBVIOUS
<1>2. Removed(id) = [id |-> id, removed |-> TRUE, face |-> f, note |-> 0, class |-> NoClass]
  BY <1>1, Zenon DEF Removed
<1> QED
  BY <1>2

LEMMA EventsName ==
  ASSUME NoteIInv, sweep.at = "read", IsFiniteSet(Session),
         NEW new \in SetToSeqs(News), NEW gone \in SetToSeqs(Lost), NEW id \in News \cup Lost
  PROVE  Names(Events(new, gone), id)
<1> DEFINE X == {Event(i, tracker[i], sweep.read[i]) : i \in News}
           Y == {Removed(i) : i \in Lost}
           A == [i \in DOMAIN new |-> Event(new[i], tracker[new[i]], sweep.read[new[i]])]
           B == [i \in DOMAIN gone |-> Removed(gone[i])]
<1>1. News \subseteq Session /\ Lost \subseteq Session
  BY DEF NoteIInv, IInv, Tracked, Phases, News, Kept, Lost
<1>2. IsFiniteSet(News) /\ IsFiniteSet(Lost)
  BY <1>1, FS_Subset
<1>3. PICK n \in Nat : new \in [1 .. n -> News]
  BY <1>2, Arranged
<1>4. PICK k \in Nat : gone \in [1 .. k -> Lost]
  BY <1>2, Arranged
<1>5. A \in Seq(X) /\ Len(A) = n /\ \A i \in 1 .. n : A[i].id = new[i]
  <2>1. \A i \in 1 .. n : A[i] \in X /\ A[i].id = new[i]
    BY <1>3 DEF Event
  <2> QED
    BY <1>3, <2>1
<1>6. B \in Seq(Y) /\ Len(B) = k /\ \A i \in 1 .. k : B[i].id = gone[i]
  <2>1. \A i \in 1 .. k : B[i] \in Y /\ B[i].id = gone[i]
    BY <1>4 DEF Removed
  <2> QED
    BY <1>4, <2>1
<1>7. Events(new, gone) = A \o B
  BY DEF Events
<1> HIDE DEF A, B, X, Y
<1>8. /\ DOMAIN (A \o B) = 1 .. n + k
      /\ \A i \in 1 .. n + k : (A \o B)[i] = IF i <= n THEN A[i] ELSE B[i - n]
  <2>1. A \in Seq(X \cup Y) /\ B \in Seq(X \cup Y)
    BY <1>5, <1>6
  <2> QED
    BY <1>5, <1>6, <2>1
<1>9. CASE id \in News
  <2>1. PICK i \in 1 .. n : new[i] = id
    BY <1>2, <1>3, <1>9, NamesAll
  <2>2. i \in 1 .. n + k /\ (A \o B)[i] = A[i]
    <3>1. i \in 1 .. n + k /\ i <= n
      BY <1>3, <1>4
    <3> QED
      BY <1>8, <3>1
  <2> QED
    BY <1>5, <1>7, <1>8, <2>1, <2>2 DEF Names
<1>10. CASE id \in Lost
  <2>1. PICK i \in 1 .. k : gone[i] = id
    BY <1>2, <1>4, <1>10, NamesAll
  <2>2. n + i \in 1 .. n + k /\ (A \o B)[n + i] = B[i]
    <3>1. n + i \in 1 .. n + k /\ ~(n + i <= n) /\ (n + i) - n = i
      BY <1>3, <1>4
    <3> QED
      BY <1>8, <3>1
  <2> QED
    BY <1>6, <1>7, <1>8, <2>1, <2>2 DEF Names
<1> QED
  BY <1>9, <1>10

\* Phase 3: what it does not send of is as it was sent.
LEMMA DiffStrip ==
  ASSUME StripIInv, SweepDiff, StatusAssumption
  PROVE  Covered' /\ Reporting' /\ Telling' /\ Showing'
<1>0. /\ UNCHANGED <<order, born, screen, outcome, name, connVars, stripVars>>
      /\ sweep.at = "read" /\ sweep.out = <<>> /\ sweep'.at \notin {"listed", "read"}
      /\ tracker' = [id \in DOMAIN tracker \ Lost |->
                       IF id \in Kept THEN Remember(id, tracker[id], sweep.read[id])
                       ELSE tracker[id]]
  BY DEF SweepDiff, sessionVars, StripIInv, NoteIInv, Mail, IdleSweep
<1>1. Live' = Live /\ Dead' = Dead /\ \A id : Rank(id)' = Rank(id)
  BY <1>0, SameOrder
<1>2. \A id : Now(id)' = Now(id)
  BY <1>0, <1>1 DEF Now
<1>3. PICK new \in SetToSeqs(News), gone \in SetToSeqs(Lost) :
        sweep' = IF News \cup Lost = {} THEN IdleSweep
                 ELSE [at |-> "sending", todo |-> {}, read |-> <<>>, out |-> Events(new, gone)]
  BY DEF SweepDiff
<1>4. \A id \in News \cup Lost : Names(sweep'.out, id)
  <2> SUFFICES ASSUME NEW id \in News \cup Lost PROVE Names(sweep'.out, id)
    OBVIOUS
  <2>1. sweep'.out = Events(new, gone)
    BY <1>3
  <2>2. Names(Events(new, gone), id)
    BY <1>0, EventsName DEF StripIInv, StatusAssumption
  <2> QED
    BY <2>1, <2>2
<1>5. \A k \in DOMAIN sweep'.out :
        \/ \E id \in News : sweep'.out[k] = Event(id, tracker[id], sweep.read[id])
        \/ \E id \in Lost : sweep'.out[k] = Removed(id)
  <2>1. CASE News \cup Lost = {}
    <3>1. sweep'.out = <<>>
      BY <1>3, <2>1 DEF IdleSweep
    <3> QED
      BY <3>1
  <2>2. CASE News \cup Lost # {}
    <3>1. sweep'.out = Events(new, gone)
      BY <1>3, <2>2
    <3> QED
      BY <1>0, <3>1, EventsAre DEF StripIInv, StatusAssumption
  <2> QED
    BY <2>1, <2>2
<1>6. /\ DOMAIN tracker' = DOMAIN tracker \ Lost
      /\ \A id \in DOMAIN tracker' :
           tracker'[id] = IF id \in Kept THEN Remember(id, tracker[id], sweep.read[id])
                          ELSE tracker[id]
  BY <1>0
<1>7. ASSUME NEW id \in DOMAIN tracker', id \notin News
      PROVE  Shown(tracker'[id]) = Shown(tracker[id])
  <2>1. CASE id \in Kept
    <3>1. ~Changed(id, tracker[id], sweep.read[id])
      BY <1>7, <2>1 DEF News
    <3>2. Face(id, tracker[id], sweep.read[id]) = Shown(tracker[id])
      BY <3>1 DEF Changed
    <3> QED
      BY <1>6, <2>1, <3>2, FaceIsRemembered
  <2>2. CASE id \notin Kept
    BY <1>6, <2>2
  <2> QED
    BY <2>1, <2>2
<1>8. Covered'
  <2>1. IsInjective(order')
    BY <1>0 DEF StripIInv, Covered, IsInjective
  <2> QED
    BY <1>0, <2>1 DEF Covered
<1>9. Reporting'
  <2> SUFFICES ASSUME NEW id \in DOMAIN tracker'
               PROVE  /\ tracker'[id].reports \in BOOLEAN
                      /\ tracker'[id].latched # NoClass => tracker'[id].reports
                      /\ tracker'[id].reports =>
                           tracker'[id].latched # NoClass \/ screen[id].state >= 0
    BY <1>0 DEF Reporting
  <2>1. CASE id \in Kept
    <3>1. sweep.read[id].state >= 0 => screen[id].state >= 0
      BY <1>0, <2>1 DEF StripIInv, Covered, Kept
    <3>2. PICK tr : tr = tracker[id]
      OBVIOUS
    <3>3. PICK r : r = sweep.read[id]
      OBVIOUS
    <3>4. tracker'[id] = Remember(id, tr, r)
      BY <1>6, <2>1, <3>2, <3>3
    <3>5. /\ Remember(id, tr, r).reports \in BOOLEAN
          /\ Remember(id, tr, r).reports <=>
               r.state >= 0 \/ Remember(id, tr, r).latched # NoClass
      <4>1. PICK x : x = Remember(id, tr, r)
        OBVIOUS
      <4>2. PICK f : f = Face(id, tr, r)
        OBVIOUS
      <4>3. PICK l : l = ComputeStatus(tr, r).latched
        OBVIOUS
      <4>4. /\ f.reports \in BOOLEAN /\ (f.reports <=> r.state >= 0 \/ l # NoClass)
            /\ x.reports = f.reports /\ x.latched = l
        BY <4>1, <4>2, <4>3, FaceIsRemembered, Zenon
      <4>5. x.reports \in BOOLEAN /\ (x.reports <=> r.state >= 0 \/ x.latched # NoClass)
        BY <4>4
      <4> QED
        BY <4>1, <4>5
    <3> QED
      BY <3>1, <3>3, <3>4, <3>5
  <2>2. CASE id \notin Kept
    BY <1>6, <2>2 DEF StripIInv, Reporting
  <2> QED
    BY <2>1, <2>2
<1>10. ASSUME NEW ev, Tells(ev, Dead, tracker), ev.id \notin News \cup Lost
       PROVE  Tells(ev, Dead, tracker')
  <2>1. CASE ev.removed
    BY <1>6, <1>10, <2>1 DEF Tells
  <2>2. CASE ~ev.removed
    <3>1. ev.id \in DOMAIN tracker /\ ev.face = Shown(tracker[ev.id])
      BY <1>10, <2>2 DEF Tells
    <3>2. ev.id \in DOMAIN tracker'
      BY <1>6, <1>10, <3>1
    <3> QED
      BY <1>7, <1>10, <2>2, <3>1, <3>2 DEF Tells
  <2> QED
    BY <2>1, <2>2
<1>11. Telling'
  <2>1. ASSUME NEW k \in DOMAIN sweep'.out
        PROVE  Tells(sweep'.out[k], Dead, tracker')
    <3>1. ASSUME NEW id \in News, sweep'.out[k] = Event(id, tracker[id], sweep.read[id])
          PROVE  Tells(sweep'.out[k], Dead, tracker')
      <4>1. /\ sweep'.out[k].id = id /\ ~sweep'.out[k].removed
            /\ sweep'.out[k].face = Face(id, tracker[id], sweep.read[id])
        BY <3>1, EventIs
      <4>2. id \in Kept /\ id \in DOMAIN tracker'
        BY <1>0, <1>6 DEF News, Kept, Lost, StripIInv, NoteIInv, IInv, Phases
      <4>3. Shown(tracker'[id]) = Face(id, tracker[id], sweep.read[id])
        BY <1>6, <4>2, FaceIsRemembered
      <4> QED
        BY <4>1, <4>2, <4>3 DEF Tells
    <3>2. ASSUME NEW id \in Lost, sweep'.out[k] = Removed(id)
          PROVE  Tells(sweep'.out[k], Dead, tracker')
      <4>1. sweep'.out[k].id = id /\ sweep'.out[k].removed
        BY <3>2, RemovedIs
      <4>2. id \in Dead /\ id \notin DOMAIN tracker'
        BY <1>6 DEF Lost, Dead, StripIInv, NoteIInv, Table
      <4> QED
        BY <4>1, <4>2 DEF Tells
    <3> QED
      BY <1>5, <3>1, <3>2
  <2>2. ASSUME NEW c \in subs
        PROVE  c \in Conn /\ Settles(queue[c], sweep'.out, Dead, tracker')
    <3>1. c \in Conn /\ Settles(queue[c], sweep.out, Dead, tracker) /\ DOMAIN sweep.out = {}
      BY <1>0 DEF StripIInv, Telling
    <3>2. ASSUME NEW i \in DOMAIN queue[c]
          PROVE  \/ Tells(queue[c][i], Dead, tracker')
                 \/ \E j \in DOMAIN queue[c] : i < j /\ queue[c][j].id = queue[c][i].id
                 \/ Names(sweep'.out, queue[c][i].id)
      <4>1. \/ Tells(queue[c][i], Dead, tracker)
            \/ \E j \in DOMAIN queue[c] : i < j /\ queue[c][j].id = queue[c][i].id
        BY <3>1 DEF Settles, Names
      <4> QED
        BY <1>4, <1>10, <4>1
    <3> QED
      BY <3>1, <3>2 DEF Settles
  <2> QED
    BY <1>0, <1>1, <2>1, <2>2 DEF Telling, connVars
<1>12. ASSUME NEW id, id \notin News \cup Lost, id \in DOMAIN tracker'
       PROVE  /\ id \in DOMAIN tracker
              /\ tracker'[id].status = tracker[id].status
              /\ tracker'[id].name = tracker[id].name /\ tracker'[id].pct = tracker[id].pct
              /\ tracker'[id].rank = tracker[id].rank
              /\ tracker'[id].reports = tracker[id].reports
  <2>1. id \in DOMAIN tracker /\ Shown(tracker'[id]) = Shown(tracker[id])
    BY <1>6, <1>7, <1>12
  <2>2. tracker'[id].reports \in BOOLEAN /\ tracker[id].reports \in BOOLEAN
    BY <1>9, <1>12, <2>1 DEF StripIInv, Reporting
  <2> QED
    BY <2>1, <2>2, ShownWhole
<1>13. ASSUME NEW v, NEW id, id \notin News \cup Lost
       PROVE  /\ Right(v, id, Live, tracker, Now(id)) => Right(v, id, Live, tracker', Now(id))
              /\ HalfRight(v, id, Live, tracker, Now(id)) => HalfRight(v, id, Live, tracker', Now(id))
  <2>1. id \in DOMAIN tracker <=> id \in DOMAIN tracker'
    BY <1>6, <1>13
  <2>2. Sent(id, Live, tracker') => Sent(id, Live, tracker)
    BY <1>12, <1>13 DEF Sent
  <2>3. ASSUME Sent(id, Live, tracker'), NEW f
        PROVE  /\ ShowsOrMoved(f, tracker[id], Now(id)) => ShowsOrMoved(f, tracker'[id], Now(id))
               /\ HalfShows(f, tracker[id], Now(id)) => HalfShows(f, tracker'[id], Now(id))
    <3>1. id \in DOMAIN tracker'
      BY <2>3 DEF Sent
    <3> QED
      BY <1>12, <1>13, <3>1 DEF ShowsOrMoved, HalfShows
  <2> QED
    BY <2>1, <2>2, <2>3 DEF Right, HalfRight
<1>14. DOMAIN sweep.out = {}
  BY <1>0
<1>15. Showing'
  <2>1. ASSUME NEW c \in subs, stage[c] = "reading", NEW id
        PROVE  \/ Names(queue[c], id) \/ Names(sweep'.out, id)
               \/ HalfRight(snap[c], id, Live, tracker', Now(id))
    <3>1. Names(queue[c], id) \/ HalfRight(snap[c], id, Live, tracker, Now(id))
      BY <1>14, <2>1 DEF StripIInv, Showing, Names
    <3> QED
      BY <1>4, <1>13, <3>1
  <2>2. ASSUME NEW t \in Strip, conn[t] \in subs, stage[conn[t]] = "streaming", NEW id
        PROVE  \/ Names(queue[conn[t]], id) \/ Names(sweep'.out, id)
               \/ Right(view[t], id, Live, tracker', Now(id))
    <3>1. Names(queue[conn[t]], id) \/ Right(view[t], id, Live, tracker, Now(id))
      BY <1>14, <2>2 DEF StripIInv, Showing, Names
    <3> QED
      BY <1>4, <1>13, <3>1
  <2>3. \A t \in Strip : view[t] = [id \in DOMAIN view[t] |-> view[t][id]]
    BY DEF StripIInv, Showing
  <2> QED
    BY <1>0, <1>1, <1>2, <2>1, <2>2, <2>3 DEF Showing, connVars, stripVars
<1> QED
  BY <1>8, <1>9, <1>11, <1>15

-----------------------------------------------------------------------------
LEMMA TailHas ==
  ASSUME NEW q, Noted(q), q # <<>>
  PROVE  /\ \A j \in DOMAIN q : j = 1 \/ (j - 1 \in DOMAIN Tail(q) /\ Tail(q)[j - 1] = q[j])
         /\ \A i \in DOMAIN Tail(q), j \in DOMAIN q : i + 1 < j => i < j - 1 /\ j # 1
<1>1. q \in Seq(ToSet(q))
  BY DEF Noted
<1>2. /\ Len(q) \in Nat /\ DOMAIN q = 1 .. Len(q) /\ DOMAIN Tail(q) = 1 .. Len(q) - 1
      /\ \A i \in 1 .. Len(q) - 1 : Tail(q)[i] = q[i + 1]
  BY <1>1
<1>3. \A j \in DOMAIN q : j = 1 \/ (j - 1 \in DOMAIN Tail(q) /\ Tail(q)[j - 1] = q[j])
  <2> SUFFICES ASSUME NEW j \in 1 .. Len(q), j # 1
               PROVE  j - 1 \in 1 .. Len(q) - 1 /\ Tail(q)[j - 1] = q[j]
    BY <1>2
  <2>1. j - 1 \in 1 .. Len(q) - 1 /\ (j - 1) + 1 = j
    BY <1>2
  <2> QED
    BY <1>2, <2>1
<1>4. \A i \in 1 .. Len(q) - 1, j \in 1 .. Len(q) : i + 1 < j => i < j - 1 /\ j # 1
  BY <1>2
<1> QED
  BY <1>2, <1>3, <1>4

LEMMA AppendHas ==
  ASSUME NEW q, NEW e, Noted(q)
  PROVE  /\ \A i \in DOMAIN q : i \in DOMAIN Append(q, e) /\ Append(q, e)[i] = q[i]
         /\ \E n \in DOMAIN Append(q, e) : /\ Append(q, e)[n] = e
                                           /\ \A i \in DOMAIN q : i < n
<1>1. q \in Seq(ToSet(q)) /\ Len(q) \in Nat /\ DOMAIN q = 1 .. Len(q)
  BY DEF Noted
<1>2. q \in Seq(ToSet(q) \cup {e})
  BY <1>1
<1>3. /\ DOMAIN Append(q, e) = 1 .. Len(q) + 1
      /\ \A i \in 1 .. Len(q) : Append(q, e)[i] = q[i]
      /\ Append(q, e)[Len(q) + 1] = e
  BY <1>1, <1>2
<1>4. /\ \A i \in 1 .. Len(q) : i \in 1 .. Len(q) + 1 /\ i < Len(q) + 1
      /\ Len(q) + 1 \in 1 .. Len(q) + 1
  BY <1>1
<1> QED
  BY <1>1, <1>3, <1>4

\* No step of the sweep's or a session's.
LEMMA QuietStrip ==
  ASSUME StripIInv, UNCHANGED <<sessionVars, tracker, sweep>>
  PROVE  /\ Covered' /\ Reporting' /\ Live' = Live /\ Dead' = Dead
         /\ \A id : Now(id)' = Now(id)
<1>0. UNCHANGED <<order, born, screen, outcome, name, tracker, sweep>>
  BY DEF sessionVars
<1>1. Live' = Live /\ Dead' = Dead /\ \A id : Rank(id)' = Rank(id)
  BY <1>0, SameOrder
<1>2. Covered'
  BY <1>0, <1>1 DEF StripIInv, Covered, IsInjective
<1>3. Reporting'
  BY <1>0 DEF StripIInv, Reporting
<1>4. \A id : Now(id)' = Now(id)
  BY <1>0, <1>1 DEF Now
<1> QED
  BY <1>1, <1>2, <1>3, <1>4

\* An event moves from the sweep's hand to the channels.
LEMMA BroadcastStrip ==
  ASSUME StripIInv, Broadcast
  PROVE  Covered' /\ Reporting' /\ Telling' /\ Showing'
<1> DEFINE ev == Head(sweep.out)
<1>0. /\ UNCHANGED <<order, born, screen, outcome, name, tracker, stage, snap, conn, view>>
      /\ sweep.out # <<>>
      /\ queue' = [c \in Conn |-> IF c \in subs /\ ~Full(c) THEN Append(queue[c], ev)
                                  ELSE queue[c]]
      /\ subs' = {c \in subs : ~Full(c)}
      /\ sweep' = IF Len(sweep.out) = 1 THEN IdleSweep
                  ELSE [at |-> "sending", todo |-> {}, read |-> <<>>, out |-> Tail(sweep.out)]
  BY DEF Broadcast, sessionVars, stripVars
<1>1. Live' = Live /\ Dead' = Dead /\ \A id : Rank(id)' = Rank(id)
  BY <1>0, SameOrder
<1>2. \A id : Now(id)' = Now(id)
  BY <1>0, <1>1 DEF Now
<1>3. Noted(sweep.out)
  BY DEF StripIInv, NoteIInv, Mail
<1>4. sweep'.out = Tail(sweep.out) /\ sweep'.at \notin {"listed", "read"}
  <2>1. CASE Len(sweep.out) = 1
    <3>1. sweep.out \in Seq(ToSet(sweep.out))
      BY <1>3 DEF Noted
    <3>2. Tail(sweep.out) = <<>>
      BY <2>1, <3>1, TailOfOne
    <3> QED
      BY <1>0, <2>1, <3>2 DEF IdleSweep
  <2>2. CASE Len(sweep.out) # 1
    BY <1>0, <2>2
  <2> QED
    BY <2>1, <2>2
<1>5. /\ 1 \in DOMAIN sweep.out /\ ev = sweep.out[1]
      /\ \A k \in DOMAIN Tail(sweep.out) : /\ k + 1 \in DOMAIN sweep.out
                                           /\ Tail(sweep.out)[k] = sweep.out[k + 1]
  BY <1>0, <1>3, TailIs
<1>6. \A j \in DOMAIN sweep.out :
        j = 1 \/ (j - 1 \in DOMAIN Tail(sweep.out) /\ Tail(sweep.out)[j - 1] = sweep.out[j])
  BY <1>0, <1>3, TailHas
<1> HIDE DEF ev
<1>7. \A id : Names(sweep.out, id) => id = ev.id \/ Names(sweep'.out, id)
  BY <1>4, <1>5, <1>6 DEF Names
<1>8. ASSUME NEW c \in subs'
      PROVE  /\ c \in subs /\ c \in Conn /\ Noted(queue[c])
             /\ queue'[c] = Append(queue[c], ev)
             /\ Settles(queue[c], sweep.out, Dead, tracker)
  <2>1. c \in subs /\ ~Full(c)
    BY <1>0
  <2>2. c \in Conn /\ Settles(queue[c], sweep.out, Dead, tracker)
    BY <2>1 DEF StripIInv, Telling
  <2>3. Noted(queue[c])
    BY <2>2 DEF StripIInv, NoteIInv, Channels
  <2> QED
    BY <1>0, <2>1, <2>2, <2>3
<1>9. ASSUME NEW c \in subs'
      PROVE  /\ \A i \in DOMAIN queue[c] : i \in DOMAIN queue'[c] /\ queue'[c][i] = queue[c][i]
             /\ \E n \in DOMAIN queue'[c] : queue'[c][n] = ev /\ \A i \in DOMAIN queue[c] : i < n
             /\ \A i \in DOMAIN queue'[c] : \/ i \in DOMAIN queue[c] /\ queue'[c][i] = queue[c][i]
                                            \/ queue'[c][i] = ev
  <2>1. ev.note \in Nat
    BY <1>3, <1>5 DEF Noted
  <2> QED
    BY <1>8, <2>1, AppendIs, AppendHas
<1>10. ASSUME NEW c \in subs', NEW id
       PROVE  Names(queue[c], id) \/ Names(sweep.out, id) =>
                Names(queue'[c], id) \/ Names(sweep'.out, id)
  <2>1. CASE Names(queue[c], id)
    BY <1>9, <2>1 DEF Names
  <2>2. CASE Names(sweep.out, id)
    BY <1>7, <1>9, <2>2 DEF Names
  <2> QED
    BY <2>1, <2>2
<1>11. Covered'
  <2>1. IsInjective(order')
    BY <1>0 DEF StripIInv, Covered, IsInjective
  <2> QED
    BY <1>4, <2>1 DEF Covered
<1>12. Reporting'
  BY <1>0 DEF StripIInv, Reporting
<1>13. Telling'
  <2>1. \A k \in DOMAIN sweep.out : Tells(sweep.out[k], Dead, tracker)
    BY DEF StripIInv, Telling
  <2>2. \A k \in DOMAIN sweep'.out : Tells(sweep'.out[k], Dead, tracker)
    BY <1>4, <1>5, <2>1
  <2>3. Tells(ev, Dead, tracker)
    BY <1>5, <2>1
  <2>4. ASSUME NEW c \in subs' PROVE Settles(queue'[c], sweep'.out, Dead, tracker)
    <3>1. ASSUME NEW i \in DOMAIN queue'[c]
          PROVE  \/ Tells(queue'[c][i], Dead, tracker)
                 \/ \E j \in DOMAIN queue'[c] : i < j /\ queue'[c][j].id = queue'[c][i].id
                 \/ Names(sweep'.out, queue'[c][i].id)
      <4>1. CASE queue'[c][i] = ev
        BY <2>3, <4>1
      <4>2. CASE i \in DOMAIN queue[c] /\ queue'[c][i] = queue[c][i]
        <5>1. \/ Tells(queue[c][i], Dead, tracker)
              \/ \E j \in DOMAIN queue[c] : i < j /\ queue[c][j].id = queue[c][i].id
              \/ Names(sweep.out, queue[c][i].id)
          BY <1>8, <4>2 DEF Settles
        <5>2. CASE Tells(queue[c][i], Dead, tracker)
          BY <4>2, <5>2
        <5>3. CASE \E j \in DOMAIN queue[c] : i < j /\ queue[c][j].id = queue[c][i].id
          BY <1>9, <4>2, <5>3
        <5>4. CASE Names(sweep.out, queue[c][i].id)
          BY <1>7, <1>9, <4>2, <5>4
        <5> QED
          BY <5>1, <5>2, <5>3, <5>4
      <4> QED
        BY <1>9, <4>1, <4>2
    <3> QED
      BY <3>1 DEF Settles
  <2> QED
    BY <1>0, <1>1, <1>8, <2>2, <2>4 DEF Telling
<1>14. Showing'
  <2>1. ASSUME NEW c \in subs', stage[c] = "reading", NEW id
        PROVE  \/ Names(queue'[c], id) \/ Names(sweep'.out, id)
               \/ HalfRight(snap[c], id, Live, tracker, Now(id))
    BY <1>8, <1>10, <2>1 DEF StripIInv, Showing
  <2>2. ASSUME NEW t \in Strip, conn[t] \in subs', stage[conn[t]] = "streaming", NEW id
        PROVE  \/ Names(queue'[conn[t]], id) \/ Names(sweep'.out, id)
               \/ Right(view[t], id, Live, tracker, Now(id))
    BY <1>8, <1>10, <2>2 DEF StripIInv, Showing
  <2>3. \A t \in Strip : view[t] = [id \in DOMAIN view[t] |-> view[t][id]]
    BY DEF StripIInv, Showing
  <2> QED
    BY <1>0, <1>1, <1>2, <2>1, <2>2, <2>3 DEF Showing
<1> QED
  BY <1>11, <1>12, <1>13, <1>14

\* An event taken in puts its session right and leaves the others.
LEMMA ApplyRight ==
  ASSUME NEW v, NEW ev, NEW live, NEW bn, NEW trk, NEW now,
         \A id \in DOMAIN trk : trk[id].reports \in BOOLEAN,
         Tells(ev, bn \ live, trk)
  PROVE  Right(Apply(v, ev), ev.id, live, trk, now)
<1>1. CASE ev.removed
  <2>1. Apply(v, ev) = [i \in DOMAIN v \ {ev.id} |-> v[i]]
    BY <1>1 DEF Apply
  <2>2. ev.id \notin DOMAIN Apply(v, ev)
    BY <2>1
  <2>3. ~Sent(ev.id, live, trk)
    BY <1>1 DEF Tells, Sent
  <2> QED
    BY <2>2, <2>3 DEF Right
<1>2. CASE ~ev.removed
  <2>1. Apply(v, ev) = [i \in DOMAIN v \cup {ev.id} |-> IF i = ev.id THEN ev.face ELSE v[i]]
    BY <1>2 DEF Apply, Put
  <2>2. ev.id \in DOMAIN Apply(v, ev) /\ Apply(v, ev)[ev.id] = ev.face
    BY <2>1
  <2>3. ev.id \in DOMAIN trk /\ ev.face = Shown(trk[ev.id])
    BY <1>2 DEF Tells
  <2>4. PICK tr : tr = trk[ev.id]
    OBVIOUS
  <2>5. Whole(ev.face) /\ ShowsOrMoved(ev.face, tr, now)
    BY <2>3, <2>4, ShownWhole DEF ShowsOrMoved
  <2> QED
    BY <2>2, <2>3, <2>4, <2>5 DEF Right
<1> QED
  BY <1>1, <1>2

LEMMA ApplyOther ==
  ASSUME NEW v, NEW ev, NEW id, NEW live, NEW trk, NEW now, id # ev.id,
         Right(v, id, live, trk, now)
  PROVE  Right(Apply(v, ev), id, live, trk, now)
<1>1. /\ id \in DOMAIN Apply(v, ev) <=> id \in DOMAIN v
      /\ id \in DOMAIN v => Apply(v, ev)[id] = v[id]
  <2>1. CASE ev.removed
    BY <2>1 DEF Apply
  <2>2. CASE ~ev.removed
    BY <2>2 DEF Apply, Put
  <2> QED
    BY <2>1, <2>2
<1> QED
  BY <1>1 DEF Right

LEMMA ApplyIs ==
  ASSUME NEW v, NEW ev
  PROVE  Apply(v, ev) = [id \in DOMAIN Apply(v, ev) |-> Apply(v, ev)[id]]
<1>1. CASE ev.removed
  BY <1>1 DEF Apply
<1>2. CASE ~ev.removed
  BY <1>2 DEF Apply, Put
<1> QED
  BY <1>1, <1>2

\* A strip takes in the next event of its channel.
LEMMA StreamStrip ==
  ASSUME StripIInv, NEW c \in Conn, Stream(c)
  PROVE  Covered' /\ Reporting' /\ Telling' /\ Showing'
<1> DEFINE ev == Head(queue[c])
           Q  == Tail(queue[c])
<1>0. /\ UNCHANGED <<sessionVars, tracker, sweep, stage, subs, snap, conn>>
      /\ stage[c] = "streaming" /\ queue[c] # <<>> /\ DOMAIN queue = Conn
      /\ queue' = [queue EXCEPT ![c] = Q]
      /\ view' = [t \in Strip |-> IF conn[t] = c THEN Apply(view[t], ev) ELSE view[t]]
  BY DEF Stream, StripIInv, NoteIInv, Channels
<1>1. /\ Covered' /\ Reporting' /\ Live' = Live /\ Dead' = Dead
      /\ \A id : Now(id)' = Now(id)
  BY <1>0, QuietStrip
<1>2. Noted(queue[c])
  BY DEF StripIInv, NoteIInv, Channels
<1>3. /\ 1 \in DOMAIN queue[c] /\ ev = queue[c][1]
      /\ \A i \in DOMAIN Q : i + 1 \in DOMAIN queue[c] /\ Q[i] = queue[c][i + 1]
      /\ \A j \in DOMAIN queue[c] : j = 1 \/ (j - 1 \in DOMAIN Q /\ Q[j - 1] = queue[c][j])
      /\ \A i \in DOMAIN Q, j \in DOMAIN queue[c] : i + 1 < j => i < j - 1 /\ j # 1
  BY <1>0, <1>2, TailIs, TailHas
<1> HIDE DEF ev, Q
<1>4. queue'[c] = Q /\ \A d \in Conn : d # c => queue'[d] = queue[d]
  BY <1>0
<1>5. \A id : Names(queue[c], id) => id = ev.id \/ Names(Q, id)
  BY <1>3 DEF Names
<1>6. Telling'
  <2>1. ASSUME c \in subs PROVE Settles(Q, sweep.out, Dead, tracker)
    <3>1. Settles(queue[c], sweep.out, Dead, tracker)
      BY <2>1 DEF StripIInv, Telling
    <3>2. ASSUME NEW i \in DOMAIN Q
          PROVE  \/ Tells(Q[i], Dead, tracker)
                 \/ \E j \in DOMAIN Q : i < j /\ Q[j].id = Q[i].id
                 \/ Names(sweep.out, Q[i].id)
      <4>1. i + 1 \in DOMAIN queue[c] /\ Q[i] = queue[c][i + 1]
        BY <1>3
      <4>2. CASE \E j \in DOMAIN queue[c] : i + 1 < j /\ queue[c][j].id = Q[i].id
        <5>1. PICK j \in DOMAIN queue[c] : i + 1 < j /\ queue[c][j].id = Q[i].id
          BY <4>2
        <5>2. i < j - 1 /\ j - 1 \in DOMAIN Q /\ Q[j - 1] = queue[c][j]
          BY <1>3, <5>1
        <5> QED
          BY <5>1, <5>2
      <4>3. CASE Tells(Q[i], Dead, tracker) \/ Names(sweep.out, Q[i].id)
        BY <4>3
      <4> QED
        BY <3>1, <4>1, <4>2, <4>3 DEF Settles
    <3> QED
      BY <3>2 DEF Settles
  <2>2. \A d \in subs : d \in Conn /\ Settles(queue'[d], sweep.out, Dead, tracker)
    BY <1>4, <2>1 DEF StripIInv, Telling
  <2>3. \A k \in DOMAIN sweep.out : Tells(sweep.out[k], Dead, tracker)
    BY DEF StripIInv, Telling
  <2> QED
    BY <1>0, <1>1, <2>2, <2>3 DEF Telling
<1>7. Showing'
  <2>1. \A t \in Strip : view'[t] = [id \in DOMAIN view'[t] |-> view'[t][id]]
    <3> SUFFICES ASSUME NEW t \in Strip
                 PROVE  view'[t] = [id \in DOMAIN view'[t] |-> view'[t][id]]
      OBVIOUS
    <3>1. CASE conn[t] = c
      <4>1. view'[t] = Apply(view[t], ev)
        BY <1>0, <3>1
      <4> QED
        BY <4>1, ApplyIs
    <3>2. CASE conn[t] # c
      <4>1. view'[t] = view[t]
        BY <1>0, <3>2
      <4> QED
        BY <4>1 DEF StripIInv, Showing
    <3> QED
      BY <3>1, <3>2
  <2>2. ASSUME NEW d \in subs, stage[d] = "reading", NEW id
        PROVE  \/ Names(queue'[d], id) \/ Names(sweep.out, id)
               \/ HalfRight(snap[d], id, Live, tracker, Now(id))
    <3>1. d \in Conn /\ d # c
      BY <1>0, <2>2 DEF StripIInv, Telling
    <3> QED
      BY <1>4, <2>2, <3>1 DEF StripIInv, Showing
  <2>3. ASSUME NEW t \in Strip, conn[t] \in subs, stage[conn[t]] = "streaming", NEW id
        PROVE  \/ Names(queue'[conn[t]], id) \/ Names(sweep.out, id)
               \/ Right(view'[t], id, Live, tracker, Now(id))
    <3>0. \/ Names(queue[conn[t]], id) \/ Names(sweep.out, id)
          \/ Right(view[t], id, Live, tracker, Now(id))
      BY <2>3 DEF StripIInv, Showing
    <3>1. conn[t] \in Conn
      BY <2>3 DEF StripIInv, Telling
    <3>2. CASE conn[t] # c
      <4>1. view'[t] = view[t] /\ queue'[conn[t]] = queue[conn[t]]
        BY <1>0, <1>4, <3>1, <3>2
      <4> QED
        BY <3>0, <4>1
    <3>3. CASE conn[t] = c
      <4>1. view'[t] = Apply(view[t], ev) /\ queue'[conn[t]] = Q
        BY <1>0, <1>4, <3>3
      <4>2. CASE id = ev.id
        <5>1. \/ Tells(ev, Dead, tracker)
              \/ \E j \in DOMAIN queue[c] : 1 < j /\ queue[c][j].id = ev.id
              \/ Names(sweep.out, ev.id)
          BY <1>3, <2>3, <3>3 DEF StripIInv, Telling, Settles
        <5>2. CASE Tells(ev, Dead, tracker)
          <6>1. \A i \in DOMAIN tracker : tracker[i].reports \in BOOLEAN
            BY DEF StripIInv, Reporting
          <6>2. Tells(ev, born \ Live, tracker)
            BY <5>2 DEF Dead
          <6>3. Right(Apply(view[t], ev), ev.id, Live, tracker, Now(ev.id))
            BY <6>1, <6>2, ApplyRight
          <6> QED
            BY <4>1, <4>2, <6>3
        <5>3. CASE \E j \in DOMAIN queue[c] : 1 < j /\ queue[c][j].id = ev.id
          <6>1. Names(Q, ev.id)
            BY <1>3, <5>3 DEF Names
          <6> QED
            BY <4>1, <4>2, <6>1
        <5> QED
          BY <4>2, <5>1, <5>2, <5>3
      <4>3. CASE id # ev.id
        <5>1. CASE Right(view[t], id, Live, tracker, Now(id))
          BY <4>1, <4>3, <5>1, ApplyOther
        <5> QED
          BY <1>5, <3>0, <3>3, <4>1, <4>3, <5>1
      <4> QED
        BY <4>2, <4>3
    <3> QED
      BY <3>2, <3>3
  <2> QED
    BY <1>0, <1>1, <2>1, <2>2, <2>3 DEF Showing
<1> QED
  BY <1>1, <1>6, <1>7

\* Both phases of a snapshot read what a sweep would.
LEMMA SnapTableStrip ==
  ASSUME StripIInv, NEW c \in Conn, SnapTable(c)
  PROVE  Covered' /\ Reporting' /\ Telling' /\ Showing'
<1> DEFINE S(id) == LET tr == TrackerOf(id) IN
                    [status |-> IF tr.status = "" THEN "idle" ELSE tr.status, name |-> name[id],
                     pct |-> Absent, rank |-> Rank(id), reports |-> tr.latched # NoClass]
<1>0. /\ UNCHANGED <<sessionVars, tracker, sweep, subs, queue, stripVars>>
      /\ stage' = [stage EXCEPT ![c] = "reading"]
      /\ snap' = [snap EXCEPT ![c] = [id \in Live |-> S(id)]]
  BY Zenon DEF SnapTable
<1>1. ASSUME NEW id
      PROVE  Whole(S(id)) /\ (Sent(id, Live, tracker) => HalfShows(S(id), tracker[id], Now(id)))
  <2>1. PICK b \in BOOLEAN : b <=> TrackerOf(id).latched # NoClass
    OBVIOUS
  <2>2. (TrackerOf(id).latched # NoClass) = b
    BY <2>1
  <2>3. PICK s : s = IF TrackerOf(id).status = "" THEN "idle" ELSE TrackerOf(id).status
    OBVIOUS
  <2>4. S(id) = [status |-> s, name |-> name[id], pct |-> Absent, rank |-> Rank(id), reports |-> b]
    BY <2>2, <2>3, Zenon
  <2> HIDE DEF S
  <2>5. Whole(S(id))
    BY <2>4 DEF Whole
  <2>6. ASSUME Sent(id, Live, tracker) PROVE HalfShows(S(id), tracker[id], Now(id))
    <3>1. /\ TrackerOf(id) = tracker[id] /\ tracker[id].status # "" /\ id \in DOMAIN tracker
          /\ s = tracker[id].status
      BY <2>3, <2>6 DEF Sent, TrackerOf
    <3>2. /\ tracker[id].reports \in BOOLEAN
          /\ tracker[id].latched # NoClass => tracker[id].reports
          /\ tracker[id].reports => tracker[id].latched # NoClass \/ screen[id].state >= 0
      BY <3>1 DEF StripIInv, Reporting
    <3> QED
      <4>1. /\ S(id).status = s /\ S(id).name = name[id] /\ S(id).rank = Rank(id)
            /\ S(id).reports = b
        BY <2>4
      <4>2. /\ Now(id).name = name[id] /\ Now(id).rank = Rank(id)
            /\ Now(id).state = screen[id].state
        BY DEF Now
      <4>3. S(id).reports <=> tracker[id].latched # NoClass
        BY <2>1, <3>1, <4>1
      <4> HIDE DEF S, NoClass
      <4> QED
        BY <3>1, <3>2, <4>1, <4>2, <4>3 DEF HalfShows
  <2> QED
    BY <2>5, <2>6
<1> HIDE DEF S
<1>2. /\ Covered' /\ Reporting' /\ Live' = Live /\ Dead' = Dead
      /\ \A id : Now(id)' = Now(id)
  BY <1>0, QuietStrip
<1>3. UNCHANGED <<tracker, sweep, subs, queue, conn, view>>
  BY <1>0 DEF stripVars
<1>4. Telling'
  BY <1>2, <1>3 DEF StripIInv, Telling
<1>5. ASSUME NEW d \in subs, stage'[d] = "reading", NEW id
      PROVE  \/ Names(queue[d], id) \/ Names(sweep.out, id)
             \/ HalfRight(snap'[d], id, Live, tracker, Now(id))
  <2>1. CASE d = c
    <3>1. snap'[d] = [i \in Live |-> S(i)]
      BY <1>0, <2>1 DEF StripIInv, Making
    <3>2. \A i \in Live : snap'[d][i] = S(i)
      BY <3>1
    <3> QED
      BY <1>1, <3>1, <3>2 DEF HalfRight, Sent
  <2>2. CASE d # c
    <3>1. stage[d] = "reading" /\ snap'[d] = snap[d]
      BY <1>0, <1>5, <2>2
    <3> QED
      BY <3>1 DEF StripIInv, Showing
  <2> QED
    BY <2>1, <2>2
<1>6. \A t \in Strip : stage'[conn[t]] = "streaming" => stage[conn[t]] = "streaming"
  BY <1>0
<1>7. Showing'
  <2>1. \A t \in Strip : conn[t] \in subs /\ stage'[conn[t]] = "streaming" => \A id :
          \/ Names(queue[conn[t]], id) \/ Names(sweep.out, id)
          \/ Right(view[t], id, Live, tracker, Now(id))
    BY <1>6 DEF StripIInv, Showing
  <2>2. \A t \in Strip : view[t] = [id \in DOMAIN view[t] |-> view[t][id]]
    BY DEF StripIInv, Showing
  <2> QED
    BY <1>2, <1>3, <1>5, <2>1, <2>2 DEF Showing
<1> QED
  BY <1>2, <1>4, <1>7

LEMMA RefinedShows ==
  ASSUME NEW f, NEW tr, NEW id, Whole(f)
  PROVE  /\ Whole(Refined(id, f))
         /\ HalfShows(f, tr, Now(id)) => ShowsOrMoved(Refined(id, f), tr, Now(id))
<1>1. f.reports \in BOOLEAN
  BY DEF Whole
<1>2. PICK b \in BOOLEAN : b <=> f.reports \/ screen[id].state >= 0
  OBVIOUS
<1>3. (f.reports \/ screen[id].state >= 0) = b
  BY <1>2
<1>4. PICK s : s = IF outcome[id] # "running" THEN outcome[id] ELSE f.status
  OBVIOUS
<1>5. Refined(id, f) = [f EXCEPT !.status = s, !.pct = screen[id].pct, !.reports = b]
  BY <1>3, <1>4, Zenon DEF Refined
<1>6. Refined(id, f) = [status |-> s, name |-> f.name, pct |-> screen[id].pct,
                        rank |-> f.rank, reports |-> b]
  <2>1. f = [status |-> f.status, name |-> f.name, pct |-> f.pct, rank |-> f.rank,
             reports |-> f.reports]
    BY DEF Whole
  <2>2. PICK a1, a2, a3, a4, a5 : f = [status |-> a1, name |-> a2, pct |-> a3, rank |-> a4,
                                       reports |-> a5]
    BY <2>1
  <2> QED
    BY <1>5, <2>2
<1>7. PICK g : g = Refined(id, f)
  OBVIOUS
<1>8. /\ g.status = s /\ g.name = f.name /\ g.pct = screen[id].pct /\ g.rank = f.rank
      /\ g.reports = b
      /\ g = [status |-> g.status, name |-> g.name, pct |-> g.pct, rank |-> g.rank,
              reports |-> g.reports]
  BY <1>6, <1>7
<1>9. Whole(g)
  BY <1>8, <1>2 DEF Whole
<1>10. ASSUME HalfShows(f, tr, Now(id)) PROVE ShowsOrMoved(g, tr, Now(id))
  <2>1. /\ Now(id).name = name[id] /\ Now(id).pct = screen[id].pct /\ Now(id).rank = Rank(id)
        /\ Now(id).outcome = outcome[id] /\ Now(id).state = screen[id].state
    BY DEF Now
  <2> QED
    BY <1>2, <1>4, <1>8, <1>10, <2>1 DEF HalfShows, ShowsOrMoved
<1> QED
  BY <1>7, <1>9, <1>10

LEMMA WriteSnapshotStrip ==
  ASSUME StripIInv, NEW c \in Conn, WriteSnapshot(c)
  PROVE  Covered' /\ Reporting' /\ Telling' /\ Showing'
<1> DEFINE faces == [id \in DOMAIN snap[c] |-> Refined(id, snap[c][id])]
<1>0. /\ UNCHANGED <<sessionVars, tracker, sweep, subs, queue, conn>>
      /\ stage[c] = "reading" /\ stage' = [stage EXCEPT ![c] = "streaming"]
      /\ snap' = [snap EXCEPT ![c] = NoSnap]
      /\ view' = [t \in Strip |-> IF conn[t] = c THEN faces ELSE view[t]]
  BY DEF WriteSnapshot
<1>1. /\ Covered' /\ Reporting' /\ Live' = Live /\ Dead' = Dead
      /\ \A id : Now(id)' = Now(id)
  BY <1>0, QuietStrip
<1>2. Telling'
  BY <1>0, <1>1 DEF StripIInv, Telling
<1>3. ASSUME NEW id, HalfRight(snap[c], id, Live, tracker, Now(id))
      PROVE  Right(faces, id, Live, tracker, Now(id))
  <2>1. DOMAIN faces = DOMAIN snap[c] /\ \A i \in DOMAIN faces : faces[i] = Refined(i, snap[c][i])
    OBVIOUS
  <2>2. id \in DOMAIN snap[c] => Whole(snap[c][id])
    BY <1>3 DEF HalfRight
  <2>3. id \in DOMAIN faces =>
          /\ Whole(faces[id])
          /\ HalfShows(snap[c][id], tracker[id], Now(id)) =>
               ShowsOrMoved(faces[id], tracker[id], Now(id))
    BY <2>1, <2>2, RefinedShows
  <2> HIDE DEF faces
  <2> QED
    BY <1>3, <2>1, <2>3 DEF HalfRight, Right
<1>4. faces = [id \in DOMAIN faces |-> faces[id]]
  OBVIOUS
<1> HIDE DEF faces
<1>5. Showing'
  <2>1. ASSUME NEW t \in Strip PROVE view'[t] = [id \in DOMAIN view'[t] |-> view'[t][id]]
    <3>1. view'[t] = faces \/ view'[t] = view[t]
      BY <1>0
    <3>2. view[t] = [id \in DOMAIN view[t] |-> view[t][id]]
      BY DEF StripIInv, Showing
    <3> QED
      BY <1>4, <3>1, <3>2
  <2>2. ASSUME NEW d \in subs, stage'[d] = "reading", NEW id
        PROVE  \/ Names(queue[d], id) \/ Names(sweep.out, id)
               \/ HalfRight(snap'[d], id, Live, tracker, Now(id))
    <3>1. d # c /\ stage[d] = "reading" /\ snap'[d] = snap[d]
      <4>1. DOMAIN stage = Conn
        BY DEF StripIInv, NoteIInv, Channels
      <4> QED
        BY <1>0, <2>2, <4>1
    <3> QED
      BY <3>1 DEF StripIInv, Showing
  <2>3. ASSUME NEW t \in Strip, conn[t] \in subs, stage'[conn[t]] = "streaming", NEW id
        PROVE  \/ Names(queue[conn[t]], id) \/ Names(sweep.out, id)
               \/ Right(view'[t], id, Live, tracker, Now(id))
    <3>1. CASE conn[t] = c
      <4>1. view'[t] = faces
        BY <1>0, <3>1
      <4>2. \/ Names(queue[c], id) \/ Names(sweep.out, id)
            \/ HalfRight(snap[c], id, Live, tracker, Now(id))
        BY <1>0, <2>3, <3>1 DEF StripIInv, Showing
      <4> QED
        BY <1>3, <3>1, <4>1, <4>2
    <3>2. CASE conn[t] # c
      <4>1. view'[t] = view[t] /\ stage[conn[t]] = "streaming"
        BY <1>0, <2>3, <3>2
      <4> QED
        BY <2>3, <4>1 DEF StripIInv, Showing
    <3> QED
      BY <3>1, <3>2
  <2> QED
    BY <1>0, <1>1, <2>1, <2>2, <2>3 DEF Showing
<1> QED
  BY <1>1, <1>2, <1>5

\* A connection ends.
LEMMA ReturnStrip ==
  ASSUME StripIInv, NEW c \in Conn, Return(c), NoConn \notin Conn
  PROVE  Covered' /\ Reporting' /\ Telling' /\ Showing'
<1>0. /\ UNCHANGED <<sessionVars, tracker, sweep, view>> /\ subs' = subs \ {c}
      /\ stage' = [stage EXCEPT ![c] = "free"] /\ queue' = [queue EXCEPT ![c] = <<>>]
      /\ snap' = [snap EXCEPT ![c] = NoSnap]
      /\ conn' = [t \in Strip |-> IF conn[t] = c THEN NoConn ELSE conn[t]]
  BY DEF Return
<1>1. /\ Covered' /\ Reporting' /\ Live' = Live /\ Dead' = Dead
      /\ \A id : Now(id)' = Now(id)
  BY <1>0, QuietStrip
<1>2. \A d \in subs' : /\ d \in subs /\ d \in Conn /\ d # c
                       /\ stage'[d] = stage[d] /\ queue'[d] = queue[d] /\ snap'[d] = snap[d]
  BY <1>0 DEF StripIInv, Telling
<1>3. Telling'
  BY <1>0, <1>1, <1>2 DEF StripIInv, Telling
<1>4. \A t \in Strip : conn'[t] \in subs' => conn'[t] = conn[t]
  BY <1>0, <1>2
<1>5. Showing'
  BY <1>0, <1>1, <1>2, <1>4 DEF StripIInv, Showing
<1> QED
  BY <1>1, <1>3, <1>5

\* One begins, before its snapshot, or is given up.
LEMMA StripStrip ==
  ASSUME StripIInv, NEW t \in Strip, Connect(t) \/ Lose(t), NoConn \notin Conn
  PROVE  Covered' /\ Reporting' /\ Telling' /\ Showing'
<1>1. ASSUME NEW c \in Conn, Subscribe(t, c)
      PROVE  Covered' /\ Reporting' /\ Telling' /\ Showing'
  <2>0. /\ UNCHANGED <<sessionVars, tracker, sweep, queue, snap, view>> /\ subs' = subs \cup {c}
        /\ stage[c] = "free" /\ stage' = [stage EXCEPT ![c] = "subscribed"]
        /\ conn' = [conn EXCEPT ![t] = c]
    BY <1>1 DEF Subscribe
  <2>1. /\ Covered' /\ Reporting' /\ Live' = Live /\ Dead' = Dead
        /\ \A id : Now(id)' = Now(id)
    BY <2>0, QuietStrip
  <2>2. queue[c] = <<>> /\ DOMAIN stage = Conn
    BY <2>0 DEF StripIInv, NoteIInv, Channels
  <2>3. Settles(<<>>, sweep.out, Dead, tracker)
    BY DEF Settles
  <2>4. Telling'
    BY <2>0, <2>1, <2>2, <2>3 DEF StripIInv, Telling
  <2>5. \A d \in subs' : stage'[d] # "subscribed" => d \in subs /\ stage'[d] = stage[d]
    BY <2>0, <2>2
  <2>6. stage'[c] = "subscribed"
    BY <2>0, <2>2
  <2>7. \A u \in Strip : conn'[u] = conn[u] \/ conn'[u] = c
    BY <2>0
  <2>8. Showing'
    BY <2>0, <2>1, <2>5, <2>6, <2>7 DEF StripIInv, Showing
  <2> QED
    BY <2>1, <2>4, <2>8
<1>2. CASE Lose(t)
  <2>0. /\ UNCHANGED <<sessionVars, tracker, sweep, connVars, view>>
        /\ conn' = [conn EXCEPT ![t] = NoConn]
    BY <1>2 DEF Lose
  <2>1. /\ Covered' /\ Reporting' /\ Live' = Live /\ Dead' = Dead
        /\ \A id : Now(id)' = Now(id)
    BY <2>0, QuietStrip
  <2>2. Telling'
    BY <2>0, <2>1 DEF StripIInv, Telling, connVars
  <2>3. \A u \in Strip : conn'[u] \in subs => conn'[u] = conn[u]
    BY <2>0 DEF StripIInv, Telling
  <2>4. Showing'
    BY <2>0, <2>1, <2>3 DEF StripIInv, Showing, connVars
  <2> QED
    BY <2>1, <2>2, <2>4
<1> QED
  BY <1>1, <1>2 DEF Connect

LEMMA MakingStays ==
  ASSUME Making, [Next]_vars
  PROVE  Making'
<1>1. ASSUME NEW c \in Conn, Serve(c) PROVE Making'
  <2>1. CASE SnapTable(c)
    <3>1. PICK s : snap' = [snap EXCEPT ![c] = s]
      BY <2>1, Zenon DEF SnapTable
    <3> QED
      BY <3>1 DEF Making
  <2>2. CASE WriteSnapshot(c) \/ Stream(c) \/ Return(c)
    BY <2>2 DEF WriteSnapshot, Stream, Return, Making
  <2> QED
    BY <1>1, <2>1, <2>2 DEF Serve
<1>2. ASSUME NEW t \in Strip, Connect(t) \/ Lose(t) PROVE Making'
  BY <1>2 DEF Connect, Subscribe, Lose, connVars, Making
<1>3. CASE Sweep
  BY <1>3 DEF Sweep, SweepBegin, SweepRead, SweepDiff, Broadcast, connVars, Making
<1>4. CASE \/ \E id \in Session : Child(id) \/ User(id)
           \/ \E ids \in Arrangement : SetSessionOrder(ids)
  <2>1. UNCHANGED connVars
    BY <1>4, Zenon DEF Child, User, Report, Notify, Exit, Create, Close, SetSessionPinnedTitle,
       SetSessionOrder, Change
  <2> QED
    BY <2>1 DEF connVars, Making
<1>5. CASE UNCHANGED vars
  BY <1>5 DEF vars, connVars, Making
<1> QED
  BY <1>1, <1>2, <1>3, <1>4, <1>5 DEF Next

LEMMA StripSteps ==
  ASSUME StripIInv, Mishaps = {}, [Next]_vars
  PROVE  StripIInv'
<1> USE StatusAssumption
<1>0. NoteIInv' /\ Making' /\ NoConn \notin Conn
  BY NoteSteps, MakingStays DEF StripIInv, StatusAssumption
<1> SUFFICES Covered' /\ Reporting' /\ Telling' /\ Showing'
  BY <1>0 DEF StripIInv
<1>1. ASSUME NEW id \in Session, Child(id) \/ User(id)
      PROVE  Drift /\ IsInjective(order)'
  <2>1. ASSUME NEW p \in Reported, Report(id, p) PROVE Drift /\ IsInjective(order)'
    BY <2>1, ReportDrift
  <2>2. ASSUME NEW class, Notify(id, class) PROVE Drift /\ IsInjective(order)'
    BY <2>2, NotifyDrift
  <2>3. ASSUME NEW how \in {"exited", "crashed"}, Exit(id, how)
        PROVE  Drift /\ IsInjective(order)'
    BY <2>3, ExitDrift
  <2>4. ASSUME NEW n, SetSessionPinnedTitle(id, n) PROVE Drift /\ IsInjective(order)'
    BY <2>4, NameDrift
  <2>5. CASE Create(id)
    BY <2>5, CreateDrift
  <2>6. CASE Close(id)
    BY <2>6, CloseDrift
  <2> QED
    BY <1>1, <2>1, <2>2, <2>3, <2>4, <2>5, <2>6 DEF Child, User
<1>2. ASSUME NEW ids \in Arrangement, SetSessionOrder(ids)
      PROVE  Drift /\ IsInjective(order)'
  BY <1>2, OrderDrift
<1>3. CASE Sweep
  BY <1>3, BeginStrip, ReadStrip, DiffStrip, BroadcastStrip DEF Sweep
<1>4. ASSUME NEW c \in Conn, Serve(c)
      PROVE  Covered' /\ Reporting' /\ Telling' /\ Showing'
  BY <1>0, <1>4, SnapTableStrip, WriteSnapshotStrip, StreamStrip, ReturnStrip DEF Serve
<1>5. ASSUME NEW t \in Strip, Connect(t) \/ Lose(t)
      PROVE  Covered' /\ Reporting' /\ Telling' /\ Showing'
  BY <1>0, <1>5, StripStrip
<1>6. CASE UNCHANGED vars
  <2>1. UNCHANGED <<sessionVars, tracker, sweep, subs, queue, snap, stage, conn, view>>
    BY <1>6 DEF vars, connVars, stripVars
  <2>2. /\ Covered' /\ Reporting' /\ Live' = Live /\ Dead' = Dead
        /\ \A id : Now(id)' = Now(id)
    BY <2>1, QuietStrip
  <2> QED
    BY <2>1, <2>2 DEF StripIInv, Telling, Showing
<1> QED
  BY <1>1, <1>2, <1>3, <1>4, <1>5, <1>6, DriftKeeps DEF Next

LEMMA StripStarts == Init => StripIInv
<1> SUFFICES ASSUME Init PROVE Covered /\ Reporting /\ Telling /\ Showing /\ Making
  BY NoteStarts DEF StripIInv
<1>1. /\ order = <<>> /\ tracker = <<>> /\ sweep.out = <<>> /\ sweep.at = "idle"
      /\ subs = {} /\ snap = [c \in Conn |-> NoSnap] /\ view = [t \in Strip |-> <<>>]
  BY DEF Init, IdleSweep
<1>2. Covered
  BY <1>1 DEF Covered, IsInjective
<1>3. Reporting
  BY <1>1 DEF Reporting
<1>4. Telling
  BY <1>1 DEF Telling
<1>5. Showing
  BY <1>1 DEF Showing
<1> QED
  BY <1>1, <1>2, <1>3, <1>4, <1>5 DEF Making

\* No session is ever shown without a status, and a dead one shows its end.
LEMMA FaceIs ==
  ASSUME NEW id, NEW tr, NEW r, r.outcome \in Outcome
  PROVE  /\ Face(id, tr, r).status # NoClass
         /\ r.outcome # "running" => Face(id, tr, r).status = r.outcome
         /\ Face(id, tr, r).name = name[id] /\ Face(id, tr, r).pct = r.pct
         /\ Face(id, tr, r).rank = Rank(id)
         /\ r.state >= 0 => Face(id, tr, r).reports
<1>1. ComputeStatus(tr, r).status # NoClass
  <2>1. CASE r.outcome # "running"
    <3>1. ComputeStatus(tr, r).status = r.outcome
      BY <2>1 DEF ComputeStatus
    <3>2. "exited" # NoClass /\ "crashed" # NoClass
      BY Zenon DEF NoClass
    <3> QED
      BY <2>1, <3>1, <3>2 DEF Outcome
  <2>2. CASE r.outcome = "running"
    <3>1. PICK a : a = FreshLatch(tr, r)
      OBVIOUS
    <3>2. PICK l : l = IF FreshLatch(tr, r) THEN r.class ELSE tr.latched
      OBVIOUS
    <3>3. PICK b \in BOOLEAN : b <=> ~FreshLatch(tr, r) /\ Overrides(tr, r, l)
      OBVIOUS
    <3>4. PICK s : s = IF l # NoClass THEN l ELSE "idle"
      OBVIOUS
    <3>5. PICK p : p = ProgressStatus(r.state)
      OBVIOUS
    <3>6. ComputeStatus(tr, r) =
            IF b THEN [latched |-> NoClass, status |-> p] ELSE [latched |-> l, status |-> s]
      BY <2>2, <3>2, <3>3, <3>4, <3>5, Zenon DEF ComputeStatus
    <3>7. b => p # NoClass
      BY <3>3, <3>5, Zenon DEF Overrides, NoClass
    <3>8. s # NoClass
      <4>1. "idle" # NoClass
        BY Zenon DEF NoClass
      <4> QED
        BY <3>4, <4>1
    <3>9. CASE b
      BY <3>6, <3>7, <3>9
    <3>10. CASE ~b
      BY <3>6, <3>8, <3>10
    <3> QED
      BY <3>9, <3>10
  <2> QED
    BY <2>1, <2>2
<1>2. PICK f : f = ComputeStatus(tr, r).status
  OBVIOUS
<1>3. PICK b : b = (r.state >= 0 \/ ComputeStatus(tr, r).latched # NoClass)
  OBVIOUS
<1>4. Face(id, tr, r) = [status |-> f, name |-> name[id], pct |-> r.pct,
                         rank |-> Rank(id), reports |-> b]
  BY <1>2, <1>3, Zenon DEF Face
<1>5. PICK g : g = Face(id, tr, r)
  OBVIOUS
<1>6. g.status = f /\ g.name = name[id] /\ g.pct = r.pct /\ g.rank = Rank(id) /\ g.reports = b
  BY <1>4, <1>5
<1>7. r.outcome # "running" => f = r.outcome
  BY <1>2 DEF ComputeStatus
<1>8. r.state >= 0 => g.reports
  BY <1>5, FaceIsRemembered
<1> QED
  BY <1>1, <1>2, <1>5, <1>6, <1>7, <1>8

\* A strip that has taken in all that was sent shows every live session, no
\* other, and each as the server has it, however its snapshot, the sweeps and
\* the sessions' changes were interleaved - unless something went back, unseen by
\* any sweep, to what was last sent of it, or a session came and went between two
\* sweeps ("Subscribe before the snapshot", events.go:694-695).
THEOREM StripAlwaysAgrees ==
  ASSUME Mishaps = {}
  PROVE  Spec => []StripAgrees
<1>1. StripIInv => StripAgrees
  <2> SUFFICES ASSUME StripIInv, NEW t \in Strip, Told, Listening(t)
               PROVE  view[t] = Truth
    BY DEF StripAgrees
  <2>0. /\ sweep.out = <<>> /\ DOMAIN tracker = Live
        /\ conn[t] \in subs /\ stage[conn[t]] = "streaming" /\ queue[conn[t]] = <<>>
    BY DEF Told, Listening, StripIInv, NoteIInv, Mail
  <2>1. \A id : Right(view[t], id, Live, tracker, Now(id))
    BY <2>0 DEF StripIInv, Showing, Names
  <2>2. ASSUME NEW id \in Live
        PROVE  id \in DOMAIN view[t] /\ view[t][id] = Face(id, TrackerOf(id), Reading(id))
    <3>1. PICK tr : tr = tracker[id]
      OBVIOUS
    <3>2. TrackerOf(id) = tr /\ id \in DOMAIN tracker /\ id \in Session
      BY <2>0, <3>1, LiveSessions DEF TrackerOf, StripIInv, NoteIInv, IInv, Sessions
    <3>3. Face(id, tr, Reading(id)) = Shown(tr)
      BY <3>1 DEF Told, Changed
    <3>4. Reading(id).outcome \in Outcome
      BY <3>2 DEF Reading, StripIInv, NoteIInv, IInv, Sessions
    <3>5. tr.status # NoClass /\ tr.reports \in BOOLEAN
      BY <3>1, <3>2, <3>3, <3>4, FaceIs, ShownWhole DEF StripIInv, Reporting, Shown
    <3>6. id \in DOMAIN view[t] /\ Whole(view[t][id]) /\ ShowsOrMoved(view[t][id], tr, Now(id))
      BY <2>1, <3>1, <3>2, <3>5, Zenon DEF Right, Sent, NoClass
    <3>7. PICK f : f = view[t][id]
      OBVIOUS
    <3>8. PICK r : r = Reading(id)
      OBVIOUS
    <3>9. /\ r.outcome = outcome[id] /\ r.state = screen[id].state /\ r.pct = screen[id].pct
          /\ Now(id).name = name[id] /\ Now(id).pct = screen[id].pct /\ Now(id).rank = Rank(id)
          /\ Now(id).outcome = outcome[id] /\ Now(id).state = screen[id].state
      BY <3>8 DEF Reading, Now
    <3>10. /\ tr.name = name[id] /\ tr.pct = r.pct /\ tr.rank = Rank(id)
           /\ r.outcome # "running" => tr.status = r.outcome
           /\ r.state >= 0 => tr.reports
      BY <3>3, <3>4, <3>5, <3>8, FaceIs, ShownWhole
    <3>11. /\ f.status = tr.status /\ f.name = tr.name /\ f.pct = tr.pct /\ f.rank = tr.rank
           /\ f.reports <=> tr.reports
      BY <3>6, <3>7, <3>9, <3>10 DEF ShowsOrMoved
    <3>12. Whole(f) /\ Whole(Shown(tr))
      BY <3>5, <3>6, <3>7, ShownWhole
    <3>13. f.reports = tr.reports
      BY <3>5, <3>11, <3>12, Zenon DEF Whole
    <3>14. f = Shown(tr)
      BY <3>11, <3>12, <3>13 DEF Whole, Shown
    <3> QED
      BY <3>2, <3>3, <3>6, <3>7, <3>14
  <2>3. ASSUME NEW id \in DOMAIN view[t] PROVE id \in Live
    BY <2>0, <2>1 DEF Right
  <2>4. view[t] = [id \in DOMAIN view[t] |-> view[t][id]]
    BY DEF StripIInv, Showing
  <2>5. DOMAIN view[t] = Live
    BY <2>2, <2>3
  <2> QED
    BY <2>2, <2>4, <2>5 DEF Truth
<1>2. StripIInv /\ [Next]_vars => StripIInv'
  BY StripSteps
<1> QED
  BY <1>1, <1>2, StripStarts, PTL DEF Spec

=============================================================================
