------------------------ MODULE FlushScheduleProofs ------------------------
(***************************************************************************)
(* Proofs about FlushSchedule, for any number of clients and sizes and     *)
(* whatever the length of an interval, a hold or a budget: what leaves is  *)
(* whole, what changed leaves in time, and the shared size is a client's.  *)
(***************************************************************************)
EXTENDS FlushSchedule, WellFoundedInduction, TLAPS

Stages == {"idle", "pass", "hold", "batch", "batchMore"}
Holds  == [cap : Nat \cup {NoTimer}, quiet : Nat, rearms : Nat]

Flags ==
  /\ started \in BOOLEAN /\ dirty \in BOOLEAN /\ poke \in BOOLEAN /\ pc \in Stages
  /\ coalesce \in BOOLEAN /\ palette \in BOOLEAN /\ reset \in BOOLEAN
  /\ unshown \in BOOLEAN /\ owed \in BOOLEAN /\ excused \in BOOLEAN
Clocks ==
  /\ timer \in Nat /\ sync \in Nat /\ waited \in Nat
  /\ quietFor \in Nat /\ redrawFor \in Nat /\ lastFrame \in Nat
Typed == Flags /\ Clocks /\ settle \in Holds

-----------------------------------------------------------------------------
(* The re-arm budget.                                                      *)

\* The time a hold re-armed n times can have lasted at most.
Spent(n) == (n + 1) * SettleCap

LEMMA SpentUp ==
  /\ Budget \in Nat /\ Spent(MaxRearms) = Budget /\ SettleCap <= Budget
  /\ \A n \in Nat : /\ Spent(n) \in Nat /\ Spent(n + 1) = Spent(n) + SettleCap
                    /\ Spent(n) >= SettleCap
                    /\ n <= MaxRearms => Spent(n) <= Budget
<1>1. MaxRearms \in Nat /\ SettleCap \in Nat
  BY FlushAssumption
<1>2. ASSUME NEW n \in Nat
      PROVE  /\ Spent(n) \in Nat /\ Spent(n + 1) = Spent(n) + SettleCap
             /\ Spent(n) >= SettleCap
             /\ n <= MaxRearms => Spent(n) <= Budget
  <2>1. n * SettleCap \in Nat /\ MaxRearms * SettleCap \in Nat
    BY <1>1
  <2>2. Spent(n) = n * SettleCap + SettleCap /\ Budget = MaxRearms * SettleCap + SettleCap
    BY <1>1 DEF Spent, Budget
  <2>3. Spent(n + 1) = Spent(n) + SettleCap
    BY <1>1 DEF Spent
  <2>4. n <= MaxRearms => n * SettleCap <= MaxRearms * SettleCap
    BY <1>1
  <2> QED
    BY <1>1, <2>1, <2>2, <2>3, <2>4
<1>3. Budget = Spent(MaxRearms)
  BY DEF Budget, Spent
<1> QED
  BY <1>1, <1>2, <1>3

\* The constants, as the steps below use them.
LEMMA Ticks ==
  /\ FlushInterval \in Nat \ {0} /\ Quiet \in Nat \ {0} /\ SettleCap \in Nat \ {0}
  /\ SyncHold \in Nat \ {0} /\ MaxRearms \in Nat
  /\ FlushInterval <= SettleCap /\ Quiet < SettleCap
BY FlushAssumption

-----------------------------------------------------------------------------
\* What the two holds decide, by cases.
LEMMA HoldCases ==
  ASSUME NEW s \in Holds
  PROVE  LET r == RedrawHoldUntil(s) IN
         /\ r.hold \in Holds /\ r.wait \in Nat /\ r.lapsed \in BOOLEAN
         /\ \/ ~Armed(s) /\ r.hold = s /\ r.wait = 0
            \/ /\ Armed(s) /\ (s.quiet = 0 \/ (s.cap = 0 /\ s.rearms >= MaxRearms))
               /\ ~Armed(r.hold) /\ r.wait = 0
            \/ /\ Armed(s) /\ s.quiet > 0 /\ s.cap = 0 /\ s.rearms < MaxRearms /\ r.lapsed
               /\ r.hold = [cap |-> SettleCap, quiet |-> s.quiet, rearms |-> s.rearms + 1]
               /\ r.wait = 0
            \/ /\ Armed(s) /\ s.quiet > 0 /\ s.cap > 0 /\ r.hold = s
               /\ r.wait = Capped(s.cap, s.quiet) /\ r.wait > 0
<1> DEFINE r == RedrawHoldUntil(s)
<1>0. /\ SettleCap \in Nat /\ MaxRearms \in Nat
      /\ s.cap \in Nat \cup {NoTimer} /\ s.quiet \in Nat /\ s.rearms \in Nat
  BY Ticks DEF Holds
<1>1. CASE ~Armed(s)
  <2>1. r = [hold |-> s, wait |-> 0, lapsed |-> FALSE]
    BY <1>0, <1>1 DEF RedrawHoldUntil, Armed, NoTimer
  <2> QED
    BY <2>1, <1>1
<1>2. CASE Armed(s) /\ (s.quiet = 0 \/ (s.cap = 0 /\ s.rearms >= MaxRearms))
  <2>1. r = [hold |-> Calm, wait |-> 0, lapsed |-> FALSE]
    BY <1>0, <1>2 DEF RedrawHoldUntil
  <2>2. Calm \in Holds /\ ~Armed(Calm)
    BY DEF Calm, Holds, Armed
  <2> QED
    BY <2>1, <2>2, <1>2
<1>3. CASE s.quiet > 0 /\ s.cap = 0 /\ s.rearms < MaxRearms
  <2>0. Armed(s)
    BY <1>3 DEF Armed, NoTimer
  <2>1. r = [hold |-> [cap |-> SettleCap, quiet |-> s.quiet, rearms |-> s.rearms + 1],
             wait |-> 0, lapsed |-> TRUE]
    BY <1>0, <1>3, <2>0 DEF RedrawHoldUntil
  <2>2. r.hold = [cap |-> SettleCap, quiet |-> s.quiet, rearms |-> s.rearms + 1]
    BY <2>1
  <2>3. r.hold \in Holds
    BY <1>0, <2>2 DEF Holds
  <2> QED
    BY <1>3, <2>0, <2>1, <2>2, <2>3
<1>4. CASE s.quiet > 0 /\ s.cap > 0
  <2>0. Armed(s)
    BY <1>4 DEF Armed, NoTimer
  <2>1. r = [hold |-> s, wait |-> Capped(s.cap, s.quiet), lapsed |-> FALSE]
    BY <1>0, <1>4, <2>0 DEF RedrawHoldUntil
  <2>2. Capped(s.cap, s.quiet) \in Nat /\ Capped(s.cap, s.quiet) > 0
    BY <1>0, <1>4 DEF Capped, NoTimer
  <2> QED
    BY <1>4, <2>0, <2>1, <2>2
<1>5. Armed(s) => s.cap \in Nat
  BY <1>0 DEF Armed
<1> QED
  BY <1>0, <1>1, <1>2, <1>3, <1>4, <1>5

-----------------------------------------------------------------------------
LEMMA TypedInit == Init => Typed
<1>1. Init => Flags
  BY DEF Init, Flags, Stages
<1>2. Init => Clocks
  BY Ticks, SpentUp DEF Init, Clocks
<1>3. Init => settle \in Holds
  BY DEF Init, Holds, Calm
<1> QED
  BY <1>1, <1>2, <1>3 DEF Typed

LEMMA TypedNext == Typed /\ [Next]_vars => Typed'
<1> SUFFICES ASSUME Typed, [Next]_vars
             PROVE  Typed'
  OBVIOUS
<1> USE DEF Stages, clients, sizing, sched, history
<1>0. Flags /\ Clocks /\ settle \in Holds
  BY DEF Typed
<1>1. ASSUME NEW kind \in {"text", "begin", "end", "palette"}, HandlePTYData(kind)
      PROVE  Typed'
  <2>1. settle' \in Holds
    BY <1>0, <1>1, Ticks DEF HandlePTYData, Holds
  <2>2. Flags'
    BY <1>0, <1>1 DEF HandlePTYData, Flags
  <2>3. Clocks'
    BY <1>0, <1>1, Ticks DEF HandlePTYData, Clocks
  <2> QED
    BY <2>1, <2>2, <2>3 DEF Typed
<1>2. CASE MarkDirty
  BY <1>0, <1>2 DEF MarkDirty, Typed, Flags, Clocks
<1>3. CASE FlushPass
  <2> DEFINE r == RedrawHoldUntil(settle)
  <2>1. r.hold \in Holds /\ r.wait \in Nat /\ r.lapsed \in BOOLEAN
    BY <1>0, HoldCases
  <2> HIDE DEF r
  <2>2. CASE PassHeld
    <3>1. Flags'
      BY <1>0, <1>3, <2>1, <2>2 DEF FlushPass, PassHeld, Flags, r
    <3>2. Clocks'
      BY <1>0, <1>3, <2>1, <2>2 DEF FlushPass, PassHeld, Clocks, Later, r
    <3> QED
      BY <2>1, <2>2, <3>1, <3>2 DEF PassHeld, Typed, r
  <2>3. CASE PassBuilt
    <3>1. Flags'
      BY <1>0, <1>3, <2>1, <2>3 DEF FlushPass, PassBuilt, Build, Show, Flags, r
    <3>2. Clocks'
      BY <1>0, <1>3, <2>3, Ticks DEF FlushPass, PassBuilt, Build, Show, Clocks
    <3> QED
      BY <2>1, <2>3, <3>1, <3>2 DEF PassBuilt, Typed, r
  <2> QED
    BY <1>3, <2>2, <2>3 DEF FlushPass
<1>4. CASE FlushSuspended
  BY <1>0, <1>4, Ticks DEF FlushSuspended, Typed, Flags, Clocks
<1>5. CASE Wait
  BY <1>0, <1>5 DEF Wait, WaitForDirty, WaitForHoldRetry, WaitForBatchWindow, Typed, Flags, Clocks
<1>6. CASE StartEager
  BY <1>0, <1>6 DEF StartEager, Typed, Flags, Clocks
<1>7. ASSUME NEW c \in Client, Attach(c)
      PROVE  Typed'
  <2>1. Flags'
    BY <1>0, <1>7 DEF Attach, Flags
  <2>2. Clocks' /\ settle' \in Holds
    BY <1>0, <1>7 DEF Attach, Clocks
  <2> QED
    BY <2>1, <2>2 DEF Typed
<1>8. ASSUME NEW c \in Client, HandleBinaryFrame(c) \/ Remove(c) \/ MaybeHealSize(c)
      PROVE  Typed'
  <2>1. CASE HandleBinaryFrame(c)
    BY <1>0, <2>1 DEF HandleBinaryFrame, Typed, Flags, Clocks
  <2>2. CASE Remove(c)
    BY <1>0, <2>2 DEF Remove, Typed, Flags, Clocks
  <2>3. CASE MaybeHealSize(c)
    BY <1>0, <2>3 DEF MaybeHealSize, Typed, Flags, Clocks
  <2> QED
    BY <1>8, <2>1, <2>2, <2>3
<1>9. ASSUME NEW z, ApplySize(z), UNCHANGED <<started, pc, timer, poke, sync, palette, sent>>
      PROVE  Typed'
  <2>1. settle' = settle \/ settle' = [cap |-> SettleCap, quiet |-> Quiet, rearms |-> 0]
    BY <1>9 DEF ApplySize
  <2>2. settle' \in Holds
    BY <1>0, <2>1, Ticks DEF Holds
  <2>3. Flags'
    <3>1. CASE z = screen
      BY <1>0, <1>9, <3>1 DEF ApplySize, Flags
    <3>2. CASE z # screen
      <4>1. excused' = (sync > 0)
        BY <1>9, <3>2 DEF ApplySize
      <4>2. excused' \in BOOLEAN
        BY <4>1
      <4> QED
        BY <1>0, <1>9, <4>2 DEF ApplySize, Flags
    <3> QED
      BY <3>1, <3>2
  <2>4. Clocks'
    BY <1>0, <1>9 DEF ApplySize, Clocks
  <2> QED
    BY <2>2, <2>3, <2>4 DEF Typed
<1>10. ASSUME NEW c \in Client, Resize(c)
      PROVE  Typed'
  BY <1>9, <1>10 DEF Resize
<1>11. ASSUME NEW c \in Client, NEW z \in Sizes, RecordSize(c, z)
       PROVE  Typed'
  BY <1>0, <1>11 DEF RecordSize, Typed, Flags, Clocks
<1>12. CASE HealRead
  BY <1>0, <1>12 DEF HealRead, Typed, Flags, Clocks
<1>13. CASE HealApply
  BY <1>9, <1>13 DEF HealApply
<1>14. CASE Tick
  <2>1. settle' \in Holds
    <3>1. settle.cap \in Nat \cup {NoTimer} /\ settle.quiet \in Nat /\ settle.rearms \in Nat
      BY <1>0 DEF Holds
    <3>2. settle' = [settle EXCEPT !.cap = Down(@), !.quiet = Down(@)]
      BY <1>14 DEF Tick
    <3>3. Down(settle.cap) \in Nat \cup {NoTimer} /\ Down(settle.quiet) \in Nat
      BY <3>1 DEF Down, NoTimer
    <3> QED
      BY <1>0, <3>2, <3>3 DEF Holds
  <2>2. Flags'
    BY <1>0, <1>14 DEF Tick, Flags
  <2>3. Clocks'
    BY <1>0, <1>14, Ticks, SpentUp DEF Tick, Clocks, Down, Capped
  <2> QED
    BY <2>1, <2>2, <2>3 DEF Typed
<1>15. CASE UNCHANGED vars
  BY <1>0, <1>15 DEF vars, Typed, Flags, Clocks
<1> QED
  BY <1>1, <1>2, <1>3, <1>4, <1>5, <1>6, <1>7, <1>8, <1>10, <1>11, <1>12, <1>13, <1>14, <1>15 DEF Next

LEMMA AlwaysTyped == Spec => []Typed
BY TypedInit, TypedNext, PTL DEF Spec

-----------------------------------------------------------------------------
(* Whole frames.                                                           *)

\* What a redraw hold has cost so far: it ends for good only after a pause, or
\* when the whole budget is spent, and no frame left during its last cap.
FrameInv ==
  /\ owed => reset \/ palette
  /\ Armed(settle) => quietFor + settle.quiet = Quiet
  /\ ~Armed(settle) => ~Redrawing
  /\ Armed(settle) => /\ settle.rearms <= MaxRearms
                      /\ redrawFor + settle.cap >= Spent(settle.rearms)
                      /\ lastFrame + settle.cap >= SettleCap
  /\ FramesWhole

LEMMA NoFrameWhole == sent' = NoFrame => FramesWhole'
BY DEF NoFrame, FramesWhole

LEMMA FrameInit == Init => FrameInv
<1> SUFFICES ASSUME Init
             PROVE  FrameInv
  OBVIOUS
<1>1. ~Armed(settle) /\ ~Redrawing /\ ~owed
  BY Ticks, SpentUp DEF Init, Armed, Calm, Redrawing
<1>2. FramesWhole
  BY DEF Init, FramesWhole, NoFrame
<1> QED
  BY <1>1, <1>2 DEF FrameInv

\* A step that leaves the holds alone, and the debt of a repaint covered.
LEMMA FrameKept ==
  ASSUME FrameInv, UNCHANGED <<settle, quietFor, redrawFor, lastFrame>>,
         owed' => reset' \/ palette', sent' = NoFrame \/ UNCHANGED sent
  PROVE  FrameInv'
<1>1. FramesWhole'
  BY NoFrameWhole DEF FrameInv, FramesWhole
<1> QED
  BY <1>1 DEF FrameInv, Redrawing

LEMMA FramePass ==
  ASSUME Typed, FrameInv, FlushPass
  PROVE  FrameInv'
<1> DEFINE r == RedrawHoldUntil(settle)
           full == reset \/ palette \/ coalesce \/ r.lapsed
<1>0. Flags /\ Clocks /\ settle \in Holds
  BY DEF Typed
<1>1. r.hold \in Holds /\ r.wait \in Nat
  BY <1>0, HoldCases
<1>c. \/ ~Armed(settle) /\ r.hold = settle
      \/ /\ Armed(settle) /\ (settle.quiet = 0 \/ (settle.cap = 0 /\ settle.rearms >= MaxRearms))
         /\ ~Armed(r.hold)
      \/ /\ Armed(settle) /\ settle.quiet > 0 /\ settle.cap = 0 /\ settle.rearms < MaxRearms
         /\ r.lapsed
         /\ r.hold = [cap |-> SettleCap, quiet |-> settle.quiet, rearms |-> settle.rearms + 1]
      \/ Armed(settle) /\ r.hold = settle /\ r.wait > 0
  BY <1>0, HoldCases
<1>2. UNCHANGED <<quietFor, redrawFor, sync>> /\ settle' = r.hold
  BY DEF FlushPass, PassHeld, PassBuilt
<1>3. settle.cap \in Nat \cup {NoTimer} /\ settle.quiet \in Nat /\ settle.rearms \in Nat
  BY <1>0 DEF Holds
<1>4. Armed(settle) /\ (settle.quiet = 0 \/ (settle.cap = 0 /\ settle.rearms >= MaxRearms))
        => ~Redrawing
  BY <1>0, <1>3, Ticks, SpentUp DEF FrameInv, Redrawing, Clocks
\* The hold after the pass.
<1>5. ~Armed(settle)' => ~Redrawing'
  <2> HIDE DEF r
  <2>1. ~Armed(r.hold) => ~Redrawing
    BY <1>c, <1>4, Ticks DEF FrameInv, Armed, NoTimer
  <2> QED
    BY <1>2, <2>1 DEF Redrawing, Armed
<1>6. ASSUME Armed(settle)'
      PROVE  /\ quietFor' + settle'.quiet = Quiet /\ settle'.rearms <= MaxRearms
             /\ redrawFor' + settle'.cap >= Spent(settle'.rearms)
             /\ settle'.cap >= SettleCap \/ settle' = settle
             /\ settle' = settle => r.wait > 0
  <2>1. Armed(r.hold)
    BY <1>2, <1>6 DEF Armed
  <2>2. CASE /\ Armed(settle) /\ settle.quiet > 0 /\ settle.cap = 0
             /\ settle.rearms < MaxRearms
             /\ r.hold = [cap |-> SettleCap, quiet |-> settle.quiet, rearms |-> settle.rearms + 1]
    <3>1. /\ settle'.cap = SettleCap /\ settle'.quiet = settle.quiet
          /\ settle'.rearms = settle.rearms + 1
      BY <1>2, <2>2
    <3>2. Spent(settle.rearms + 1) = Spent(settle.rearms) + SettleCap
          /\ Spent(settle.rearms) \in Nat
      BY <1>3, SpentUp
    <3> QED
      BY <1>0, <1>2, <1>3, <2>2, <3>1, <3>2, Ticks DEF FrameInv, Clocks
  <2>3. CASE Armed(settle) /\ r.hold = settle /\ r.wait > 0
    BY <1>2, <2>3 DEF FrameInv
  <2> QED
    BY <1>c, <2>1, <2>2, <2>3
<1> HIDE DEF r
<1>7. CASE PassHeld
  <2>1. sent' = NoFrame /\ UNCHANGED <<lastFrame, owed>> /\ reset' = (reset \/ palette)
    BY <1>7 DEF PassHeld
  <2>2. Armed(settle)' => lastFrame' + settle'.cap >= SettleCap
    <3>1. SUFFICES ASSUME Armed(settle)', ~(settle'.cap >= SettleCap)
                   PROVE  lastFrame + settle.cap >= SettleCap /\ settle' = settle
      BY <1>0, <1>1, <1>2, <2>1, Ticks DEF Clocks, Holds, Armed
    <3>2. settle' = settle
      BY <1>6, <3>1
    <3> QED
      BY <3>1, <3>2 DEF FrameInv, Armed
  <2>3. owed' => reset'
    BY <2>1 DEF FrameInv
  <2> QED
    BY <1>5, <1>6, <2>1, <2>2, <2>3, NoFrameWhole DEF FrameInv
<1>8. CASE PassBuilt
  <2>1. sync = 0 /\ r.wait = 0
    BY <1>0, <1>1, <1>8 DEF PassBuilt, Later, Clocks, r
  <2>2. Armed(settle)' => settle'.cap >= SettleCap
    BY <1>6, <2>1
  <2>3. Build(full)
    BY <1>8 DEF PassBuilt, r
  <2>4. owed => full
    BY DEF FrameInv
  <2>5. Redrawing => r.lapsed /\ lastFrame >= SettleCap
    <3>1. Redrawing => Armed(settle) /\ settle.cap = 0 /\ r.lapsed
      BY <1>c, <1>1, <1>4, <2>1 DEF FrameInv
    <3> QED
      BY <1>0, <3>1 DEF FrameInv, Clocks
  <2> HIDE DEF full
  <2>6. CASE Show(full)
    <3>1. ~owed' /\ lastFrame' = 0
      BY <2>4, <2>6 DEF Show
    <3>2. FramesWhole'
      <4>1. /\ sent'.held = (sync > 0) /\ sent'.redraw = Redrawing /\ sent'.full = full
            /\ sent'.early = (lastFrame < SettleCap) /\ sent'.owed = owed
        BY <2>6 DEF Show
      <4>2. ~sent'.held
        <5>1. (sync > 0) = FALSE
          BY <2>1
        <5> QED
          BY <4>1, <5>1, Zenon
      <4>3. sent'.redraw => sent'.full /\ ~sent'.early
        <5>1. CASE ~Redrawing
          BY <4>1, <5>1
        <5>2. CASE Redrawing
          <6>1. (lastFrame < SettleCap) = FALSE /\ full
            BY <1>0, <2>5, <5>2, Ticks DEF full, Clocks
          <6> QED
            BY <4>1, <6>1, Zenon
        <5> QED
          BY <5>1, <5>2
      <4>4. sent'.owed => sent'.full
        BY <2>4, <4>1
      <4> QED
        BY <4>2, <4>3, <4>4 DEF FramesWhole
    <3>3. Armed(settle)' => lastFrame' + settle'.cap >= SettleCap
      BY <1>1, <1>2, <2>2, <3>1 DEF Holds, Armed
    <3> QED
      BY <1>5, <1>6, <3>1, <3>2, <3>3 DEF FrameInv
  <2>7. CASE reset' = full /\ sent' = NoFrame /\ UNCHANGED <<lastFrame, owed>>
    <3>1. Armed(settle)' => lastFrame' + settle'.cap >= SettleCap
      BY <1>0, <1>1, <1>2, <2>2, <2>7, Ticks DEF Clocks, Holds, Armed
    <3> QED
      BY <1>5, <1>6, <2>4, <2>7, <3>1, NoFrameWhole DEF FrameInv
  <2> QED
    BY <2>3, <2>6, <2>7 DEF Build
<1> QED
  BY <1>7, <1>8 DEF FlushPass

LEMMA FrameSized ==
  ASSUME FrameInv, Typed, NEW z, ApplySize(z), UNCHANGED <<palette, sent>>
  PROVE  FrameInv'
<1>0. Flags /\ Clocks /\ settle \in Holds
  BY DEF Typed
<1>1. owed' => reset' \/ palette'
  BY DEF ApplySize
<1>2. CASE z = screen
  BY <1>1, <1>2, FrameKept DEF ApplySize
<1>3. CASE z # screen
  <2>1. settle' = [cap |-> SettleCap, quiet |-> Quiet, rearms |-> 0]
    BY <1>3 DEF ApplySize
  <2>2. quietFor' = 0 /\ redrawFor' = 0 /\ lastFrame' = 0
    BY <1>3 DEF ApplySize
  <2>3. Armed(settle)'
    BY <2>1, Ticks DEF Armed, NoTimer
  <2>4. Spent(0) = SettleCap
    BY Ticks DEF Spent
  <2>5. FramesWhole'
    BY DEF FrameInv, FramesWhole
  <2> QED
    BY <1>1, <2>1, <2>2, <2>3, <2>4, <2>5, Ticks DEF FrameInv
<1> QED
  BY <1>2, <1>3

LEMMA FrameTick ==
  ASSUME FrameInv, Typed, Tick
  PROVE  FrameInv'
<1>0. Flags /\ Clocks /\ settle \in Holds
  BY DEF Typed
<1>1. settle.cap \in Nat \cup {NoTimer} /\ settle.quiet \in Nat /\ settle.rearms \in Nat
  BY <1>0 DEF Holds
<1>2. /\ settle'.cap = Down(settle.cap) /\ settle'.quiet = Down(settle.quiet)
      /\ settle'.rearms = settle.rearms
  BY <1>0 DEF Tick, Holds
<1>3. Armed(settle)' <=> Armed(settle)
  BY <1>1, <1>2 DEF Armed, Down, NoTimer
<1>4. owed' => reset' \/ palette'
  BY DEF FrameInv, Tick
<1>5. FramesWhole'
  BY NoFrameWhole DEF Tick
<1>6. ASSUME ~Armed(settle)
      PROVE  ~Redrawing'
  <2>1. ~Redrawing /\ redrawFor' = Budget
    BY <1>6 DEF FrameInv, Tick
  <2> QED
    BY <2>1, SpentUp DEF Redrawing
<1>7. ASSUME Armed(settle)
      PROVE  /\ quietFor' + settle'.quiet = Quiet /\ settle'.rearms <= MaxRearms
             /\ redrawFor' + settle'.cap >= Spent(settle'.rearms)
             /\ lastFrame' + settle'.cap >= SettleCap
  <2>1. settle.cap \in Nat
    BY <1>1, <1>7 DEF Armed
  <2>2. quietFor' + settle'.quiet = Quiet
    BY <1>0, <1>1, <1>2, <1>7, Ticks DEF FrameInv, Tick, Down, Capped, Clocks
  <2>3. redrawFor' = Capped(redrawFor + 1, Budget)
    BY <1>7 DEF Tick
  <2>4. Spent(settle.rearms) \in Nat /\ Spent(settle.rearms) <= Budget /\ Budget \in Nat
    BY <1>1, <1>7, SpentUp DEF FrameInv
  <2>5. redrawFor' + settle'.cap >= Spent(settle'.rearms)
    BY <1>0, <1>2, <1>7, <2>1, <2>3, <2>4 DEF FrameInv, Down, Capped, Clocks
  <2>6. lastFrame' = Capped(lastFrame + 1, SettleCap) \/ lastFrame' = SettleCap
    BY DEF Tick
  <2>7. lastFrame' + settle'.cap >= SettleCap
    BY <1>0, <1>2, <1>7, <2>1, <2>6, Ticks DEF FrameInv, Down, Capped, Clocks
  <2> QED
    BY <1>2, <1>7, <2>2, <2>5, <2>7 DEF FrameInv
<1> QED
  BY <1>3, <1>4, <1>5, <1>6, <1>7 DEF FrameInv

LEMMA FrameNext == Typed /\ FrameInv /\ [Next]_vars => FrameInv'
<1> SUFFICES ASSUME Typed, FrameInv, [Next]_vars
             PROVE  FrameInv'
  OBVIOUS
<1> USE DEF sched, history, sizing, clients
<1>0. owed => reset \/ palette
  BY DEF FrameInv
<1>1. ASSUME NEW kind \in {"text", "begin", "end", "palette"}, HandlePTYData(kind)
      PROVE  FrameInv'
  <2>1. settle \in Holds /\ Clocks
    BY DEF Typed
  <2>2. owed' => reset' \/ palette'
    BY <1>0, <1>1 DEF HandlePTYData
  <2>3. CASE ~Armed(settle)
    <3>1. settle' = settle /\ quietFor' = Quiet /\ UNCHANGED <<redrawFor, lastFrame, sent>>
      BY <1>1, <2>1, <2>3 DEF HandlePTYData, Holds
    <3> QED
      BY <2>1, <2>2, <2>3, <3>1, Ticks DEF FrameInv, Redrawing, FramesWhole, Armed
  <2>4. CASE Armed(settle)
    <3>1. /\ settle'.cap = settle.cap /\ settle'.quiet = Quiet
          /\ settle'.rearms = settle.rearms
          /\ quietFor' = 0 /\ UNCHANGED <<redrawFor, lastFrame, sent>>
      BY <1>1, <2>1, <2>4 DEF HandlePTYData, Holds
    <3> QED
      BY <2>1, <2>2, <2>4, <3>1, Ticks DEF FrameInv, Redrawing, FramesWhole, Armed
  <2> QED
    BY <2>3, <2>4
<1>2. CASE MarkDirty
  BY <1>0, <1>2, FrameKept DEF MarkDirty
<1>3. CASE FlushPass
  BY <1>3, FramePass
<1>4. CASE FlushSuspended
  BY <1>0, <1>4, FrameKept DEF FlushSuspended
<1>5. CASE Wait
  BY <1>0, <1>5, FrameKept DEF Wait
<1>6. CASE StartEager
  BY <1>0, <1>6, FrameKept DEF StartEager
<1>7. ASSUME NEW c \in Client, Attach(c)
      PROVE  FrameInv'
  BY <1>7, FrameKept DEF Attach
<1>8. ASSUME NEW c \in Client, HandleBinaryFrame(c)
      PROVE  FrameInv'
  BY <1>0, <1>8, FrameKept DEF HandleBinaryFrame
<1>9. ASSUME NEW c \in Client, Remove(c)
      PROVE  FrameInv'
  BY <1>0, <1>9, FrameKept DEF Remove
<1>10. ASSUME NEW c \in Client, MaybeHealSize(c)
       PROVE  FrameInv'
  BY <1>0, <1>10, FrameKept DEF MaybeHealSize
<1>11. ASSUME NEW c \in Client, Resize(c)
       PROVE  FrameInv'
  BY <1>11, FrameSized DEF Resize
<1>12. ASSUME NEW c \in Client, NEW z \in Sizes, RecordSize(c, z)
       PROVE  FrameInv'
  BY <1>0, <1>12, FrameKept DEF RecordSize
<1>13. CASE HealRead
  BY <1>0, <1>13, FrameKept DEF HealRead
<1>14. CASE HealApply
  BY <1>14, FrameSized DEF HealApply
<1>15. CASE Tick
  BY <1>15, FrameTick
<1>16. CASE UNCHANGED vars
  BY <1>0, <1>16, FrameKept DEF vars
<1> QED
  BY <1>1, <1>2, <1>3, <1>4, <1>5, <1>6, <1>7, <1>8, <1>9, <1>10, <1>11, <1>12,
     <1>13, <1>14, <1>15, <1>16 DEF Next

\* No frame shows half a redraw, cuts a synchronized update, or is a difference
\* to a screen of another size or palette, whatever the lengths of the two holds
\* and however resizes, output and departures interleave.
THEOREM FramesAlwaysWhole == Spec => []FramesWhole
<1>1. Init => Typed /\ FrameInv
  BY TypedInit, FrameInit
<1>2. (Typed /\ FrameInv) /\ [Next]_vars => (Typed /\ FrameInv)'
  BY TypedNext, FrameNext
<1>3. FrameInv => FramesWhole
  BY DEF FrameInv
<1> QED
  BY <1>1, <1>2, <1>3, PTL DEF Spec

-----------------------------------------------------------------------------
(* Output in time.                                                         *)

Remain(s) == IF Armed(s) THEN Capped(s.cap, s.quiet) ELSE 0
\* What a burst waits for whatever happens, and what a hold may cost yet.
InBatch   == IF pc \in {"batch", "batchMore"} THEN timer ELSE 0
ToLapse   == IF Armed(settle) THEN Later(settle.cap, InBatch) ELSE InBatch
ToSpend   == IF Armed(settle) THEN Budget - Spent(settle.rearms) ELSE 0

\* Nobody who could be shown a change is asleep over it.
Awake ==
  unshown /\ started /\ Attached # {} =>
    \/ dirty \/ poke \/ pc \in {"pass", "hold", "batchMore"}
    \/ \E c \in Client : conn[c] = "recorded"

\* The scheduler's timer never outlives the hold it was set for, unless a poke
\* is on its way.
TimerLive == pc = "hold" /\ ~dirty /\ ~poke => timer <= Later(sync, Remain(settle))

\* What has been waited, with what it may cost yet, is within the bound.
Charged ==
  Attached # {} =>
    waited + ToLapse <= CASE excused -> Budget - ToSpend
                          [] ~excused /\ Armed(settle) -> SettleCap
                          [] OTHER -> FlushInterval

WaitInv ==
  /\ Awake /\ TimerLive /\ Charged
  /\ waited > 0 => unshown /\ started
  /\ Armed(settle) /\ sync > 0 => excused
  /\ Armed(settle) => settle.rearms <= MaxRearms /\ settle.cap <= SettleCap
  /\ InBatch <= FlushInterval
  /\ FlushedInTime

LEMMA WaitInit == Init => WaitInv
<1> SUFFICES ASSUME Init
             PROVE  WaitInv
  OBVIOUS
<1>1. Attached = {}
  BY DEF Init, Attached
<1>2. waited = 0 /\ ~excused /\ ~Armed(settle) /\ pc = "idle" /\ sync = 0
  BY DEF Init, Armed, Calm
<1>3. FlushedInTime
  BY <1>2, Ticks DEF FlushedInTime
<1> QED
  BY <1>1, <1>2, <1>3, Ticks DEF WaitInv, Awake, TimerLive, Charged, InBatch

\* A step that leaves the count and what it is counted against alone.
LEMMA WaitKept ==
  ASSUME WaitInv, UNCHANGED <<settle, sync, excused, waited, pc, timer>>,
         Awake', TimerLive', waited > 0 => unshown' /\ started',
         Attached' # {} => Attached # {}
  PROVE  WaitInv'
<1>1. ToLapse' = ToLapse /\ ToSpend' = ToSpend /\ InBatch' = InBatch
  BY DEF ToLapse, ToSpend, InBatch
<1>2. Charged' /\ FlushedInTime'
  BY <1>1 DEF WaitInv, Charged, FlushedInTime
<1> QED
  BY <1>1, <1>2 DEF WaitInv

LEMMA WaitOutput ==
  ASSUME Typed, WaitInv, NEW kind \in {"text", "begin", "end", "palette"}, HandlePTYData(kind)
  PROVE  WaitInv'
<1>0. Flags /\ Clocks /\ settle \in Holds
  BY DEF Typed
<1>1. /\ settle'.cap = settle.cap /\ settle'.rearms = settle.rearms
      /\ UNCHANGED <<conn, started, dirty, pc, timer, waited>>
      /\ poke' /\ unshown' /\ started
  BY <1>0 DEF HandlePTYData, Holds, clients, sizing, sched
<1>2. /\ Armed(settle)' <=> Armed(settle)
      /\ ToLapse' = ToLapse /\ ToSpend' = ToSpend /\ InBatch' = InBatch /\ Attached' = Attached
  BY <1>1 DEF Armed, ToLapse, ToSpend, InBatch, Attached
<1>3. excused' = excused \/ (excused' /\ Armed(settle) /\ ~excused)
  BY <1>0 DEF HandlePTYData, Flags
<1>4. Armed(settle)' /\ sync' > 0 => excused'
  <2>1. excused' = (excused \/ (Armed(settle) /\ kind = "begin"))
    BY DEF HandlePTYData
  <2>2. kind = "begin" \/ sync' = 0 \/ sync' = sync
    BY DEF HandlePTYData
  <2>3. sync' = 0 => ~(sync' > 0)
    OBVIOUS
  <2>4. Armed(settle) /\ sync > 0 => excused
    BY DEF WaitInv
  <2>5. sync' = sync /\ sync' > 0 => sync > 0
    OBVIOUS
  <2> HIDE DEF WaitInv
  <2> QED
    BY <1>2, <2>1, <2>2, <2>3, <2>4, <2>5, Zenon
<1>5. settle.rearms \in Nat /\ (Armed(settle) => ToSpend = Budget - Spent(settle.rearms))
  BY <1>0 DEF Holds, ToSpend
<1>6. Budget \in Nat /\ Spent(settle.rearms) \in Nat /\ SettleCap <= Spent(settle.rearms)
      /\ SettleCap \in Nat /\ SettleCap <= Budget
  BY <1>5, SpentUp, Ticks
<1>7. FlushedInTime'
  <2>1. CASE excused' = excused
    BY <1>1, <1>2, <2>1 DEF WaitInv, FlushedInTime
  <2>2. CASE excused' /\ Armed(settle) /\ ~excused
    BY <1>0, <1>1, <1>6, <2>2 DEF WaitInv, FlushedInTime, Clocks
  <2> QED
    BY <1>3, <2>1, <2>2
<1>8. Charged'
  <2>1. CASE excused' = excused
    BY <1>1, <1>2, <2>1 DEF WaitInv, Charged
  <2>2. CASE excused' /\ Armed(settle) /\ ~excused
    <3>1. ToLapse \in Int
      BY <1>0, <2>2 DEF ToLapse, Later, InBatch, Clocks, Holds, Armed
    <3>2. Attached # {} => waited + ToLapse <= SettleCap
      BY <2>2 DEF WaitInv, Charged
    <3> QED
      BY <1>0, <1>1, <1>2, <1>5, <1>6, <2>2, <3>1, <3>2 DEF Charged, Clocks
  <2> QED
    BY <1>3, <2>1, <2>2
<1> QED
  BY <1>1, <1>2, <1>4, <1>7, <1>8 DEF WaitInv, Awake, TimerLive

\* What a resize to another size starts, nothing is owed to yet.
LEMMA WaitSized ==
  ASSUME Typed, WaitInv, NEW z, ApplySize(z), started' = started,
         UNCHANGED <<pc, timer, poke, sync>>, Attached' = Attached
  PROVE  WaitInv'
<1>0. Flags /\ Clocks /\ settle \in Holds
  BY DEF Typed
<1>1. Awake' /\ TimerLive' /\ unshown' /\ InBatch' = InBatch
  BY DEF ApplySize, Awake, TimerLive, InBatch
<1>2. CASE z = screen
  BY <1>1, <1>2, WaitKept DEF ApplySize, WaitInv
<1>3. CASE z # screen
  <2>1. /\ settle' = [cap |-> SettleCap, quiet |-> Quiet, rearms |-> 0]
        /\ waited' = 0 /\ excused' = (sync > 0)
    BY <1>3 DEF ApplySize
  <2>2. Armed(settle)' /\ settle'.rearms = 0 /\ settle'.cap = SettleCap
    BY <2>1, Ticks DEF Armed, NoTimer
  <2>6. sync' > 0 => excused'
    BY <2>1, Zenon
  <2>3. ToLapse' = SettleCap
    BY <1>0, <1>1, <2>2, Ticks DEF WaitInv, ToLapse, Later, InBatch, Clocks
  <2>4. ToSpend' = Budget - SettleCap
    BY <2>2, Ticks DEF ToSpend, Spent
  <2>5. Charged' /\ FlushedInTime'
    BY <2>1, <2>2, <2>3, <2>4, Ticks, SpentUp DEF Charged, FlushedInTime
  <2> QED
    BY <1>1, <2>1, <2>2, <2>5, <2>6, Ticks DEF WaitInv
<1> QED
  BY <1>2, <1>3

LEMMA WaitAttach ==
  ASSUME Typed, WaitInv, NEW c \in Client, Attach(c)
  PROVE  WaitInv'
<1>0. Flags /\ Clocks /\ settle \in Holds
  BY DEF Typed
<1>1. UNCHANGED <<started, pc, timer, settle, sync, unshown>> /\ dirty'
  BY DEF Attach, sizing
<1>2. Awake' /\ TimerLive' /\ InBatch' = InBatch /\ ToLapse' = ToLapse /\ ToSpend' = ToSpend
  BY <1>1 DEF Awake, TimerLive, InBatch, ToLapse, ToSpend
<1>3. CASE Attached # {}
  <2>1. waited' = waited /\ excused' = excused
    BY <1>0, <1>3 DEF Attach, Flags
  <2> QED
    BY <1>1, <1>2, <1>3, <2>1, WaitKept DEF WaitInv
<1>4. CASE Attached = {}
  <2>1. waited' = 0 /\ (Armed(settle) => excused') /\ (~Armed(settle) => excused' = excused)
    BY <1>0, <1>4 DEF Attach, Flags
  <2>2. FlushedInTime'
    BY <2>1, Ticks, SpentUp DEF FlushedInTime
  <2>3. Charged'
    <3>1. CASE Armed(settle)
      <4>1. settle.rearms \in Nat /\ settle.cap \in Nat /\ InBatch \in Nat
        BY <1>0, <3>1 DEF Holds, Armed, InBatch, Clocks
      <4>2. ToLapse <= SettleCap /\ ToLapse \in Nat
        BY <3>1, <4>1, Ticks DEF WaitInv, ToLapse, Later
      <4>3. Spent(settle.rearms) \in Nat /\ Spent(settle.rearms) >= SettleCap
        BY <4>1, SpentUp
      <4> QED
        BY <1>1, <1>2, <2>1, <3>1, <4>2, <4>3, SpentUp, Ticks DEF Charged, ToSpend
    <3>2. CASE ~Armed(settle)
      <4>1. ToLapse = InBatch /\ ToSpend = 0 /\ InBatch \in Nat
        BY <1>0, <3>2 DEF ToLapse, ToSpend, InBatch, Clocks
      <4> QED
        BY <1>1, <1>2, <2>1, <3>2, <4>1, SpentUp, Ticks DEF WaitInv, Charged
    <3> QED
      BY <3>1, <3>2
  <2> QED
    BY <1>1, <1>2, <2>1, <2>2, <2>3 DEF WaitInv
<1> QED
  BY <1>3, <1>4

\* A hold that lapses or ends without a frame does so inside a bracket.
LEMMA WaitHeld ==
  ASSUME Typed, WaitInv, FlushPass, PassHeld
  PROVE  WaitInv'
<1> DEFINE r == RedrawHoldUntil(settle)
<1>0. Flags /\ Clocks /\ settle \in Holds
  BY DEF Typed
<1>1. /\ r.hold \in Holds /\ r.wait \in Nat
      /\ \/ ~Armed(settle) /\ r.hold = settle /\ r.wait = 0
         \/ Armed(settle) /\ ~Armed(r.hold) /\ r.wait = 0
         \/ /\ Armed(settle) /\ settle.cap = 0 /\ settle.rearms < MaxRearms /\ r.wait = 0
            /\ r.hold = [cap |-> SettleCap, quiet |-> settle.quiet, rearms |-> settle.rearms + 1]
         \/ Armed(settle) /\ r.hold = settle /\ r.wait = Capped(settle.cap, settle.quiet)
  BY <1>0, HoldCases
<1>2. /\ pc = "pass" /\ pc' = "hold" /\ timer' = Later(sync, r.wait) /\ Later(sync, r.wait) > 0
      /\ settle' = r.hold /\ UNCHANGED <<conn, sync, started, unshown, excused, waited, dirty, poke>>
  BY DEF FlushPass, PassHeld, clients, sizing
<1> HIDE DEF r
<1>3. Awake' /\ InBatch' = 0 /\ InBatch = 0 /\ Attached' = Attached
  BY <1>2 DEF Awake, InBatch, Attached
<1>4. settle.cap \in Nat \cup {NoTimer} /\ settle.quiet \in Nat /\ settle.rearms \in Nat
  BY <1>0 DEF Holds
<1>5. CASE ~Armed(settle) /\ r.hold = settle /\ r.wait = 0
  <2>1. TimerLive'
    BY <1>0, <1>2, <1>5 DEF TimerLive, Later, Remain, Clocks, Armed
  <2>2. ToLapse' = ToLapse /\ ToSpend' = ToSpend
    BY <1>2, <1>3, <1>5 DEF ToLapse, ToSpend, Armed
  <2>3. Charged' /\ FlushedInTime'
    BY <1>2, <1>3, <1>5, <2>2 DEF WaitInv, Charged, FlushedInTime
  <2> QED
    BY <1>2, <1>3, <1>5, <2>1, <2>3, Ticks DEF WaitInv
<1>6. CASE Armed(settle) /\ ~Armed(r.hold) /\ r.wait = 0
  <2>1. sync > 0
    BY <1>0, <1>2, <1>6 DEF Later, Clocks
  <2>2. excused /\ excused' /\ ~Armed(settle)'
    BY <1>2, <1>6, <2>1 DEF WaitInv, Armed
  <2>3. TimerLive'
    BY <1>0, <1>2, <1>6, <2>1, <2>2 DEF TimerLive, Later, Remain, Clocks
  <2>4. ToLapse' = 0 /\ ToSpend' = 0
    BY <1>3, <2>2 DEF ToLapse, ToSpend
  <2>5. FlushedInTime'
    BY <1>2, <2>2 DEF WaitInv, FlushedInTime
  <2>6. Charged'
    BY <1>0, <1>2, <2>2, <2>4, <2>5, SpentUp DEF Charged, FlushedInTime, Clocks
  <2> QED
    BY <1>2, <1>3, <2>2, <2>3, <2>5, <2>6, Ticks DEF WaitInv
<1>7. CASE /\ Armed(settle) /\ settle.cap = 0 /\ settle.rearms < MaxRearms /\ r.wait = 0
           /\ r.hold = [cap |-> SettleCap, quiet |-> settle.quiet, rearms |-> settle.rearms + 1]
  <2>1. sync > 0
    BY <1>0, <1>2, <1>7 DEF Later, Clocks
  <2>2. excused /\ excused'
    BY <1>2, <1>7, <2>1 DEF WaitInv
  <2>3. /\ settle'.cap = SettleCap /\ settle'.quiet = settle.quiet
        /\ settle'.rearms = settle.rearms + 1 /\ Armed(settle)'
    BY <1>2, <1>7, Ticks DEF Armed, NoTimer
  <2>4. TimerLive'
    BY <1>0, <1>2, <1>4, <1>7, <2>1, <2>3, Ticks DEF TimerLive, Later, Remain, Capped, Clocks
  <2>5. ToLapse' = SettleCap /\ ToLapse = 0
    BY <1>3, <1>7, <2>3, Ticks DEF ToLapse, Later
  <2>6. ToSpend' = Budget - Spent(settle.rearms) - SettleCap /\ ToSpend = Budget - Spent(settle.rearms)
    BY <1>4, <1>7, <2>3, SpentUp, Ticks DEF ToSpend
  <2>7. FlushedInTime'
    BY <1>2, <2>2 DEF WaitInv, FlushedInTime
  <2>8. Charged'
    <3>1. Budget \in Nat /\ Spent(settle.rearms) \in Nat
      BY <1>4, SpentUp
    <3> QED
      BY <1>0, <1>2, <1>3, <2>2, <2>5, <2>6, <3>1, Ticks DEF WaitInv, Charged, Clocks
  <2> QED
    BY <1>2, <1>3, <1>4, <1>7, <2>2, <2>3, <2>4, <2>7, <2>8, Ticks DEF WaitInv
<1>8. CASE Armed(settle) /\ r.hold = settle /\ r.wait = Capped(settle.cap, settle.quiet)
  <2>1. TimerLive'
    <3>1. Remain(settle)' = r.wait
      BY <1>2, <1>8 DEF Remain, Armed
    <3>2. Later(sync, r.wait) \in Int
      BY <1>0, <1>1 DEF Later, Clocks
    <3>3. timer' = Later(sync, r.wait) /\ Later(sync, Remain(settle))' = Later(sync, r.wait)
      BY <1>2, <3>1 DEF Later
    <3> QED
      BY <3>2, <3>3 DEF TimerLive
  <2>2. ToLapse' = ToLapse /\ ToSpend' = ToSpend
    BY <1>2, <1>3, <1>8 DEF ToLapse, ToSpend
  <2>3. Charged' /\ FlushedInTime'
    BY <1>2, <1>3, <1>8, <2>2 DEF WaitInv, Charged, FlushedInTime
  <2> QED
    BY <1>2, <1>3, <1>8, <2>1, <2>3, Ticks DEF WaitInv
<1> QED
  BY <1>1, <1>5, <1>6, <1>7, <1>8

\* After a pass that built, nothing that waited is left.
LEMMA WaitBuilt ==
  ASSUME Typed, WaitInv, FlushPass, PassBuilt
  PROVE  WaitInv'
<1> DEFINE r == RedrawHoldUntil(settle)
<1>0. Flags /\ Clocks /\ settle \in Holds
  BY DEF Typed
<1>1. /\ r.hold \in Holds /\ r.wait \in Nat
      /\ \/ ~Armed(settle) /\ r.hold = settle /\ r.wait = 0
         \/ Armed(settle) /\ ~Armed(r.hold) /\ r.wait = 0
         \/ /\ Armed(settle) /\ settle.cap = 0 /\ settle.rearms < MaxRearms /\ r.wait = 0
            /\ r.hold = [cap |-> SettleCap, quiet |-> settle.quiet, rearms |-> settle.rearms + 1]
         \/ Armed(settle) /\ r.hold = settle /\ r.wait > 0
  BY <1>0, HoldCases
<1>2. /\ pc' = "batch" /\ timer' = FlushInterval /\ Later(sync, r.wait) = 0
      /\ settle' = r.hold /\ UNCHANGED <<conn, sync, started>>
      /\ excused' = (excused /\ Armed(r.hold))
  BY DEF FlushPass, PassBuilt, clients, sizing
<1>3. sync' = 0 /\ r.wait = 0
  BY <1>0, <1>1, <1>2 DEF Later, Clocks
<1>4. waited' = 0 /\ (unshown' => ~started')
  <2>1. PICK full \in BOOLEAN : Build(full)
    <3>1. r.lapsed \in BOOLEAN
      BY <1>0, HoldCases
    <3>2. Build(reset \/ palette \/ coalesce \/ r.lapsed)
      BY DEF PassBuilt
    <3> HIDE DEF r
    <3>3. (reset \/ palette \/ coalesce \/ r.lapsed) \in BOOLEAN
      BY <1>0, <3>1 DEF Flags
    <3> QED
      BY <3>2, <3>3
  <2>2. CASE Show(full)
    BY <2>2 DEF Show
  <2>3. CASE ~(started /\ (full \/ unshown)) /\ UNCHANGED <<unshown, waited>>
    <3>1. unshown' => ~started'
      BY <1>2, <2>3
    <3>2. waited' = 0
      BY <1>0, <2>3 DEF WaitInv, Clocks
    <3> QED
      BY <3>1, <3>2
  <2> QED
    BY <2>1, <2>2, <2>3 DEF Build
<1> HIDE DEF r
<1>5. Awake' /\ TimerLive' /\ InBatch' = FlushInterval
  BY <1>2, <1>4 DEF Awake, TimerLive, InBatch
<1>6. FlushedInTime'
  BY <1>4, Ticks, SpentUp DEF FlushedInTime
<1>7. ~(sync' > 0)
  BY <1>3
<1>8. CASE ~Armed(r.hold)
  <2>1. ~Armed(settle)' /\ ~excused'
    BY <1>2, <1>8 DEF Armed
  <2>2. ToLapse' = FlushInterval
    BY <1>5, <2>1 DEF ToLapse
  <2>3. Charged'
    BY <1>4, <2>1, <2>2, Ticks DEF Charged
  <2> QED
    BY <1>4, <1>5, <1>6, <2>1, <2>3, Ticks DEF WaitInv
<1>9. CASE Armed(r.hold)
  <2>1. /\ settle.rearms < MaxRearms
        /\ r.hold = [cap |-> SettleCap, quiet |-> settle.quiet, rearms |-> settle.rearms + 1]
    BY <1>1, <1>3, <1>9
  <2>2. settle'.cap = SettleCap /\ settle'.rearms = settle.rearms + 1 /\ Armed(settle)'
    BY <1>2, <1>9, <2>1 DEF Armed
  <2>3. settle.rearms \in Nat
    BY <1>0 DEF Holds
  <2>4. ToLapse' = SettleCap
    BY <1>5, <2>2, Ticks DEF ToLapse, Later
  <2>5. Spent(settle.rearms + 1) \in Nat /\ Spent(settle.rearms + 1) >= SettleCap /\ Budget \in Nat
    BY <2>3, SpentUp
  <2>6. Charged'
    BY <1>4, <2>2, <2>4, <2>5, Ticks DEF Charged, ToSpend
  <2> QED
    BY <1>4, <1>5, <1>6, <1>7, <2>1, <2>2, <2>3, <2>6, Ticks DEF WaitInv
<1> QED
  BY <1>8, <1>9

\* What a tick adds to the wait, it takes off what the wait may cost yet.
LEMMA WaitTick ==
  ASSUME Typed, WaitInv, Tick
  PROVE  WaitInv'
<1>0. Flags /\ Clocks /\ settle \in Holds
  BY DEF Typed
<1>1. settle.cap \in Nat \cup {NoTimer} /\ settle.quiet \in Nat /\ settle.rearms \in Nat
  BY <1>0 DEF Holds
<1>2. /\ settle'.cap = Down(settle.cap) /\ settle'.quiet = Down(settle.quiet)
      /\ settle'.rearms = settle.rearms
  BY <1>0 DEF Tick, Holds
<1>3. Armed(settle)' <=> Armed(settle)
  BY <1>1, <1>2 DEF Armed, Down, NoTimer
<1>4. /\ timer' = Down(timer) /\ sync' = Down(sync)
      /\ UNCHANGED <<conn, started, dirty, poke, pc, unshown, excused>>
      /\ Attached' = Attached
  BY DEF Tick, clients, Attached
<1>5. /\ ~poke /\ pc # "pass"
      /\ dirty => pc = "batchMore"
      /\ \A c \in Client : conn[c] # "recorded"
      /\ pc \in {"hold", "batch", "batchMore"} => timer > 0
  BY DEF Tick, Still
<1>6. Awake'
  BY <1>4 DEF WaitInv, Awake
<1>7. InBatch' = Down(InBatch) /\ InBatch \in Nat
  BY <1>0, <1>4, <1>5 DEF InBatch, Down, Clocks
<1>8. TimerLive'
  <2>1. SUFFICES ASSUME pc = "hold", ~dirty
                 PROVE  timer' <= Later(sync, Remain(settle))'
    BY <1>4 DEF TimerLive
  <2>2. timer <= Later(sync, Remain(settle)) /\ timer > 0
    BY <1>5, <2>1 DEF WaitInv, TimerLive
  <2>3. Remain(settle) \in Nat
    BY <1>1 DEF Remain, Capped, Armed
  <2>4. Remain(settle)' = Down(Remain(settle))
    BY <1>1, <1>2, <1>3 DEF Remain, Capped, Down, Armed
  <2> QED
    BY <1>0, <1>4, <2>2, <2>3, <2>4 DEF Later, Down, Clocks
<1>9. ToSpend' = ToSpend /\ (Armed(settle) => ToSpend >= 0 /\ ToSpend <= Budget /\ ToSpend \in Int)
  <2>1. ToSpend' = ToSpend
    BY <1>2, <1>3 DEF ToSpend
  <2>2. ASSUME Armed(settle)
        PROVE  ToSpend >= 0 /\ ToSpend <= Budget /\ ToSpend \in Int
    <3>1. Spent(settle.rearms) \in Nat /\ Spent(settle.rearms) <= Budget /\ Budget \in Nat
      BY <1>1, <2>2, SpentUp DEF WaitInv
    <3> QED
      BY <2>2, <3>1 DEF ToSpend
  <2> QED
    BY <2>1, <2>2
<1>10. ToLapse \in Nat /\ ToLapse' \in Nat /\ ToLapse' = Down(ToLapse)
  BY <1>1, <1>2, <1>3, <1>7 DEF ToLapse, Later, Down, Armed
<1>11. waited' = waited \/ (waited' <= waited + 1 /\ ToLapse > 0)
  <2>1. CASE sync > 0 \/ ~unshown \/ ~started \/ Attached = {}
    BY <2>1 DEF Tick
  <2>2. CASE ~(sync > 0) /\ unshown /\ started /\ Attached # {}
    <3>1. waited' = Capped(waited + 1, Budget + 1)
      BY <2>2 DEF Tick
    <3>2. waited' <= waited + 1
      BY <1>0, <3>1, SpentUp DEF Capped, Clocks
    <3>3. pc \in {"hold", "batchMore"}
      BY <1>5, <2>2 DEF WaitInv, Awake
    <3>4. CASE pc = "batchMore"
      <4>1. InBatch > 0
        BY <1>5, <3>4 DEF InBatch
      <4> QED
        BY <1>1, <1>7, <3>2, <4>1 DEF ToLapse, Later, Armed
    <3>5. CASE pc = "hold"
      <4>1. timer <= Later(sync, Remain(settle)) /\ timer > 0 /\ sync = 0
        BY <1>0, <1>5, <2>2, <3>5 DEF WaitInv, TimerLive, Clocks
      <4>2. Remain(settle) \in Nat /\ Remain(settle) > 0
        BY <1>0, <1>1, <4>1 DEF Remain, Capped, Armed, Later, Clocks
      <4>3. Armed(settle) /\ settle.cap > 0
        BY <1>1, <4>2 DEF Remain, Capped, Armed
      <4> QED
        BY <1>1, <1>7, <3>2, <4>3 DEF ToLapse, Later, Armed
    <3> QED
      BY <3>3, <3>4, <3>5
  <2> QED
    BY <2>1, <2>2
<1>12. waited' \in Nat /\ waited' + ToLapse' <= waited + ToLapse
  <2>1. waited' \in Nat
    BY TypedNext DEF Next, Typed, Clocks
  <2> QED
    <3>1. waited \in Nat
      BY <1>0 DEF Clocks
    <3>2. CASE waited' = waited
      BY <1>10, <3>1, <3>2 DEF Down
    <3>3. CASE waited' <= waited + 1 /\ ToLapse > 0
      <4>1. ToLapse' = ToLapse - 1
        BY <1>10, <3>3 DEF Down
      <4>2. /\ ToLapse \in Nat /\ ToLapse' \in Nat
            /\ waited' <= waited + 1
        BY <1>10, <3>3
      <4>3. \A w, v, t, u \in Nat : v <= w + 1 /\ u = t - 1 => v + u <= w + t
        OBVIOUS
      <4> QED
        BY <2>1, <3>1, <4>1, <4>2, <4>3
    <3> QED
      BY <1>11, <2>1, <3>2, <3>3
<1>13. Charged'
  BY <1>0, <1>3, <1>4, <1>9, <1>10, <1>12, Ticks, SpentUp DEF WaitInv, Charged, Clocks, Down, ToSpend
<1>14. FlushedInTime'
  <2>1. CASE Attached = {}
    BY <1>3, <1>4, <2>1 DEF Tick, WaitInv, FlushedInTime
  <2>2. CASE Attached # {}
    <3>1. excused => Budget - ToSpend <= Budget
      BY <1>9, SpentUp DEF ToSpend
    <3>2. waited' <= waited' + ToLapse' /\ waited' + ToLapse' \in Nat
      BY <1>10, <1>12
    <3>3. excused => waited' + ToLapse' <= Budget - ToSpend /\ Budget - ToSpend \in Int
      BY <1>4, <1>9, <1>13, <2>2, SpentUp DEF Charged, ToSpend
    <3>4. ~excused => waited' + ToLapse' <= IF Armed(settle) THEN SettleCap ELSE FlushInterval
      BY <1>3, <1>4, <1>13, <2>2 DEF Charged
    <3> QED
      BY <1>3, <1>4, <1>12, <3>1, <3>2, <3>3, <3>4, SpentUp, Ticks DEF FlushedInTime
  <2> QED
    BY <2>1, <2>2
<1>15. waited' > 0 => unshown' /\ started'
  <2>1. CASE waited' = waited
    BY <1>4, <2>1 DEF WaitInv
  <2>2. CASE waited' # waited
    BY <2>2 DEF Tick
  <2> QED
    BY <2>1, <2>2
<1>16. Armed(settle)' /\ sync' > 0 => excused'
  <2>1. sync' > 0 => sync > 0
    BY <1>0, <1>4 DEF Down, Clocks
  <2> QED
    BY <1>3, <1>4, <2>1, Zenon DEF WaitInv
<1>17. Armed(settle)' => settle'.rearms <= MaxRearms /\ settle'.cap <= SettleCap
  BY <1>1, <1>2, <1>3, Ticks DEF WaitInv, Down, Armed
<1>18. InBatch' <= FlushInterval
  BY <1>7, Ticks DEF WaitInv, Down
<1> QED
  BY <1>6, <1>8, <1>13, <1>14, <1>15, <1>16, <1>17, <1>18 DEF WaitInv

-----------------------------------------------------------------------------
Stations == {"out", "in", "recorded", "left"}
Sockets  == conn \in [Client -> Stations] /\ asked \in [Client -> Sizes \cup {NoSize}]

LEMMA SocketsInit == Init => Sockets
BY DEF Init, Sockets, Stations

LEMMA SocketsNext == Sockets /\ [Next]_vars => Sockets'
<1> SUFFICES ASSUME Sockets, [Next]_vars
             PROVE  Sockets'
  OBVIOUS
<1> USE DEF clients, Stations
<1>1. ASSUME NEW c \in Client,
             \/ Attach(c) \/ HandleBinaryFrame(c) \/ Resize(c) \/ Remove(c) \/ MaybeHealSize(c)
             \/ \E z \in Sizes : RecordSize(c, z)
      PROVE  Sockets'
  BY <1>1 DEF Attach, HandleBinaryFrame, Resize, Remove, MaybeHealSize, RecordSize, Sockets
<1>2. ASSUME UNCHANGED clients
      PROVE  Sockets'
  BY <1>2 DEF Sockets
<1>3. \/ \E c \in Client : \/ Attach(c) \/ HandleBinaryFrame(c) \/ Resize(c) \/ Remove(c)
                           \/ MaybeHealSize(c) \/ \E z \in Sizes : RecordSize(c, z)
      \/ UNCHANGED clients
  BY DEF Next, vars, HandlePTYData, MarkDirty, FlushPass, FlushSuspended, Wait, StartEager,
         HealRead, HealApply, Tick
<1> QED
  BY <1>1, <1>2, <1>3

LEMMA WaitNext == Sockets /\ Typed /\ WaitInv /\ [Next]_vars => WaitInv'
<1> SUFFICES ASSUME Sockets, Typed, WaitInv, [Next]_vars
             PROVE  WaitInv'
  OBVIOUS
<1> USE DEF sched, history, sizing, clients
<1>0. Flags /\ Clocks /\ settle \in Holds
  BY DEF Typed
<1>a. Awake /\ TimerLive /\ (waited > 0 => unshown /\ started)
  BY DEF WaitInv
<1>1. ASSUME NEW kind \in {"text", "begin", "end", "palette"}, HandlePTYData(kind)
      PROVE  WaitInv'
  BY <1>1, WaitOutput
<1>2. CASE MarkDirty
  <2>1. Awake' /\ TimerLive' /\ Attached' = Attached
    BY <1>2 DEF MarkDirty, Awake, TimerLive, Attached
  <2> QED
    BY <1>2, <1>a, <2>1, WaitKept DEF MarkDirty
<1>3. CASE FlushPass
  BY <1>3, WaitHeld, WaitBuilt DEF FlushPass
<1>4. CASE FlushSuspended
  <2>1. Attached' = {} /\ pc' = "batch" /\ timer' = FlushInterval
    BY <1>4 DEF FlushSuspended, Attached
  <2>2. UNCHANGED <<settle, sync, excused, waited, unshown, started>>
    BY <1>4 DEF FlushSuspended
  <2>3. Awake' /\ TimerLive' /\ Charged' /\ InBatch' <= FlushInterval /\ FlushedInTime'
    BY <2>1, <2>2, Ticks DEF WaitInv, Awake, TimerLive, Charged, InBatch, FlushedInTime
  <2> QED
    BY <2>2, <2>3 DEF WaitInv
<1>5. CASE Wait
  <2>1. UNCHANGED <<conn, started, poke, settle, sync, unshown, waited, excused, timer>>
    BY <1>5 DEF Wait, WaitForDirty, WaitForHoldRetry, WaitForBatchWindow
  <2>2. /\ Attached' = Attached /\ InBatch' = InBatch /\ TimerLive'
        /\ dirty' = dirty \/ pc' \in {"pass", "batchMore"}
        /\ pc' \in {"pass", "batchMore"} \/ pc = "batch"
    BY <1>5 DEF Wait, WaitForDirty, WaitForHoldRetry, WaitForBatchWindow, Attached, InBatch, TimerLive
  <2>3. Awake'
    BY <1>a, <2>1, <2>2 DEF Awake
  <2>4. ToLapse' = ToLapse /\ ToSpend' = ToSpend
    BY <2>1, <2>2 DEF ToLapse, ToSpend
  <2>5. Charged' /\ FlushedInTime'
    BY <2>1, <2>2, <2>4 DEF WaitInv, Charged, FlushedInTime
  <2> QED
    BY <2>1, <2>2, <2>3, <2>5 DEF WaitInv
<1>6. CASE StartEager
  <2>1. Attached = {} /\ Attached' = {}
    BY <1>6 DEF StartEager, Attached
  <2>2. Awake' /\ TimerLive'
    BY <1>6, <1>a, <2>1 DEF StartEager, Awake, TimerLive
  <2> QED
    BY <1>6, <1>a, <2>1, <2>2, WaitKept DEF StartEager
<1>7. ASSUME NEW c \in Client, Attach(c)
      PROVE  WaitInv'
  BY <1>7, WaitAttach
<1>8. ASSUME NEW c \in Client, HandleBinaryFrame(c)
      PROVE  WaitInv'
  <2>1. Awake' /\ TimerLive' /\ Attached' = Attached
    BY <1>8 DEF HandleBinaryFrame, Awake, TimerLive, Attached
  <2> QED
    BY <1>8, <1>a, <2>1, WaitKept DEF HandleBinaryFrame
<1>9. ASSUME NEW c \in Client, Remove(c)
      PROVE  WaitInv'
  <2>1. \A d \in Client : d # c => conn'[d] = conn[d]
    BY <1>9 DEF Remove, Sockets
  <2>2. conn[c] = "in" /\ conn'[c] = "left"
    BY <1>9 DEF Remove, Sockets
  <2>3. Attached' \subseteq Attached
    BY <2>1, <2>2 DEF Attached
  <2>4. Awake' /\ TimerLive'
    BY <1>9, <1>a, <2>1, <2>2, <2>3 DEF Remove, Awake, TimerLive
  <2> QED
    BY <1>9, <1>a, <2>3, <2>4, WaitKept DEF Remove
<1>10. ASSUME NEW c \in Client, MaybeHealSize(c)
       PROVE  WaitInv'
  <2>1. \A d \in Client : d # c => conn'[d] = conn[d]
    BY <1>10 DEF MaybeHealSize, Sockets
  <2>2. conn[c] = "left" /\ conn'[c] = "out"
    BY <1>10 DEF MaybeHealSize, Sockets
  <2>3. Attached' = Attached
    BY <2>1, <2>2 DEF Attached
  <2>4. Awake' /\ TimerLive'
    BY <1>10, <1>a, <2>1, <2>2, <2>3 DEF MaybeHealSize, Awake, TimerLive
  <2> QED
    BY <1>10, <1>a, <2>3, <2>4, WaitKept DEF MaybeHealSize
<1>11. ASSUME NEW c \in Client, Resize(c)
       PROVE  WaitInv'
  <2>1. \A d \in Client : d # c => conn'[d] = conn[d]
    BY <1>11 DEF Resize, Sockets
  <2>2. conn[c] = "recorded" /\ conn'[c] = "in"
    BY <1>11 DEF Resize, Sockets
  <2>3. Attached' = Attached
    BY <2>1, <2>2 DEF Attached
  <2> QED
    BY <1>11, <2>3, WaitSized DEF Resize
<1>12. ASSUME NEW c \in Client, NEW z \in Sizes, RecordSize(c, z)
       PROVE  WaitInv'
  <2>1. \A d \in Client : d # c => conn'[d] = conn[d]
    BY <1>12 DEF RecordSize, Sockets
  <2>2. conn[c] = "in" /\ conn'[c] = "recorded"
    BY <1>12 DEF RecordSize, Sockets
  <2>3. Attached' = Attached
    BY <2>1, <2>2 DEF Attached
  <2>4. Awake' /\ TimerLive'
    BY <1>12, <1>a, <2>2 DEF RecordSize, Awake, TimerLive
  <2> QED
    BY <1>12, <1>a, <2>3, <2>4, WaitKept DEF RecordSize
<1>13. CASE HealRead
  <2>1. Awake' /\ TimerLive' /\ Attached' = Attached
    BY <1>13, <1>a DEF HealRead, Awake, TimerLive, Attached
  <2> QED
    BY <1>13, <1>a, <2>1, WaitKept DEF HealRead
<1>14. CASE HealApply
  <2>1. Attached' = Attached
    BY <1>14 DEF HealApply, Attached
  <2> QED
    BY <1>14, <2>1, WaitSized DEF HealApply
<1>15. CASE Tick
  BY <1>15, WaitTick
<1>16. CASE UNCHANGED vars
  <2>1. Awake' /\ TimerLive' /\ Attached' = Attached
    BY <1>16, <1>a DEF vars, Awake, TimerLive, Attached
  <2> QED
    BY <1>16, <1>a, <2>1, WaitKept DEF vars
<1> QED
  BY <1>1, <1>2, <1>3, <1>4, <1>5, <1>6, <1>7, <1>8, <1>9, <1>10, <1>11, <1>12,
     <1>13, <1>14, <1>15, <1>16 DEF Next

\* Holding never strands output, for every re-arm count and every length of the
\* interval, the caps and the bracket: a change is out within one interval, one
\* cap of an armed redraw hold, or the whole budget of an excused one.
THEOREM AlwaysFlushedInTime == Spec => []FlushedInTime
<1>1. Init => Sockets /\ Typed /\ WaitInv
  BY SocketsInit, TypedInit, WaitInit
<1>2. (Sockets /\ Typed /\ WaitInv) /\ [Next]_vars => (Sockets /\ Typed /\ WaitInv)'
  BY SocketsNext, TypedNext, WaitNext
<1>3. WaitInv => FlushedInTime
  BY DEF WaitInv
<1> QED
  BY <1>1, <1>2, <1>3, PTL DEF Spec

-----------------------------------------------------------------------------
(* The shared size.                                                        *)

Pairs == (Nat \ {0}) \X (Nat \ {0})

\* Every nonempty set of naturals has the least element that Min names.
LEMMA LeastNat ==
  ASSUME NEW T \in SUBSET Nat, T # {}
  PROVE  Min(T) \in T /\ \A n \in T : Min(T) <= n
<1> DEFINE R == {ss \in Nat \X Nat : ss[1] < ss[2]}
<1>1. IsWellFoundedOn(R, Nat)
  BY NatLessThanWellFounded DEF OpToRel
<1>a. \A m, n \in Nat : <<m, n>> \in R <=> m < n
  OBVIOUS
<1> HIDE DEF R
<1>2. PICK x \in T : \A y \in T : ~(<<y, x>> \in R)
  BY <1>1, WFMin
<1>3. ASSUME NEW y \in T
      PROVE  x <= y
  <2>1. x \in Nat /\ y \in Nat
    OBVIOUS
  <2>2. ~(y < x)
    BY <1>2, <1>a, <2>1
  <2> QED
    BY <2>1, <2>2
<1> QED
  BY <1>3 DEF Min

\* Every size asked for is one of Sizes, and none of them is NoSize.
LEMMA ReportedSizes ==
  ASSUME Sockets
  PROVE  Reported \subseteq Sizes /\ Sizes \subseteq Pairs /\ NoSize \notin Pairs
<1>1. Sizes \subseteq Pairs
  BY FlushAssumption DEF Pairs
<1>2. NoSize \notin Pairs
  BY DEF NoSize, Pairs
<1>3. Reported \subseteq Sizes
  BY DEF Reported, Attached, Sockets
<1> QED
  BY <1>1, <1>2, <1>3

\* The relaxation's size fits every client, and is one of theirs if sizes nest.
LEMMA MinLive ==
  ASSUME Sockets, Reported # {}
  PROVE  /\ MinLiveSize \in Pairs
         /\ \A z \in Reported : Within(MinLiveSize, z)
         /\ Nested => MinLiveSize \in Reported
<1> DEFINE Cols == {z[1] : z \in Reported}
           Rows == {z[2] : z \in Reported}
<1>0. Reported \subseteq Sizes /\ Reported \subseteq Pairs
  BY ReportedSizes
<1>1. Cols \in SUBSET Nat /\ Cols # {} /\ Rows \in SUBSET Nat /\ Rows # {}
  BY <1>0 DEF Pairs
<1>2. Min(Cols) \in Cols /\ (\A n \in Cols : Min(Cols) <= n)
  BY <1>1, LeastNat
<1>3. Min(Rows) \in Rows /\ (\A n \in Rows : Min(Rows) <= n)
  BY <1>1, LeastNat
<1> DEFINE a == Min(Cols)
           b == Min(Rows)
<1>4. MinLiveSize = <<a, b>>
  BY DEF MinLiveSize
<1>5. PICK y \in Reported : a = y[1]
  BY <1>2
<1>6. PICK w \in Reported : b = w[2]
  BY <1>3
<1>7. \A z \in Reported : a <= z[1] /\ b <= z[2]
  BY <1>2, <1>3
<1> HIDE DEF a, b
<1>8. y \in Pairs /\ w \in Pairs /\ y[1] \in Nat \ {0} /\ w[1] \in Nat /\ y[2] \in Nat /\ w[2] \in Nat \ {0}
      /\ y = <<y[1], y[2]>> /\ w = <<w[1], w[2]>>
  BY <1>0 DEF Pairs
<1>9. ASSUME Nested
      PROVE  MinLiveSize \in Reported
  <2>1. CASE Within(y, w)
    <3>1. y[2] = b
      BY <1>6, <1>7, <1>8, <2>1 DEF Within
    <3> QED
      BY <1>4, <1>5, <1>8, <3>1
  <2>2. CASE Within(w, y)
    <3>1. w[1] = a
      BY <1>5, <1>7, <1>8, <2>2 DEF Within
    <3> QED
      BY <1>4, <1>6, <1>8, <3>1
  <2> QED
    BY <1>0, <1>9, <2>1, <2>2 DEF Nested
<1>10. MinLiveSize \in Pairs
  BY <1>4, <1>5, <1>6, <1>8 DEF Pairs
<1> QED
  BY <1>4, <1>7, <1>9, <1>10 DEF Within

\* Either the size is settled, or a step that will settle it is on its way: the
\* relaxation's timer or its second half, a resize to apply, or the departure of
\* the client whose size it is, still to be compared.
UnderWay ==
  \/ healTimer # NoTimer \/ healing # NoSize
  \/ \E c \in Client : conn[c] = "recorded" \/ (conn[c] = "left" /\ asked[c] = screen)
Asking ==
  \A c \in Client : /\ conn[c] = "out" => asked[c] = NoSize
                    /\ conn[c] = "recorded" => asked[c] # NoSize
                    /\ asked[c] # NoSize => started
SizeInv ==
  /\ Asking
  /\ screen \in Pairs /\ healTimer \in Nat \cup {NoTimer}
  /\ healing # NoSize => Reported # {} /\ healing = MinLiveSize
  /\ Settled \/ UnderWay

LEMMA SizeInit == Init => SizeInv
<1> SUFFICES ASSUME Init
             PROVE  SizeInv
  OBVIOUS
<1>1. Attached = {} /\ Reported = {}
  BY DEF Init, Attached, Reported
<1>2. DefaultSize \in Pairs
  BY FlushAssumption DEF Pairs
<1> QED
  BY <1>1, <1>2 DEF Init, SizeInv, Asking, Settled

\* A step that leaves every socket and both halves of the relaxation alone.
LEMMA SizeKept ==
  ASSUME SizeInv, UNCHANGED <<conn, asked, screen, healing>>, started' = started \/ started',
         healTimer' \in Nat \cup {NoTimer}, healTimer # NoTimer => healTimer' # NoTimer
  PROVE  SizeInv'
<1>1. Reported' = Reported /\ MinLiveSize' = MinLiveSize
  BY DEF Reported, Attached, MinLiveSize
<1>2. Settled' <=> Settled
  BY <1>1 DEF Settled
<1>3. UnderWay => UnderWay'
  BY DEF UnderWay
<1>4. Asking'
  BY DEF SizeInv, Asking
<1> QED
  BY <1>1, <1>2, <1>3, <1>4 DEF SizeInv

\* What happens to the other sockets' sizes when one of them moves.
LEMMA Moved ==
  ASSUME Sockets, NEW c \in Client, asked' = asked,
         \/ conn[c] = "in" /\ conn' = [conn EXCEPT ![c] = "recorded"]
         \/ conn[c] = "recorded" /\ conn' = [conn EXCEPT ![c] = "in"]
         \/ conn[c] = "in" /\ conn' = [conn EXCEPT ![c] = "left"]
         \/ conn[c] = "out" /\ conn' = [conn EXCEPT ![c] = "in"]
  PROVE  /\ \A d \in Client : d # c => conn'[d] = conn[d]
         /\ conn'[c] \in {"in", "recorded"} /\ conn[c] # "out" => Reported' = Reported
         /\ conn[c] = "out" /\ asked[c] = NoSize => Reported' = Reported
         /\ conn'[c] = "left" => /\ Reported' \subseteq Reported
                                 /\ \A z \in Reported : z \in Reported' \/ z = asked[c]
<1>1. \A d \in Client : d # c => conn'[d] = conn[d]
  BY DEF Sockets
<1>2. Reported = {asked[d] : d \in {e \in Client : conn[e] \in {"in", "recorded"} /\ asked[e] # NoSize}}
  BY DEF Reported, Attached
<1>3. Reported' = {asked[d] : d \in {e \in Client : conn'[e] \in {"in", "recorded"} /\ asked[e] # NoSize}}
  BY DEF Reported, Attached
<1>4. conn'[c] \in {"in", "recorded"} /\ conn[c] # "out" => Reported' = Reported
  <2>1. conn'[c] \in {"in", "recorded"} /\ conn[c] # "out"
          => \A e \in Client : conn'[e] \in {"in", "recorded"} <=> conn[e] \in {"in", "recorded"}
    BY <1>1 DEF Sockets
  <2> QED
    BY <1>2, <1>3, <2>1
<1>5. conn[c] = "out" /\ asked[c] = NoSize => Reported' = Reported
  BY <1>1, <1>2, <1>3
<1>6. conn'[c] = "left" => /\ Reported' \subseteq Reported
                           /\ \A z \in Reported : z \in Reported' \/ z = asked[c]
  BY <1>1, <1>2, <1>3
<1> QED
  BY <1>1, <1>4, <1>5, <1>6

LEMMA SizeNext ==
  ASSUME "staleHeal" \notin Mishaps
  PROVE  Sockets /\ SizeInv /\ [Next]_vars => SizeInv'
<1> SUFFICES ASSUME Sockets, SizeInv, [Next]_vars
             PROVE  SizeInv'
  OBVIOUS
<1> USE DEF sched, history, sizing, clients
<1>0. /\ Asking /\ screen \in Pairs /\ healTimer \in Nat \cup {NoTimer}
      /\ healing # NoSize => Reported # {} /\ healing = MinLiveSize
      /\ Settled \/ UnderWay
  BY DEF SizeInv
<1>s. Reported \subseteq Sizes /\ Sizes \subseteq Pairs /\ NoSize \notin Pairs
  BY ReportedSizes
<1>1. ASSUME NEW kind \in {"text", "begin", "end", "palette"}, HandlePTYData(kind)
      PROVE  SizeInv'
  BY <1>0, <1>1, SizeKept DEF HandlePTYData
<1>2. CASE MarkDirty
  BY <1>0, <1>2, SizeKept DEF MarkDirty
<1>3. CASE FlushPass
  BY <1>0, <1>3, SizeKept DEF FlushPass
<1>4. CASE FlushSuspended
  BY <1>0, <1>4, SizeKept DEF FlushSuspended
<1>5. CASE Wait
  BY <1>0, <1>5, SizeKept DEF Wait
<1>6. CASE StartEager
  BY <1>0, <1>6, SizeKept DEF StartEager
<1>7. ASSUME NEW c \in Client, Attach(c)
      PROVE  SizeInv'
  <2>1. /\ conn[c] = "out" /\ conn' = [conn EXCEPT ![c] = "in"]
        /\ UNCHANGED <<asked, screen, started, healTimer, healing>>
    BY <1>7 DEF Attach
  <2>2. asked[c] = NoSize
    BY <1>0, <2>1 DEF Asking
  <2>3. Reported' = Reported /\ \A d \in Client : d # c => conn'[d] = conn[d]
    BY <2>1, <2>2, Moved
  <2>4. MinLiveSize' = MinLiveSize /\ (Settled' <=> Settled)
    BY <2>1, <2>3 DEF MinLiveSize, Settled
  <2>5. UnderWay => UnderWay'
    BY <2>1, <2>3 DEF UnderWay
  <2>6. Asking'
    BY <1>0, <2>1, <2>2, <2>3 DEF Asking, Sockets
  <2> QED
    BY <1>0, <2>1, <2>3, <2>4, <2>5, <2>6 DEF SizeInv
<1>8. ASSUME NEW c \in Client, HandleBinaryFrame(c)
      PROVE  SizeInv'
  BY <1>0, <1>8, SizeKept DEF HandleBinaryFrame
\* The leaver may take the shared size with it: then it is still to be compared.
<1>9. ASSUME NEW c \in Client, Remove(c)
      PROVE  SizeInv'
  <2>1. /\ conn[c] = "in" /\ conn' = [conn EXCEPT ![c] = "left"] /\ healing = NoSize
        /\ UNCHANGED <<asked, screen, started, healTimer, healing>>
    BY <1>9 DEF Remove
  <2>2. conn'[c] = "left"
    BY <2>1 DEF Sockets
  <2>3. /\ Reported' \subseteq Reported
        /\ \A z \in Reported : z \in Reported' \/ z = asked[c]
        /\ \A d \in Client : d # c => conn'[d] = conn[d]
    BY <2>1, <2>2, Moved
  <2>4. Settled => Settled' \/ asked[c] = screen
    BY <2>1, <2>3 DEF Settled
  <2>5. Settled \/ UnderWay => Settled' \/ UnderWay'
    BY <2>1, <2>2, <2>3, <2>4 DEF UnderWay
  <2>6. Asking'
    BY <1>0, <2>1, <2>2, <2>3 DEF Asking
  <2> QED
    BY <1>0, <2>1, <2>5, <2>6 DEF SizeInv
<1>10. ASSUME NEW c \in Client, MaybeHealSize(c)
       PROVE  SizeInv'
  <2>1. /\ conn[c] = "left" /\ conn' = [conn EXCEPT ![c] = "out"]
        /\ asked' = [asked EXCEPT ![c] = NoSize]
        /\ healTimer' = IF started /\ asked[c] = screen THEN HealDebounce ELSE healTimer
        /\ UNCHANGED <<screen, started, healing>>
    BY <1>10 DEF MaybeHealSize
  <2>2. /\ \A d \in Client : d # c => conn'[d] = conn[d] /\ asked'[d] = asked[d]
        /\ conn'[c] = "out" /\ asked'[c] = NoSize
    BY <2>1 DEF Sockets
  <2>3. Reported' = Reported
    BY <2>1, <2>2 DEF Reported, Attached
  <2>4. MinLiveSize' = MinLiveSize /\ (Settled' <=> Settled)
    BY <2>1, <2>3 DEF MinLiveSize, Settled
  <2>5. HealDebounce \in Nat /\ HealDebounce # NoTimer
    BY FlushAssumption DEF NoTimer
  <2>6. asked[c] = screen => healTimer' # NoTimer
    <3>1. asked[c] = screen => started
      BY <1>0, <1>s DEF Asking
    <3> QED
      BY <2>1, <2>5, <3>1
  <2>7. UnderWay => UnderWay'
    BY <2>1, <2>2, <2>5, <2>6 DEF UnderWay
  <2>8. Asking'
    BY <1>0, <2>1, <2>2 DEF Asking
  <2> QED
    BY <1>0, <2>1, <2>3, <2>4, <2>5, <2>7, <2>8 DEF SizeInv
<1>11. ASSUME NEW c \in Client, Resize(c)
       PROVE  SizeInv'
  <2>1. /\ conn[c] = "recorded" /\ conn' = [conn EXCEPT ![c] = "in"] /\ screen' = asked[c]
        /\ UNCHANGED <<asked, started, healTimer, healing>>
    BY <1>11 DEF Resize, ApplySize
  <2>2. conn'[c] = "in"
    BY <2>1 DEF Sockets
  <2>3. Reported' = Reported /\ \A d \in Client : d # c => conn'[d] = conn[d]
    BY <2>1, <2>2, Moved
  <2>4. asked[c] # NoSize /\ asked[c] \in Reported
    BY <1>0, <2>1 DEF Asking, Reported, Attached
  <2>5. Settled' /\ MinLiveSize' = MinLiveSize /\ screen' \in Pairs
    BY <1>s, <2>1, <2>3, <2>4 DEF Settled, MinLiveSize
  <2>6. Asking'
    BY <1>0, <2>1, <2>2, <2>3 DEF Asking
  <2> QED
    BY <1>0, <2>1, <2>3, <2>5, <2>6 DEF SizeInv
<1>12. ASSUME NEW c \in Client, NEW z \in Sizes, RecordSize(c, z)
       PROVE  SizeInv'
  <2>1. /\ conn[c] = "in" /\ conn' = [conn EXCEPT ![c] = "recorded"] /\ healing = NoSize
        /\ asked' = [asked EXCEPT ![c] = z] /\ started' = TRUE
        /\ screen' = IF started THEN screen ELSE z
        /\ UNCHANGED <<healTimer, healing>>
    BY <1>12 DEF RecordSize
  <2>2. /\ \A d \in Client : d # c => conn'[d] = conn[d] /\ asked'[d] = asked[d]
        /\ conn'[c] = "recorded" /\ asked'[c] = z
    BY <2>1 DEF Sockets
  <2>3. UnderWay'
    BY <2>2 DEF UnderWay
  <2>4. Asking' /\ screen' \in Pairs
    BY <1>0, <1>s, <2>1, <2>2 DEF Asking
  <2> QED
    BY <1>0, <2>1, <2>3, <2>4 DEF SizeInv
\* The relaxation's first half leaves nothing to do, or its second half.
<1>13. CASE HealRead
  <2>1. /\ UNCHANGED <<conn, asked, screen, started>> /\ healTimer' = NoTimer
        /\ healing' = IF Reported = {} \/ ~started \/ MinLiveSize = screen
                        THEN NoSize ELSE MinLiveSize
    BY <1>13 DEF HealRead
  <2>2. Reported' = Reported /\ MinLiveSize' = MinLiveSize /\ (Settled' <=> Settled)
    BY <2>1 DEF Reported, Attached, MinLiveSize, Settled
  <2>3. ~started => Reported = {}
    BY <1>0 DEF Asking, Reported, Attached
  <2>4. CASE Reported = {} \/ ~started \/ MinLiveSize = screen
    <3>1. Settled
      BY <2>3, <2>4, MinLive DEF Settled
    <3> QED
      BY <1>0, <2>1, <2>2, <2>4, <3>1 DEF SizeInv, Asking
  <2>5. CASE ~(Reported = {} \/ ~started \/ MinLiveSize = screen)
    <3>1. healing' = MinLiveSize /\ MinLiveSize # NoSize
      BY <1>s, <2>1, <2>5, MinLive
    <3>2. UnderWay'
      BY <3>1 DEF UnderWay
    <3> QED
      BY <1>0, <2>1, <2>2, <2>5, <3>1, <3>2 DEF SizeInv, Asking
  <2> QED
    BY <2>4, <2>5
<1>14. CASE HealApply
  <2>1. /\ UNCHANGED <<conn, asked, started, healTimer>> /\ healing # NoSize
        /\ healing' = NoSize /\ screen' = healing
    BY <1>14 DEF HealApply, ApplySize
  <2>2. Reported' = Reported
    BY <2>1 DEF Reported, Attached
  <2>3. Reported # {} /\ healing = MinLiveSize
    BY <1>0, <2>1
  <2>4. Settled' /\ screen' \in Pairs
    BY <2>1, <2>2, <2>3, MinLive DEF Settled
  <2> QED
    BY <1>0, <2>1, <2>2, <2>4 DEF SizeInv, Asking
<1>15. CASE Tick
  <2>1. healTimer' \in Nat \cup {NoTimer} /\ (healTimer # NoTimer => healTimer' # NoTimer)
    BY <1>0, <1>15 DEF Tick, Down, NoTimer
  <2> QED
    BY <1>15, <2>1, SizeKept DEF Tick
<1>16. CASE UNCHANGED vars
  BY <1>0, <1>16, SizeKept DEF vars
<1> QED
  BY <1>1, <1>2, <1>3, <1>4, <1>5, <1>6, <1>7, <1>8, <1>9, <1>10, <1>11, <1>12,
     <1>13, <1>14, <1>15, <1>16 DEF Next

\* Nobody who stays is left at the size of a client that went, for any number of
\* clients and any sizes they ask for, unless a resize or a departure falls
\* between the relaxation's reading of the sizes and its applying them.
THEOREM SizeAlwaysAClients ==
  ASSUME "staleHeal" \notin Mishaps
  PROVE  Spec => []SizeIsAClients
<1>1. Init => Sockets /\ SizeInv
  BY SocketsInit, SizeInit
<1>2. (Sockets /\ SizeInv) /\ [Next]_vars => (Sockets /\ SizeInv)'
  BY SocketsNext, SizeNext
<1>3. SizeInv => SizeIsAClients
  BY DEF SizeInv, UnderWay, SizeIsAClients
<1> QED
  BY <1>1, <1>2, <1>3, PTL DEF Spec

=============================================================================
