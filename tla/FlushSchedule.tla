--------------------------- MODULE FlushSchedule ---------------------------
(***************************************************************************)
(* When a frame may leave, and at which size: the flush scheduler of       *)
(* terminal/terminal.go with its two holds (DEC 2026 and the redraw after  *)
(* a resize), and the size clients share, with its debounced relaxation    *)
(* after a departure.                                                      *)
(*                                                                         *)
(* Time is discrete and every deadline is kept as the ticks left to it.    *)
(* The machine is taken to be as fast as its timers: a tick waits for      *)
(* whatever is ready to run, in any order, so the bounds below are those   *)
(* of the code's timers and leave out the scheduler's own latency.         *)
(***************************************************************************)
EXTENDS Integers, FiniteSets, FiniteSetsExt

CONSTANTS
  Client,         \* sockets
  Sizes,          \* the sizes clients ask for, pairs <<cols, rows>>
  DefaultSize,    \* the size of a screen nobody resized
  FlushInterval,  \* flushInterval, 50 ms
  Quiet,          \* redrawSettleQuiet, 150 ms
  SettleCap,      \* redrawSettleCap, 1 s
  MaxRearms,      \* redrawSettleMaxRearms, 3
  SyncHold,       \* how long ?2026h holds, 1 s
  HealDebounce,   \* healDebounce, 3 s
  Mishaps         \* which awkward turns may happen

\* "staleHeal":  a resize or a departure between the relaxation's reading of
\*               the sizes and its applying them, for which it holds no lock.
AllMishaps == {"staleHeal"}

ASSUME FlushAssumption ==
  /\ IsFiniteSet(Client)
  /\ DefaultSize \in (Nat \ {0}) \X (Nat \ {0})
  /\ IsFiniteSet(Sizes) /\ Sizes \subseteq (Nat \ {0}) \X (Nat \ {0})
  /\ {FlushInterval, Quiet, SettleCap, SyncHold, HealDebounce} \subseteq Nat \ {0}
  /\ FlushInterval <= SettleCap /\ Quiet < SettleCap /\ MaxRearms \in Nat
  /\ Mishaps \subseteq AllMishaps

NoSize == <<0, 0>>     \* a client that never reported one
NoTimer == -1

VARIABLES
  conn,         \* out, in, recorded (its size is on file, not yet applied), left
  asked,        \* clientState.cols, rows: the size each last asked for
  screen,       \* the screen's size, which is also the PTY's
  started,      \* h.started and h.sizeEstablished, which ensureStarted sets together
  healTimer,    \* ticks to healSize, or NoTimer
  healing,      \* the size a running healSize has read
  dirty,        \* h.dirty, a channel of one slot
  poke,         \* handlePTYData has let go of h.mu and not yet poked
  pc,           \* flushLoop: idle, pass, hold, batch, batchMore
  timer,        \* ticks left of the timer it waits on
  settle,       \* the redraw hold: ticks to redrawSettleUntil (NoTimer: not armed) and to
                \* quiet, redrawRearms
  coalesce,     \* h.redrawCoalesceNow
  sync,         \* ticks to FlushHoldUntil; 0 when not held
  palette,      \* h.paletteChangedPending
  reset,        \* the builder's cache is gone: the next frame is a full repaint
  unshown,      \* the screen differs from what the last frame showed
  \* history
  waited,       \* ticks the oldest unshown change has waited with a client attached
  excused,      \* a DEC 2026 hold, or nobody attached, during this redraw hold
  quietFor,     \* ticks without output since the last resize; a pause noticed stays Quiet
  redrawFor,    \* ticks since the last resize, up to the budget
  lastFrame,    \* ticks since the later of the last frame and the last resize, up to SettleCap
  owed,         \* the palette or the size changed since the last full repaint
  sent          \* the frame of the last pass, judged as it left

clients == <<conn, asked>>
sizing  == <<screen, started, healTimer, healing>>
sched   == <<dirty, pc, timer>>
history == <<waited, excused, quietFor, redrawFor, lastFrame, owed, sent>>
vars == <<clients, sizing, sched, poke, settle, coalesce, sync, palette, reset, unshown, history>>

NoFrame == [full |-> TRUE, redraw |-> FALSE, early |-> FALSE, held |-> FALSE, owed |-> FALSE]
Calm == [cap |-> NoTimer, quiet |-> 0, rearms |-> 0]
Armed(s) == s.cap # NoTimer

Attached == {c \in Client : conn[c] \in {"in", "recorded"}}
Budget   == (MaxRearms + 1) * SettleCap
Capped(n, top) == IF n < top THEN n ELSE top
Later(a, b)    == IF a < b THEN b ELSE a

Init ==
  /\ conn = [c \in Client |-> "out"] /\ asked = [c \in Client |-> NoSize]
  /\ screen = DefaultSize /\ started = FALSE
  /\ healTimer = NoTimer /\ healing = NoSize
  /\ dirty = FALSE /\ poke = FALSE /\ pc = "idle" /\ timer = 0
  /\ settle = Calm /\ coalesce = FALSE /\ sync = 0 /\ palette = FALSE /\ reset = TRUE /\ unshown = TRUE
  /\ waited = 0 /\ excused = FALSE /\ quietFor = Quiet /\ redrawFor = Budget
  /\ lastFrame = SettleCap /\ owed = FALSE /\ sent = NoFrame

(* ------------------------------- The child ------------------------------ *)

\* A read from the PTY: output, and in it a synchronized update's start or end
\* or a palette change. The poke follows once the lock is free.
HandlePTYData(kind) ==
  /\ started /\ ~poke
  /\ settle' = [settle EXCEPT !.quiet = IF Armed(settle) THEN Quiet ELSE @]
  /\ sync' = CASE kind = "begin" -> SyncHold [] kind = "end" -> 0 [] OTHER -> sync
  /\ palette' = (palette \/ kind = "palette")
  /\ owed' = (owed \/ kind = "palette")
  /\ unshown' = TRUE /\ poke' = TRUE
  /\ quietFor' = IF Armed(settle) THEN 0 ELSE Quiet
  /\ excused' = (excused \/ (Armed(settle) /\ kind = "begin"))
  /\ UNCHANGED <<clients, sizing, sched, coalesce, reset, waited, redrawFor, lastFrame, sent>>

MarkDirty ==
  /\ poke /\ poke' = FALSE /\ dirty' = TRUE
  /\ UNCHANGED <<clients, sizing, pc, timer, settle, coalesce, sync, palette, reset, unshown, history>>

(* ------------------------- One pass of the scheduler --------------------- *)

\* redrawHoldUntil: the redraw hold after this look at the clock, and the
\* ticks until it could next change; 0 lets the pass through.
MutLapse(s) ==
  IF s.quiet = 0 \/ s.cap = 0 THEN [hold |-> Calm, wait |-> 0, lapsed |-> FALSE]
  ELSE IF ~Armed(s) THEN [hold |-> s, wait |-> 0, lapsed |-> FALSE]
  ELSE [hold |-> s, wait |-> Capped(s.cap, s.quiet), lapsed |-> FALSE]
RedrawHoldUntil(s) ==
  CASE ~Armed(s) -> [hold |-> s, wait |-> 0, lapsed |-> FALSE]
    [] Armed(s) /\ (s.quiet = 0 \/ (s.cap = 0 /\ s.rearms >= MaxRearms))
         -> [hold |-> Calm, wait |-> 0, lapsed |-> FALSE]
    [] s.quiet > 0 /\ s.cap = 0 /\ s.rearms < MaxRearms
         -> [hold |-> [cap |-> SettleCap, quiet |-> s.quiet, rearms |-> s.rearms + 1],
             wait |-> 0, lapsed |-> TRUE]
    [] s.quiet > 0 /\ s.cap > 0
         -> [hold |-> s, wait |-> Capped(s.cap, s.quiet), lapsed |-> FALSE]

\* Still redrawing, whatever the code believes: no pause yet since the resize,
\* and not yet so long that it must be a stream.
Redrawing == quietFor < Quiet /\ redrawFor < Budget

\* A frame leaves, a full repaint or a difference to the last.
Show(full) ==
  /\ reset' = FALSE /\ unshown' = FALSE /\ waited' = 0 /\ lastFrame' = 0
  /\ owed' = (owed /\ ~full)
  /\ sent' = [full |-> full, redraw |-> Redrawing, early |-> lastFrame < SettleCap,
              held |-> sync > 0, owed |-> owed]

\* buildFrame's part after the holds let it through; before the
\* child there is no frame.
Build(full) ==
  \/ /\ started /\ (full \/ unshown) /\ Show(full)
  \/ /\ ~(started /\ (full \/ unshown))
     /\ reset' = full /\ sent' = NoFrame
     /\ UNCHANGED <<unshown, waited, lastFrame, owed>>

\* flushPass with someone attached: the later of the two holds decides.
PassHeld ==
  LET r == RedrawHoldUntil(settle)
      until == Later(sync, r.wait)
  IN /\ until > 0
     /\ pc' = "hold" /\ timer' = until
     /\ settle' = r.hold /\ coalesce' = (coalesce \/ r.lapsed)
     /\ reset' = (reset \/ palette)
     /\ sent' = NoFrame
     /\ UNCHANGED <<unshown, excused, waited, lastFrame, owed>>

PassBuilt ==
  LET r == RedrawHoldUntil(settle)
  IN /\ Later(sync, r.wait) = 0
     /\ pc' = "batch" /\ timer' = FlushInterval
     /\ settle' = r.hold /\ coalesce' = FALSE
     /\ Build(reset \/ palette \/ coalesce \/ r.lapsed)
     /\ excused' = (excused /\ Armed(r.hold))

FlushPass ==
  /\ pc = "pass" /\ Attached # {}
  /\ PassHeld \/ PassBuilt
  /\ palette' = FALSE
  /\ UNCHANGED <<clients, sizing, dirty, poke, sync, quietFor, redrawFor>>

\* With nobody attached a pass only retains history, whatever the holds.
FlushSuspended ==
  /\ pc = "pass" /\ Attached = {}
  /\ pc' = "batch" /\ timer' = FlushInterval /\ sent' = NoFrame
  /\ UNCHANGED <<clients, sizing, dirty, poke, settle, coalesce, sync, palette, reset, unshown,
                 waited, excused, quietFor, redrawFor, lastFrame, owed>>

(* --------------------------- Between the passes -------------------------- *)

WaitForDirty == pc = "idle" /\ dirty /\ dirty' = FALSE /\ pc' = "pass" /\ UNCHANGED timer

\* The deadline, or a poke: a pass reads the live deadline again.
WaitForHoldRetry ==
  /\ pc = "hold" /\ pc' = "pass"
  /\ \/ dirty /\ dirty' = FALSE
     \/ timer = 0 /\ UNCHANGED dirty
  /\ UNCHANGED timer

\* One flush interval; a poke during it only makes another pass follow.
WaitForBatchWindow ==
  \/ pc = "batch" /\ dirty /\ dirty' = FALSE /\ pc' = "batchMore" /\ UNCHANGED timer
  \/ pc = "batch" /\ timer = 0 /\ pc' = "idle" /\ UNCHANGED <<dirty, timer>>
  \/ pc = "batchMore" /\ timer = 0 /\ pc' = "pass" /\ UNCHANGED <<dirty, timer>>

Wait ==
  /\ WaitForDirty \/ WaitForHoldRetry \/ WaitForBatchWindow
  /\ sent' = NoFrame
  /\ UNCHANGED <<clients, sizing, poke, settle, coalesce, sync, palette, reset, unshown,
                 waited, excused, quietFor, redrawFor, lastFrame, owed>>

(* --------------------------------- Sizes --------------------------------- *)

\* applySize under h.mu: only a change of size arms the redraw hold.
MutApplySize(z) ==
  /\ screen' = z /\ reset' = TRUE
  /\ settle' = [settle EXCEPT !.cap = SettleCap, !.quiet = Quiet] /\ UNCHANGED coalesce
  /\ quietFor' = (IF z = screen THEN quietFor ELSE 0)
  /\ redrawFor' = (IF z = screen THEN redrawFor ELSE 0)
  /\ lastFrame' = (IF z = screen THEN lastFrame ELSE 0)
  /\ excused' = (IF z = screen THEN excused ELSE sync > 0)
  /\ waited' = (IF z = screen THEN waited ELSE 0)
  /\ owed' = TRUE /\ unshown' = TRUE /\ dirty' = TRUE
ApplySize(z) ==
  /\ screen' = z /\ reset' = TRUE /\ dirty' = TRUE
  /\ owed' = TRUE /\ unshown' = TRUE
  /\ \/ /\ z = screen
        /\ UNCHANGED <<settle, coalesce, quietFor, redrawFor, lastFrame, excused, waited>>
     \/ /\ z # screen
        /\ settle' = [cap |-> SettleCap, quiet |-> Quiet, rearms |-> 0]
        /\ coalesce' = FALSE
        /\ quietFor' = 0 /\ redrawFor' = 0 /\ lastFrame' = 0 /\ waited' = 0
        /\ excused' = (sync > 0)

\* A socket is accepted and resumes: a full repaint is due, and a poke.
MutAttach(c) ==
  /\ conn[c] = "out" /\ conn' = [conn EXCEPT ![c] = "in"]
  /\ reset' = TRUE /\ dirty' = TRUE
  /\ waited' = IF Attached = {} THEN 0 ELSE waited
  /\ excused' = (excused \/ (Armed(settle) /\ Attached = {}))
  /\ healTimer' = NoTimer
  /\ UNCHANGED <<asked, screen, started, healing, pc, timer, poke, settle, coalesce, sync, palette, unshown,
                 quietFor, redrawFor, lastFrame, owed, sent>>
Attach(c) ==
  /\ conn[c] = "out" /\ conn' = [conn EXCEPT ![c] = "in"]
  /\ reset' = TRUE /\ dirty' = TRUE
  /\ waited' = IF Attached = {} THEN 0 ELSE waited
  /\ excused' = (excused \/ (Armed(settle) /\ Attached = {}))
  /\ UNCHANGED <<asked, sizing, pc, timer, poke, settle, coalesce, sync, palette, unshown,
                 quietFor, redrawFor, lastFrame, owed, sent>>

\* handleResize: the first starts the child at the size asked for; the size
\* is recorded under the registry's lock and applied under h.mu.
RecordSize(c, z) ==
  /\ conn[c] = "in" /\ conn' = [conn EXCEPT ![c] = "recorded"]
  /\ "staleHeal" \in Mishaps \/ healing = NoSize
  /\ asked' = [asked EXCEPT ![c] = z]
  /\ started' = TRUE /\ screen' = IF started THEN screen ELSE z
  /\ UNCHANGED <<healTimer, healing, sched, poke, settle, coalesce, sync, palette,
                 reset, unshown, history>>

Resize(c) ==
  /\ conn[c] = "recorded" /\ conn' = [conn EXCEPT ![c] = "in"]
  /\ ApplySize(asked[c])
  /\ UNCHANGED <<asked, started, healTimer, healing, pc, timer, poke, sync, palette, sent>>

\* Two other ways to start the child, at the default size: StartEager, before
\* its handler can be attached to, and input ahead of any resize, which pokes.
StartEager ==
  /\ ~started /\ started' = TRUE /\ \A c \in Client : conn[c] = "out"
  /\ UNCHANGED <<clients, screen, healTimer, healing, sched, poke, settle, coalesce,
                 sync, palette, reset, unshown, history>>

HandleBinaryFrame(c) ==
  /\ conn[c] = "in" /\ started' = TRUE /\ dirty' = TRUE
  /\ UNCHANGED <<clients, screen, healTimer, healing, pc, timer, poke, settle, coalesce,
                 sync, palette, reset, unshown, history>>

\* The registry forgets a socket; its size is still to be compared.
Remove(c) ==
  /\ conn[c] = "in" /\ conn' = [conn EXCEPT ![c] = "left"]
  /\ "staleHeal" \in Mishaps \/ healing = NoSize
  /\ UNCHANGED <<asked, sizing, sched, poke, settle, coalesce, sync, palette, reset, unshown, history>>

\* maybeHealSize: only the client the shared size came from arms the timer.
MaybeHealSize(c) ==
  /\ conn[c] = "left" /\ conn' = [conn EXCEPT ![c] = "out"]
  /\ asked' = [asked EXCEPT ![c] = NoSize]
  /\ healTimer' = IF started /\ asked[c] = screen THEN HealDebounce ELSE healTimer
  /\ UNCHANGED <<screen, started, healing, sched, poke, settle, coalesce, sync,
                 palette, reset, unshown, history>>

Reported == {asked[c] : c \in {d \in Attached : asked[d] # NoSize}}
MinLiveSize == <<Min({z[1] : z \in Reported}), Min({z[2] : z \in Reported})>>

\* healSize: read the registry, compare under h.mu, apply under h.mu again.
HealRead ==
  /\ healTimer = 0 /\ healTimer' = NoTimer /\ healing = NoSize
  /\ healing' = IF Reported = {} \/ ~started \/ MinLiveSize = screen
                  THEN NoSize ELSE MinLiveSize
  /\ UNCHANGED <<clients, screen, started, sched, poke, settle, coalesce, sync,
                 palette, reset, unshown, history>>

HealApply ==
  /\ healing # NoSize /\ healing' = NoSize
  /\ ApplySize(healing)
  /\ UNCHANGED <<clients, started, healTimer, pc, timer, poke, sync, palette, sent>>

(* --------------------------------- Time ---------------------------------- *)

Down(n) == IF n > 0 THEN n - 1 ELSE n

\* Nothing is ready to run.
Still ==
  /\ ~poke /\ healTimer # 0 /\ healing = NoSize /\ pc # "pass"
  /\ \A c \in Client : conn[c] \notin {"recorded", "left"}
  /\ dirty => pc = "batchMore"
  /\ pc \in {"hold", "batch", "batchMore"} => timer > 0

Tick ==
  /\ Still
  /\ timer' = Down(timer) /\ healTimer' = Down(healTimer) /\ sync' = Down(sync)
  /\ settle' = [settle EXCEPT !.cap = Down(@), !.quiet = Down(@)]
  /\ quietFor' = Capped(quietFor + 1, Quiet)
  /\ redrawFor' = IF Redrawing \/ Armed(settle) THEN Capped(redrawFor + 1, Budget) ELSE Budget
  /\ lastFrame' = IF Redrawing THEN Capped(lastFrame + 1, SettleCap) ELSE SettleCap
  /\ sent' = NoFrame
  /\ waited' = IF sync > 0 \/ ~unshown \/ ~started \/ Attached = {} THEN waited
               ELSE Capped(waited + 1, Budget + 1)
  /\ UNCHANGED <<clients, screen, started, healing, dirty, poke, pc, coalesce,
                 palette, reset, unshown, excused, owed>>

Next ==
  \/ \E kind \in {"text", "begin", "end", "palette"} : HandlePTYData(kind)
  \/ MarkDirty \/ FlushPass \/ FlushSuspended \/ Wait \/ StartEager
  \/ \E c \in Client : \/ Attach(c) \/ HandleBinaryFrame(c) \/ Resize(c) \/ Remove(c) \/ MaybeHealSize(c)
                       \/ \E z \in Sizes : RecordSize(c, z)
  \/ HealRead \/ HealApply \/ Tick

Spec == Init /\ [][Next]_vars

(* ------------------------------- Properties ------------------------------ *)

\* No client sees a redraw in pieces: a frame leaves inside a DEC 2026 bracket
\* never, and while the child still redraws after a resize only as a full
\* repaint, a whole cap after the frame before it; and nobody is sent a
\* difference to a screen of another size or another palette.
FramesWhole ==
  /\ ~sent.held
  /\ sent.redraw => sent.full /\ ~sent.early
  /\ sent.owed => sent.full

\* Holding never strands output: a change reaches the attached clients within
\* one flush interval, within one cap while the redraw hold is armed, and within
\* the whole re-arm budget when a DEC 2026 hold was in force during that hold (a
\* lapse inside a bracket builds nothing and costs another cap) or nobody was
\* attached for part of it. Time inside a bracket does not count.
FlushedInTime ==
  waited <= CASE excused -> Budget
              [] ~excused /\ Armed(settle) -> SettleCap
              [] OTHER -> FlushInterval

\* A survivor is not left at the size of a client that is gone: when no resize
\* or relaxation is under way, the shared size is one an attached client asked
\* for. Where one size can be wider and shorter than another, the relaxation may
\* have left what fitted them all when it ran; that still fits whoever stayed.
Within(y, z) == y[1] <= z[1] /\ y[2] <= z[2]
Nested == \A y, z \in Sizes : Within(y, z) \/ Within(z, y)
Settled ==
  \/ Reported = {} \/ screen \in Reported
  \/ ~Nested /\ \A z \in Reported : Within(screen, z)
SizeIsAClients ==
  (/\ healTimer = NoTimer /\ healing = NoSize
   /\ \A c \in Client : conn[c] \notin {"recorded", "left"})
    => Settled

=============================================================================
