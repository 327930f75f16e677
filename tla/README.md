# vterm in TLA+

vterm runs a child on a PTY, keeps its screen and its scrolled-off lines on the
server (Go, `vt/` and `terminal/`), and shows them in browser tabs (TypeScript,
`web/src/`) that may lose their connection at any time. What makes it hard is
the resume: a tab that comes back must end with the true screen, with all the
history the server can still read, and with every keystroke delivered once. Around
it stand an engine that must take any byte sequence of the child, a scheduler that
holds frames back without stranding them, and a process tree that must be gone when
its session is. The modules here model these parts; the inventory says what
surrounds them and the plan says what comes next.

## Inventory

| Part | State it keeps | Operations | Hard behaviour | What makes it correct |
| --- | --- | --- | --- | --- |
| scrollback ring (`terminal/scrollback.go`) | buffer, start, count, absolute index of the next line | Append, Clear, LinesFrom, LinesRange | growth, wrap-around, reuse after Clear | it is a bounded window on an append-only log; an index never changes its line |
| flush builder (`terminal/flush_builder.go`) | last window sent, last screen mode | Build, InvalidateCache | a diff must rest on a window every client was sent | applied frames give the true screen |
| flush scheduler and dispatch (`terminal/terminal.go`) | one-slot wake-up, frame in hand, hold deadlines | poke, build, write to each client, sweep acks | runs beside PTY reader, read loops and resumes; two holds with deadlines that move | no wake-up lost; no old frame over a newer resume; no redraw in pieces and no output stranded |
| resume (`terminal/terminal.go`, `connection.ts`) | resumeGen, epoch, claim | handleResume, resumeAck handling | commits lines, resets the builder, writes three kinds of message that may each be lost | completeness of history; honest claims |
| line store (`web/src/store.ts`) | rows by absolute index, provisional floor, watermarks of evicted and erased rows, alternate screen | applyScreen, applyScroll, ED3, eviction, snapshot, paging | messages missing or out of date | holds what it claims |
| reliable input (`connection.ts`, `client_registry.go`) | outbox and two counters; per-key ledgers | sendBinary, applyAck, resetLedger; ResolveSession, IncrementReceived, sweep, reclaim | several sockets of one tab alive on the server; restarts | once, in order, never lost in silence |
| client registry (`client_registry.go`) | clients, ledgers, ack targets | attach, detach, resolve, reclaim | cap and idle clock against live sockets | a ledger in use is not reclaimed |
| vt screen (`vt/screen.go`, `csi.go`, `tabstops.go`, `wire.go`) | two screens, cursor, margins, modes, tab stops, saved cursors, wrap flags, drain | one operation per control function, resize | cursors saved under one size and screen and restored under another; flags that must move with their rows | everything cells are indexed by stays on the screen; edits confined; wrapped lines stay joined |
| vt parser (`vt/parse.go`, `table.go`, `dcs.go`) | state, parameters in shared arrays, intermediates, payloads, a partial UTF-8 character | one byte at a time | sequences cancelled, cut short, malformed or too long | what it executes is what was written, nothing of an earlier sequence |
| session manager (`session_manager.go`) | handlers by id, order, reap candidates | create, close, reorder, reap, shut down, serve a socket | processes start outside the lock | order lists exactly the live sessions |
| status stream (`events.go`, `status-stream.ts`) | trackers, subscribers, latches | sweep, subscribe, snapshot, broadcast | three-phase sweep; subscription before snapshot | subscribers converge on the server's view |
| history paging (`terminal.go`, `store.ts`, `connection.ts`) | solicited window, in-flight request, browse cache | request, reply, resident-tail transition | late replies against eviction and resumes | pages land only where asked |
| size healing (`terminal.go`, `client_registry.go`) | each client's size, heal timer | applySize, maybeHealSize, healSize | clients come, resize and go before the timer fires | nobody is left at a departed client's size |
| process lifecycle (`terminal.go`) | started, exit error, `procExitCh`, `done` | ensureStarted, monitor, Close, Shutdown, closeOnProcExit | fork against sweep, Close against exit, panicking callback | the exit status is the child's; every teardown ends; every socket is told |
| teardown and reaping (`reap*.go`, `containment*.go`, `zombiereap*.go`) | marker, cgroup, spawn registry | TERM, grace, KILL, wait4 sweep | processes that fork, scrub their environment or ignore SIGTERM | no process of the tree is left, none of another tree is touched |
| ping and RTO (`ping.go`, `pingstat.go`) | smoothed RTT, variance, failures | sample, backoff | integer smoothing and clamping | estimate within its bounds |
| wire codec, routes, origin policy, title probe, renderer and input devices | little or none | pure translation | - | covered by golden files and unit tests |

How they meet: the PTY reader feeds the screen and the ring under the handler's
mutex and pokes the scheduler; the scheduler builds under the same mutex and
writes outside it, each socket under its own write lock; a read loop per socket
takes input, resumes and resizes; a resume takes the socket's write lock and then
the handler's mutex; the tab's event loop applies messages to its line store and
its outbox. The session manager owns the handlers; its sweep reads them between
two holds of its own lock and queues changes to subscribers.

## Modules

`RetainedLog` is the abstract promise of the scrollback: an append-only log, the
lowest index that can be read, and a bound on how much can. `ScrollbackRing` is
`terminal/scrollback.go`: `buf`, `start`, `count`, `committed` as in the code, one
action per line appended (`Grow`, `Overwrite`) inside a batch (`AppendBatch`
opens it), `Clear`, and the two readers as operators with the code's clamps.
`MCScrollbackRing` gives the configured depths. `ScrollbackRingProofs` holds the
proofs.

`InputLedger` composes one tab's half of reliable input with the server's. The
tab's variables are `ResumeState`'s; a socket is a pair of queues and a place in
the read loop (`handler`). `ResolveSession` and `SendBatch` are the two halves of
`handleResume` (before and under the socket's write lock), `WritePTY` and
`IncrementReceived` the two of `handleBinaryFrame`. `BuildFrame`, `SweepAcks`,
`WriteFrame` and `NoteAcksSent` are a scheduler pass as far as it carries acks.
`Forget` is the reclaim of an unattached ledger, `Restart` a new process,
`Reload` a page reload that finds the same key again. `InputLedgerProofs` holds
the proofs.

`LineStore` is `web/src/store.ts` as operators from store to store: what a screen
frame, a scroll message, an ED3 and an eviction do to the rows and to the
provisional floor, and what a resume claims (`ReplayBoundary`).

`SessionStream` composes the screen, the history, the builder, the scheduler, the
resume and the stores of several tabs. The child's actions are one chunk each,
with the poke that ends `handlePTYData`. `BuildFrame` is `buildFrame` with
`flush_builder.go`'s `Build` inside; `Suspended` is the drain while nobody is
attached; `WritePayloads(c)` one client's turn of `dispatchFrame`, with the
`resumeGen` comparison; `Resume(c)` is `handleResume` under both locks; `Detach`,
`Reap`, `Restart` and `Reload` are what the world does. `log` is the retained log
that `ScrollbackRing` is proved to implement, read through `OldestIndex`.
`SessionStreamProofs` holds the proofs, the lemmas about `LineStore` among them.

`SessionManager` is `terminal/session_manager.go` around its lock: what an
operation does under the lock is one action, what it does before (`Start`, a
process outside the table) or after (`CloseHandler`, a handler to be closed) is
another. `serving` and `streaming` are the sockets and status streams whose count
`activeClients` keeps; `Tick` ages the idle clock, the sessions and the absence of
clients, each up to the window. A handler is only its process here: told or found
to end (`ending`), exit broadcast (`exited`), all goroutines returned (`gone`).
`SessionManagerProofs` holds the proofs.

`StatusStream` is `terminal/events.go` with the contract `status-stream.ts` gives a
tab strip. `SweepBegin`, `SweepRead` and `SweepDiff` are the phases of one sweep:
under the lock, without it, under it again; `Broadcast` is one event to every
subscriber after that. A session is computed from its own reading alone, so that
all handlers are read in one step instead of one by one loses no outcome of a
sweep, and the children and requests still move between the phases. `tracker` is
what the sweep remembers of a session, with the latch (`latched`) and the two
cursors: last notification classified (`seen`), last one delivered. `SnapTable`
and `WriteSnapshot` are the two halves of the snapshot. A connection (`Conn`) is a
slot that outlives the strip's interest until its goroutine notices (`Return`);
one whose queue is full is dropped. `Close` is also what `maybeReap` does, once
for each session. `StatusStreamProofs` holds the proofs.

`VtCursor` is the part of `vt/csi.go`, `parse.go`, `tabstops.go` and `screen.go` that
moves the cursor. A screen is a record with the code's field names and each control
function an operator from screen to screen named for its method; the actions feed it
any of them (`Move`, `Position`, `PrintGlyph`, `Margins`, `Tabs`, `Modes`,
`SaveRestore`, `Reset`) and the clients' `ClientResizes`. `VtGrid` extends it with
`page`, the rows: the edits of cells are operators over any contents, applied by the
properties to contents in which every cell is told apart, and the flag `wrapped` is
state, moved by `wrapRows`, `scrollUpOnce`, `drainTopRow` and the rest.
`chainRows` is `vt/wire.go`'s walk over them. To see that the right rows are joined,
two rows that one wrap joined are followed (`part`, which the code does not have)
until one of them is gone. `VtCursorProofs` holds the proofs of the first of the two.

`VtParser` is `vt/parse.go`, `table.go` and `dcs.go`: `stateTable` with a definition per
`build...` function, and `feed`, `transit` and `doAction` from a parser to a parser and
what it did. Beside it runs a reader that is not in the code: it keeps a sequence's
text and decides what it says only when it is complete. The properties compare the
two at every next byte.

`SessionProcess` is the life of a session's process tree: `ensureStarted` (`Start`,
`Registered`), the process monitor from `CmdWait` to `DoneCloses`, one action per step
up to the next lock, channel or system call, both escalation ladders (`Cgroup...`,
`Reap...`), the zombie sweep (`FindOrphans`, `ReapIfUnowned`) and the socket's watcher
(`ReadExited` to `CloseOnProcExit`). `Fork`, `Exit` and `KillHead` are a small kernel:
pids, parents, environments, zombies, and orphans that go to the server. Processes one
signal kills together end in any order: `EndAll` lets each child of a dying parent outlive
it and become the server's zombie, or not. `SessionProcessProofs` holds the proofs.

`FlushSchedule` is when a frame may leave and at which size. Time is discrete and
every deadline is the ticks left to it. `FlushPass` is `buildFrame` as far as the holds
go (`PassHeld`, `PassBuilt`), `RedrawHoldUntil` the redraw settle with its re-arms,
`Wait` the three waits of the flush loop, `ApplySize`, `MaybeHealSize`, `HealRead` and
`HealApply` the sizes. What was shown is one bit (`unshown`); what a frame shows is
`SessionStream`'s business. `FlushScheduleProofs` holds the proofs.

A module `MCx` gives `x`'s constants values that a `.cfg` cannot spell.

Each `Mishaps` constant names turns of the environment under which the code is
known to break a property. A passing run that leaves a mishap out says that the
property holds without it. `Drawing` limits what the child may do in `SessionStream`,
to keep each run's question small.

## What the runs check

| Run | Question | Bounds |
| --- | --- | --- |
| `ring` | does the ring implement the log, keep index identity, and do successive pages compose? | depths -1, 0, 1, 3; batches of two; eight lines: two full wraps of the deepest ring, growth after Clear |
| `ledger` | is input delivered once, in order, and never lost in silence; do ledger, wire and counters add up, page reloads included; is input on a socket that stays up acked though the child is silent? | 2 bytes, 2 sockets, 2 processes, outbox of 2: a reconnect, a full outbox, a lost ledger |
| `stream` | true screen, complete history but for what was evicted, honest claims | 1 tab, 2 sockets, 4 chunks of printing, repainting, ED2 and screen switching; screen of 2, history of 2, a store of 3 rows: a full turn of each, and a switch either side of a resume |
| `stream_tabs` | does one tab's attach, resume or ED3 leave another on a stale screen; is a row of a former process ever claimed? | 2 interchangeable tabs, 3 sockets, 2 chunks, 2 processes |
| `stream_live` | does a quiet system converge on the screen? | 2 chunks, 2 sockets |
| `manager` | does the order name the live sessions, is the reaper held off by presence and never for ever, and does Shutdown wait for all it found? | 2 sessions, 2 sockets, 1 stream, a window of 2 ticks: two of everything that can race, ages below, at and across the window; the theorems cover any number |
| `status` | does a strip agree with the server whenever it has heard all, is a notification given once, does a latch last and a turn's end show, does every strip get there? | 2 sessions, 1 strip, 2 connections of which the server admits 1, a queue of 1, 3 changes, 1 lost connection: a change in each phase of sweep and snapshot, a full queue, a slot still held by a connection already lost |
| `vt_cursor` | do cursor, margins and stops stay on the screen, is a wrap pending only at the edge, does the scroll region confine? | screens of 3 x 4 and 1 x 3; three settings (a margin, a mode, a save, a reset) and any motion, printing and resizing between them: any two settings can be undone by a third. Tab stops every 2 columns |
| `vt_grid` | do wrapped lines stay joined, do edits stay in their margins and corners, does a deletion undo its insertion? | 3 x 3 and 2 x 3. Two settings round a wrapped line: into the alternate screen and back with resizes on either, or mode 69 and DECSLRM for a box narrow in columns. Four where nothing has wrapped: both boxes of margins and origin mode. A chain of 3 rows against a screen of 3 and its drained rows, so that the scan is cut on either side |
| `vt_parser` | does the parser execute what was written? | four repertoires, for control sequences, DCS, OSC and text, each with a byte of every class the table tells apart there; three parameters, groups of two, two intermediates, payloads of two, four bytes of text: each limit is passed |
| `process` | is the exit status the child's, is the tree gone when the handler is done, is nobody else signalled, does the teardown end, is every socket told? | one session of at most three processes inside another session's tree, one socket; a cgroup or none |
| `flush` | is no redraw shown in pieces, is a change flushed within the timers' bound, is nobody left at a departed client's size? | two interchangeable clients, two sizes, one of them the default; flush interval 1, quiet 2, cap 3, one re-arm, DEC 2026 hold 2, debounce 1: the order of the code's deadlines (50 ms, 150 ms, 1 s, three re-arms, 1 s, 3 s) but for the debounce, which races nothing but clients |

The numbers typed, opened and written only grow, so the runs of the ledger, the
stream and the status are bounded by them; `MaxWire` and `MaxFrames` bound queues
only where an unbounded producer would refill them, never a resume batch. Rows are
numbers of the chunks that wrote them, so a stale row is told from a true one.
Session ids are used once. These runs stop when the bounds are used up, which is why
deadlock is not checked. The vt, parser and flush runs need no such bound but for the
settings: their state is finite and they explore all of it. Of `VtParser`'s
repertoires one is chosen per behaviour; a byte of another class would take the same
branch as one that is there.

### Disagreements with the documents

What the code is known to get wrong against its own comments is a mishap, left out
of the passing runs and seen by adding it to one of them.

In `ledger`:

- `typeAhead` breaks `OrderedOnce` and `NoSilentLoss`: a byte typed between a socket's
  open and its resumeAck is sent at once (connection.ts:604) and replayed with the
  outbox, hence written twice.
- `lateFrames` breaks `OrderedOnce`: the read loop of an abandoned socket may still
  deliver what the next resume makes the tab replay. Without it a resume waits until the
  older sockets that are still served have nothing left to read (`Drained`); what a tab
  sends on a connection that has ended counts for nothing.
- `unheardLoss` breaks `OrderedOnce`: a lost ledger is told once, by the resume that
  creates the new one; if that ack is not handled, the outbox is replayed over what
  its predecessor had already counted.
- `reload` is in the run: the page restarts its counters and the ledger does not, and
  `NoSilentLoss` excuses bytes lost that way.

In `stream`:

- `cutReplay` breaks `HistoryComplete`: on the main screen the window is written before
  the replay (terminal.go:2588-2596) and moves the tab's claim (store.ts:762); a socket
  that dies in between leaves a gap that is never asked for again, against
  store.ts:774-777.
- `sharedDrain` breaks it with two tabs: one tab's resume commits lines
  (terminal.go:2500) that the others are never sent, against terminal.go:2494-2496.
- `altReturn` breaks it: a tab that resumes in an alternate screen it still shows
  refuses the main-screen lines of the replay (this needs six chunks: `Drawing`
  {"alt"}, `ChunkLines` 2, `MaxChunks` 6, `MaxIndex` 8, `MaxLines` 4).
- Both break `ClaimIsHonest` too, on taller screens: they leave a gap above the floor, and
  when the rows at the floor are evicted, the next range confirmed raises the floor over
  what a window once drew and nothing confirmed. The comment at store.ts:791-793 says that
  the heal in `confirmRange` never does this, because such a row would be at or above
  `oldest`; but the heal raises the floor to `max(end, oldest)`, which is above such a row.
  (`Height` 3, `MaxLines` 5, `Drawing` {"rewrite"}, `MaxChunks` 4 and two tabs show it for
  `sharedDrain`.) Without the mishaps the heal still raises the floor over rows nothing
  confirmed, but only where the server can no longer read them (`Height` 3, `Depth` 1,
  `MaxLines` 5), so no replay could put them right; `ClaimIsHonest` asks for agreement as
  far as the server can read.
- `staleClaim` with two processes breaks it: the claim is compared with another
  process's indices.
- `forget` in `Drawing`: ED3 and fresh scrolled lines in one frame, of which the tab
  erases some it must keep; with `lateClear`, also a resume that comes before the frame
  that tells of the ED3.
- Lines scrolled off the main screen in the same flush interval as a switch to the
  alternate one never reach history (flush_builder.go:84), and once the child has left
  the alternate screen with nobody attached nothing it scrolls off is retained
  (terminal.go:1474 asks `altTransitionPending`, whose `prevAlt` only `Build` advances,
  against terminal.go:1465-1466). `SessionStream` counts as history only what reached
  the ring, so no property of it speaks of either.

In `manager`: `lateCreate` (a session whose process started before `Shutdown` and
entered the table after it is never closed) and `lateTeardown` (`Close` and `maybeReap`
take a session from the table before they tear it down, so a `Shutdown` that comes next
does not wait for it, session_manager.go:682-685) break `ShutdownComplete`.

In `status`: `revert` (a rank, name or percentage that changes and changes back between
two sweeps; a snapshot in between shows the middle value and no event corrects it) and
`shortLived` (a session created and closed between two sweeps; a snapshot in between
shows a tab that no event removes) break `StripAgrees`.

In `vt_cursor`: `shrunkAlt` breaks `OnScreen` (leaving the alternate screen clamps only
the bottom of the main screen's scroll region to a screen that has become shorter);
`movedPending` breaks `PendingAtEdge` (modes, saves and resizes leave a wrap pending at an
edge that is no longer there); `wrapBelow` breaks `RegionConfines` (text below the scroll
region that reaches the end of its line is put back on the bottom margin).

In `vt_grid`: the comment at csi.go:464-465 says "The rectangular ops deliberately ignore
the left/right margins for clamping (DEC: they operate on the page, not the scroll box)".
In origin mode the code beneath it (csi.go:469-472) both offsets the columns by
`leftBound`, as `TestDECFRAOriginModeColumnOffset` (csi_test.go:811-823) expects, and
clamps them to `leftBound` and `rightBound`. `Page` follows the code; the mutant `MutPage`
is the comment's reading, and `EditsExact` is violated under it once mode 69, DECSLRM and
origin mode are set. It is a comment that is wrong, not a mishap.

It also leaves the margins and modes to `VtCursor`'s mishaps. A screen of one
row cannot tell whether a drained row is continued (`drainTopRow` looks at row 1), and
in the alternate screen a row 0 that continues one is joined to the main screen's
drained rows; `ChainKept` speaks of neither.

In `vt_parser` there are no mishaps, but the reader shares three habits of the code: the
byte 0x9C inside a UTF-8 character of a payload ends the string, C1 bytes end a DCS
that is being ignored, and nothing above 0x7F is read in ground but as UTF-8.

In `process`: `teardownFork` breaks `TreeGone` (an uncontained tree that forks after the
first marker scan; reap.go:39-42 says it rescans); `recycledPid` with two sessions breaks
`ExitKnown` and `OnlyOwnSignalled` (the kernel gives out a pid that a sweep or a ladder
has listed); `lateStart` breaks `TeardownEnds` (a first client that arrives after `Close`
starts a process that nobody ends). Besides, the child's last output may never reach
its clients: the exit closes the PTY and cancels the loops whether or not it has been
read and flushed (terminal.go:1231-1243), and only a client that attaches afterwards is
given time to resume.

In `flush`: `staleHeal` breaks `SizeIsAClients` (healSize reads the registry without
h.mu, so a resize or departure in between is overwritten by the older size). Where one
client's size is wider and shorter than another's, the relaxation leaves the screen at
what fits both, a size nobody asked for; if then one of them goes, no timer is armed and
the other stays clamped, against terminal.go:2748-2750. `SizeIsAClients` promises there
only that the screen fits whoever stays. `FlushedInTime` allows the whole re-arm budget
where a DEC 2026 hold overlaps the redraw: a cap that lapses inside a bracket builds
nothing and costs another whole cap. And a redraw hold may outlive the redraw: a pause
that no pass looks at is not noticed, because output after it restarts the clock
(terminal.go:2649-2650), so a lapse that follows re-arms for a redraw that was over; this
costs a cap, and the bound counts it.

The "durable subset" of a frame overtaken by a resume (terminal.go:1826-1830) is
modelled, but no property needs it: a claim of this revision's client stops below
the window, so the next resume asks for those lines anyway.

### Fairness

Weak fairness is put on the goroutines that always run again (scheduler, read
loops, writers) and on the tab's event loop, one condition per goroutine. The
user, the network, the child and other clients are owed nothing, and no
condition is strong: no step of these loops is only intermittently possible while
the thing it works on stays up. Socket writes have deadlines in the code, so a
write ends; the model lets it end at once or lets the socket be lost. In
`SessionManager` the clock ticks, the reaper runs, requests under way and process
monitors finish, and a socket whose process has exited is closed; nobody is owed
a client's coming or going, a child's exit or the expiry of `Shutdown`'s context.
In `StatusStream` the sweep ticks for ever, a connection's goroutine runs, and a
strip tries to connect again; children, users and the network are owed nothing.
In `SessionProcess` the monitor's next step, the zombie sweep, the loops' end and a
socket's watcher are fair, a cancelled context kills the head, and the grace timer
fires; no process ever needs to exit, honour SIGTERM or stop forking.
`FlushSchedule` has no fairness: its promises are bounds in ticks. A tick waits for
whatever is ready to run, so the bounds are those of the timers and leave out the
scheduler's own latency.

## What is proved

Every theorem holds for every value of the constants that the modules' named ASSUMEs
admit; each ASSUME only gives a constant its type, or an order between two bounds, and
TLC evaluates them in every run. A theorem that needs mishaps left out says so in its
ASSUME; they are those its run leaves out, or fewer.

`ScrollbackRingProofs`, for every depth, line, batch and history:

- `RingInvariant`: types and shape (no run checks these two by themselves). The inductive
  part is that `start` moves only when the buffer is full, so indexing modulo the buffer
  and modulo the capacity agree; `ModSmall` and its relatives are the arithmetic.
- `IndexIdentityHolds`: a readable index keeps its line and the lowest readable
  index never moves back.
- `RingImplementsLog`: each step is a step of `RetainedLog` or a stutter.
- `PagesAlwaysCompose`: a page and the replay above it are the replay from the page's
  start. It follows from the shape alone, by the clamps of the two readers.

`InputLedgerProofs`, for every bound:

- `OutboxIsTailAlways`, under every mishap: types hold and the outbox is the unacked tail
  of what was typed. The invariant is a conjunction of the tab's part (`TabInv`,
  `LinkInv`) with the types of what the wire, the ledgers, the pass and the PTY hold: a
  trim relies on every count under way being a number, wherever it comes from.
- `OrderedOnceAlways`, `NoSilentLossAlways`, `ByteConservationAlways`, under no mishap but
  `reload` (`Orderly`): input in order and once, none lost unheard, and the sum of what is
  counted, being counted and on the wire. None of the three is inductive, and they need
  one invariant together, `OrderIInv`. Its heart is `CoverInv`: the ledger covers, or with
  what is on the wire will cover, everything the child has, except while a loss is on its
  way to the tab (`LossPending`). Around it: only the newest resumed socket speaks
  (`SocketInv`, `PhaseInv`), every count that is computed, carried by a pass, or on its way
  to the tab is no higher than the ledger (`TellInv`, `AckInv`), and what a resumeAck says
  stays true until it is handled (`ReplyInv`, `EpochInv`).

`SessionManagerProofs`, for every set of sessions, sockets and streams and every
idle window:

- `OrderAlwaysLive`: the order is a permutation of the live sessions. For
  `SetSessionOrder` this is the pigeonhole principle: a list without repetition, of
  live ids only and as long as the table, leaves none out. For `create` it needs
  that a session is in one stage at a time (`Stages`).
- `ArrangementAlwaysKept`: removal and append keep the relative order.
- `ReaperAlwaysSpares`: rests on `Counted` (the counter is the number of clients,
  so its clamp at zero never bites) and `Clocks` (the idle clock is no older than
  the absence of clients nor, for any session, its age).
- `ShutdownAlwaysComplete`, assuming no mishap: `Quiet` says that after `Shutdown`
  the table stays empty and what still runs is a victim.

`StatusStreamProofs`, for every set of sessions, strips, connections and reports:

- `TurnEndAlwaysShown`, under every mishap: an event that carries a classified
  notification shows its status, or the exit that outranks it. Rests on `Cursors` (the
  cursor of what has been classified is never ahead of the one of what has been
  delivered, so a notification new to the subscribers is new to the latch too) and on
  `Outgoing` (the events under way are of that kind already).
- `LatchAlwaysKept`, under every mishap: `LatchKept`. The invariant says it of the sweep in
  its middle too: a tracker that has seen the latest notification holds its latch, and
  what a sweep has read of that notification does not speak against it (`Behind`,
  `ReadAgrees`).
- `NotifiedAlwaysOnce`, under every mishap: every note on its way to a strip, in the
  sweep's hand or in a channel, is above all it was given and above those before it
  (`InOrder`), and the tracker is past all of them, or gone for ever (`AllPast`): ids are
  used once, so no later tracker starts over.
- `StripAlwaysAgrees`, assuming no mishap. For each strip and session: an event for it is
  still to come, or what it shows agrees with what was last sent, field by field, or the
  field has moved on in the handler, so that the next sweep will find it (`Right`, and
  `HalfRight` for a snapshot between its two phases). A session shown is live, or tracked,
  so a sweep will tell of its end. Events queued earlier may be out of date; `Settles` says
  that such a one is followed by another. `Drift` is what the sessions' steps owe this:
  they may take a field away from what was sent and never back to it, which is what the
  mishap `revert` denies.

`VtCursorProofs`, for every set of sizes, every count and any sequence of controls:

- `AlwaysOnScreen`, without `shrunkAlt`: cursor, margins and stops are on the screen.
  Inductive with `Region`, what leaving the alternate screen will need of the main one.
- `AlwaysPendingAtEdge`, without `movedPending` as well: a wrap is pending only at the edge;
  no save slot holds one (`Rested`).
- `RegionAlwaysConfines`, without `wrapBelow` instead: printing and motion stay in the
  scroll region. One lemma per control function; the repeated steps of tabs and wraps are
  bounded by a smallest counterexample.

`SessionProcessProofs`, for any number of sessions, processes and sockets:

- `ExitAlwaysKnown` and `AlwaysOnlyOwnSignalled`, without `recycledPid`: `HeadInv` says that
  between its fork and `cmd.Wait` a head is the server's child, in the spawn registry once
  the lock is free, with its status unclaimed, and that what a teardown has listed is of
  its own tree.
- `TreeAlwaysGone`, without `teardownFork`, pids given out again included: `Torn` follows
  the monitor's stations, from which on the cgroup is removed and empty, the marked
  processes are listed, the exit is announced, the PTY closed.

`FlushScheduleProofs`, for any clients, sizes, intervals, caps and budgets:

- `FramesAlwaysWhole`: `FrameInv` balances what a redraw hold has lasted with what is left
  of its cap, so that a hold ends for good only after a pause or a spent budget.
- `AlwaysFlushedInTime`: nobody who could be shown a change is asleep over it (`Awake`), no
  timer outlives the hold it was set for (`TimerLive`), and what was waited, with what the
  hold in force may still cost, is within the bound (`Charged`).
- `SizeAlwaysAClients`, without `staleHeal`: the size is settled, or a step that will
  settle it is under way (`UnderWay`).

`SessionStreamProofs`, for any tabs, screen, store, replay and chunk sizes and for a
scrollback no deeper than one replay (`Depth <= ReplayMax` of `StreamAssumption`). A
deeper one, such as terminal.go's default of 100 000 lines against a replay of 2000, is
paged by the tabs, which `SessionStream` leaves out:

- `Typed`, under every mishap: the types, with the bounds that keep an index below
  `MaxIndex` and a message one that the code builds (`Types`).
- `ScreenSafe`, under every mishap: `Following` says, of every tab whose resume was
  handled, that the frames on their way to it, those still to be written to it included,
  lead from what it shows now to the window the builder remembers. "Lead" is a trace
  (`Leads`): one stage per frame, a window in full from any stage, a diff only from a stage
  whose rows it leaves out are right (`Fits`), nothing before the resumeAck (mute). With
  `Synced` (a builder with nothing to do remembers the screen) a tab at the end of its
  queue shows the screen. The steps that could break it are the resume, which must put a
  whole window after whatever was built before it, and the frame written after it to a
  tab whose `resumeGen` has moved on.
- `ClaimSafe`, without `altReturn` and `sharedDrain`, for stores with room for a screenful
  besides one eviction (`RoomAssumption`; the code's default is 5000 rows, of which an
  eviction takes 256; the proof uses it where an eviction might pass over the window, and
  no counterexample without it is known): `Sound` says of a store that every row that is
  not the server's (`Drawn`) is at or above the floor, that eviction and ED3 have taken
  none below which such a row is left, and that the lines still to come start at or below
  it. `Marked` is a second trace over the same queues: how far the windows sent (`top`),
  the lines without a gap (`prov`) and the frozen main window (`room`) have come at each
  frame, ending with everything committed. Tabs without a socket or with a resume still
  unread are `Adrift`: sound for what they claimed when they asked. The theorem is about
  cut replays too, and about processes replaced while a claim is under way.

- `HistorySafe`, without ED3 and without `altReturn`, `sharedDrain`, `staleClaim` and
  `cutReplay`, each of which breaks it (`Gentle`), under `RoomAssumption`: `NoGap` says that a
  store, of the lines that can still be read below an index, holds each or has evicted it
  or a newer one. It holds below `prov` of the mark where a tab stands (`Unbroken`), and up
  to its claim while a tab is without a socket or waits for its resume (`Claims`).
  `Chain` is the trace of `Marked` in two parts, what is in the socket and what
  `dispatchFrame` has still to write, because a socket may die between them: each part ends
  with every line up to its last window, so a socket that dies in a dispatch leaves
  nothing missing below the claim. `Plain` says that without ED3 no frame and no store erases. The resume
  has to show that its replay starts where the claim ends, or at the oldest line left.

Proof attempts corrected the modules in four places. `ClaimIsHonest` had asked every claimed
row to be the server's, and the step of `confirmRange`'s heal did not go through: the
counterexample is the one above, so it now asks this of the rows the server can still
read, and of the others only that they are history. `SizeIsAClients` had taken the
least of each dimension over those attached now for what a relaxation leaves, which is
wrong once one of them goes. `Drained` had waited for what is left on connections that
have ended, and so left out resumes that the code may well answer. In the process kernel,
processes that one signal kills together had ended in one order only.

Only model-checked: all of `VtGrid` and `VtParser`, and all liveness (fairness and
ENABLED are beyond the prover). `HistoryComplete` is neither run nor proved for histories
with ED3, which break it (`forget` above). The library's induction
theorems take an operator and cannot be used; what `ApplyRows` computes for a message of
any length is proved by the least index at which it would fail instead. The same was not
done for `VtParser`, whose properties compare a whole text with what a reader makes of it.

## Not modelled

Attached ledgers may be evicted at the session cap when more than 1024 sockets
are live, which no bounded run reaches. The cursor, modes, title, bell and
clipboard ride along frames and change no row. Demand paging and write deadlines are
left out of `SessionStream`, and so is resizing; `FlushSchedule` has the sizes and the
holds, with writes that take no time. Byte layouts, colours and attributes are
abstracted to whole rows.

Of the vt engine: SGR, charsets and single shifts, character widths beyond 1 and 2,
protected cells, selective erasure, reports and checksums, the title and keyboard-flag
stacks, and what OSC and DCS payloads mean. A row that an application broke itself
(`hardWrapIndent`) is not joined in `VtGrid`. `VtCursor` prints characters of width 1
and 2 and leaves out REP, which prints one again.

Of the process tree: setting up the cgroup root and sweeping leftovers of a former
server, limits, the cost sampler (its stop is only a cancel, so a tick that is running
may read a cgroup already removed) and the reports.

`StatusStream` has pinned names and no other titles (the automatic ones are debounced
over time, a window of their own), no keepalives and no `List`; of the notifications of
one sweep interval the screen keeps the last only, so a classified one overwritten by an
unclassified one is told to nobody, in the code as in the model. Components with no
module yet are listed in `PROJECT.json` with the reason or the planned module.

## Plan

1. `HistoryComplete` with ED3, for frames that do not mix it with fresh lines.
2. `ChainKept` of `VtGrid` for any rows: one lemma per edit, as in `VtCursorProofs`.
3. `HistoryPaging`: `LineStore` extended with the browse cache and the solicited
   window, composed with `ScrollbackRing`'s `LinesRange` and one request in
   flight. Theorem: a page lands only in the window that asked.
4. `Connection`: backoff, probes, wake-up, the typed-framing latch.
5. `ResumeRegistry`: many keys, cap and idle clock (refines `InputLedger`'s `Forget`).
6. `PingRto`, the keyboard-flag stack, charsets and shifts; the automatic title and its
   window in `StatusStream`.

The runs that exist are few on purpose: a module to come brings one passing run, and
small modules share one.
