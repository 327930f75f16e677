---------------------------- MODULE SessionStream ----------------------------
(***************************************************************************)
(* One terminal session on its way to the tabs that watch it.  The child   *)
(* draws on a screen and scrolls lines off it (vt); the flush scheduler    *)
(* turns that into frames, commits the scrolled lines to history and       *)
(* writes to every socket (terminal.go, flush_builder.go); a tab that      *)
(* connects resumes from the highest index it claims; and each tab's       *)
(* LineStore applies what it is sent.                                      *)
(*                                                                         *)
(* History is the retained log that ScrollbackRing implements: `log` is    *)
(* everything ever committed, of which OldestIndex and up can be read.     *)
(* A row is the number of the chunk that wrote it, 0 when blank.            *)
(*                                                                         *)
(* Left out: cursor, modes, title, bell, clipboard and palette, whose      *)
(* frames change no row; the holds that postpone a flush; resizing; and    *)
(* the sockets' write deadlines.                                           *)
(***************************************************************************)
EXTENDS LineStore

CONSTANTS
  Client,        \* the tabs
  Height,        \* rows of the screen
  Depth,         \* scrollback depth
  ReplayMax,     \* lines a resume replays at most
  ChunkLines,    \* lines of one scroll message
  Drawing,       \* what the child may do besides printing lines
  Mishaps,       \* which of the network's awkward turns may happen
  MaxChunks,     \* bound: chunks of output the child ever writes
  MaxWire,       \* bound: messages on their way to a tab, besides a batch
  MaxAttaches,   \* bound: sockets opened, over all tabs
  MaxBoots       \* bound: server processes, one after another

\* "rewrite": repaint a row; "erase": blank the screen (ED2); "forget": erase
\* the saved lines (ED3); "alt": switch screens.
AllDrawing == {"rewrite", "erase", "forget", "alt"}

\* "cutReplay": a connection is lost after a window it carried moved the tab's
\*              claim past lines of the replay that were still to come;
\* "altReturn": a tab that was cut off in the alternate screen resumes in it
\*              again after the main screen has scrolled;
\* "staleClaim": a tab's claim about a former process hides lines of this one;
\* "lateClear": a tab resumes before an ED3 has gone out with a frame;
\* "sharedDrain": a tab's resume commits lines another tab was to get as a frame.
AllMishaps == {"cutReplay", "altReturn", "staleClaim", "lateClear", "sharedDrain"}

ASSUME StreamAssumption ==
  /\ Height \in Nat \ {0} /\ Depth \in Nat /\ ReplayMax \in Nat \ {0}
  /\ ChunkLines \in Nat \ {0} /\ MaxChunks \in Nat /\ MaxWire \in Nat \ {0} /\ MaxAttaches \in Nat
  /\ MaxBoots \in Nat \ {0} /\ Drawing \subseteq AllDrawing
  /\ Mishaps \subseteq AllMishaps
  /\ MaxChunks + Height <= MaxIndex
  /\ Depth <= ReplayMax    \* a deeper ring would be paged

VARIABLES
  (* the screen, under h.mu *)
  mode,      \* the buffer shown: "main" or "alt"
  rows,      \* the rows of both buffers
  drain,     \* rows scrolled off since the last drain, and from which buffer
  written,   \* chunks the child has written
  (* the handler, under h.mu *)
  log,       \* every row committed to history by this process
  cleared,   \* what is below this index was cleared from the ring
  cache,     \* the window the builder last sent, and where it sat
  seen,      \* prevAlt: the buffer the builder last saw, "none" before any
  pending,   \* scrollbackClearedPending
  (* the scheduler *)
  dirty,     \* its one-slot wake-up
  frame,     \* the frame being dispatched
  todo,      \* whom it still has to be written to, with their resumeGen then
  (* the sockets *)
  boot,      \* number of the running process
  opened,    \* sockets opened
  gen,       \* per tab, resumeGen of its socket at the server
  attached,  \* the tabs with a socket registered, a lost one perhaps
  asked,     \* per tab, the resume under way to the server
  down,      \* per tab, frames under way to it
  (* the tabs *)
  link,      \* "down", "open" (resume sent), "acked"
  epoch,     \* the boot the tab last resumed against; 0 before the first
  store      \* its LineStore

screen  == <<mode, rows, drain, written>>
handler == <<log, cleared, cache, seen, pending>>
pass    == <<frame, todo>>
sockets == <<boot, opened, gen, attached, asked, down>>
tabs    == <<link, epoch, store>>
vars    == <<screen, handler, dirty, pass, sockets, tabs>>

Row       == 0 .. MaxChunks
Blank     == [y \in 1 .. Height |-> 0]
NoCache   == [base |-> 0, rows |-> <<>>]
NoFrame   == [kind |-> "none"]
NoResume  == -2

Committed   == Len(log)
OldestIndex == Larger(cleared, Committed - Depth)

Shown == rows[mode]

Init ==
  /\ mode = "main" /\ rows = [m \in {"main", "alt"} |-> Blank]
  /\ drain = <<>> /\ written = 0
  /\ log = <<>> /\ cleared = 0 /\ cache = NoCache /\ seen = "none"
  /\ pending = FALSE /\ dirty = FALSE /\ frame = NoFrame /\ todo = <<>>
  /\ boot = 1 /\ opened = 0 /\ gen = [c \in Client |-> 0]
  /\ attached = {}
  /\ asked = [c \in Client |-> NoResume] /\ down = [c \in Client |-> <<>>]
  /\ link = [c \in Client |-> "down"] /\ epoch = [c \in Client |-> 0]
  /\ store = [c \in Client |-> EmptyStore]

-----------------------------------------------------------------------------
(* The child.  Each of these is one chunk handed to handlePTYData, which   *)
(* pokes the scheduler.                                                    *)

\* (The mutant pokes no scheduler that is busy.)
Fresh == written + 1
MutChunk ==
  /\ written < MaxChunks /\ written' = Fresh
  /\ dirty' = (dirty \/ frame = NoFrame)
  /\ UNCHANGED <<pass, sockets, tabs>>
Chunk ==
  /\ written < MaxChunks /\ written' = Fresh
  /\ dirty' = TRUE
  /\ UNCHANGED <<pass, sockets, tabs>>

\* A line at the bottom scrolls the top row off; drainTopRow keeps it whatever
\* buffer is shown.
PrintLine ==
  /\ Chunk
  /\ drain' = Append(drain, [row |-> Shown[1], from |-> mode])
  /\ rows' = [rows EXCEPT ![mode] = Append(Tail(@), Fresh)]
  /\ UNCHANGED <<mode, handler>>

Rewrite(y) ==
  /\ "rewrite" \in Drawing /\ Chunk
  /\ rows' = [rows EXCEPT ![mode][y] = Fresh]
  /\ UNCHANGED <<mode, drain, handler>>

\* ED2 blanks the screen and discards what has not been drained.
EraseScreen ==
  /\ "erase" \in Drawing /\ Chunk
  /\ rows' = [rows EXCEPT ![mode] = Blank]
  /\ drain' = <<>>
  /\ UNCHANGED <<mode, handler>>

\* ED3: the saved lines go, the screen and the index space stay.
EraseSaved ==
  /\ "forget" \in Drawing /\ Chunk
  /\ drain' = <<>>
  /\ cleared' = Committed /\ pending' = TRUE
  /\ UNCHANGED <<mode, rows, log, cache, seen>>

\* DECSET 1049 shows a blank alternate screen.
EnterAlt ==
  /\ "alt" \in Drawing /\ mode = "main" /\ Chunk
  /\ mode' = "alt" /\ rows' = [rows EXCEPT !["alt"] = Blank]
  /\ UNCHANGED <<drain, handler>>

\* DECRST 1049 shows the main screen again and discards the drain.
ExitAlt ==
  /\ "alt" \in Drawing /\ mode = "alt" /\ Chunk
  /\ mode' = "main"
  /\ drain' = <<>>
  /\ UNCHANGED <<rows, handler>>

-----------------------------------------------------------------------------
(* The flush scheduler.                                                    *)

\* altTransitionPending.
Switched == seen # "none" /\ seen # mode

\* The lines of a drain that become history: all of them, or none when the
\* alternate screen is shown or the builder has not seen the last switch.
ScrollOut == IF mode = "main" /\ ~Switched
               THEN [i \in 1 .. Len(drain) |-> drain[i].row] ELSE <<>>

\* retainSuspendedScrollback, when nobody is registered.
Suspended ==
  /\ dirty /\ frame = NoFrame
  /\ attached = {}
  /\ log' = log \o ScrollOut
  /\ drain' = <<>> /\ dirty' = FALSE
  /\ UNCHANGED <<mode, rows, written, cleared, cache, seen, pending, pass,
                 sockets, tabs>>

\* The window a frame is a diff against: none after a reset or a switch.
\* (The mutant forgets the switch.)
MutBaseline == cache
Baseline    == IF seen = mode THEN cache ELSE NoCache

\* diffWindow: the window rows whose index last carried something else.
Changed(base) ==
  {y \in 1 .. Height :
     LET i == base + y - Baseline.base IN
     i \notin 1 .. Len(Baseline.rows) \/ Baseline.rows[i] # Shown[y]}

\* buildFrame, and Build under it.  A frame with neither changed rows nor lines
\* is not sent, and a pending ED3 waits for one that is, whose window it joins.
\* Writing to a lost socket that is still registered does nothing.
BuildFrame ==
  /\ dirty /\ frame = NoFrame
  /\ attached # {}
  /\ dirty' = FALSE
  /\ seen' = mode
  /\ drain' = <<>>
  /\ LET base    == Committed + Len(ScrollOut)
         changed == Changed(base)
         carries == pending /\ (changed # {} \/ ScrollOut # <<>>)
         reached == {c \in attached : link[c] # "down"}
     IN /\ cache' = [base |-> base, rows |-> Shown]
        /\ log' = log \o ScrollOut
        /\ pending' = (pending /\ ~carries)
        /\ IF (changed = {} /\ ScrollOut = <<>>) \/ reached = {}
             THEN UNCHANGED pass
             ELSE /\ frame' = [kind |-> "frame", base |-> base, rows |-> Shown,
                        changed |-> IF carries THEN changed \cup {Height} ELSE changed,
                        alt |-> mode = "alt", cleared |-> carries,
                        first |-> Committed, lines |-> ScrollOut]
                  /\ todo' = [c \in reached |-> gen[c]]
  /\ UNCHANGED <<mode, rows, written, cleared, sockets, tabs>>

Screen(f) == [kind |-> "screen", base |-> f.base, rows |-> f.rows,
              changed |-> f.changed, alt |-> f.alt, cleared |-> f.cleared]

\* Lines from `first` on, in messages of at most ChunkLines.
Chunks(first, lines) ==
  [k \in 1 .. (Len(lines) + ChunkLines - 1) \div ChunkLines |->
     LET i == (k - 1) * ChunkLines IN
     [kind |-> "scroll", first |-> first + i,
      lines |-> SubSeq(lines, i + 1, Smaller(i + ChunkLines, Len(lines)))]]

\* What one client is written: all of the frame, or only its scroll lines if
\* the socket has resumed since the frame was built.
\* (The mutant writes it everything.)
MutUngated(f, current) ==
  (IF f.changed = {} THEN <<>> ELSE <<Screen(f)>>) \o Chunks(f.first, f.lines)
Payloads(f, current) ==
  (IF current /\ f.changed # {} THEN <<Screen(f)>> ELSE <<>>) \o Chunks(f.first, f.lines)

\* dispatchFrame is over when every client was written to, or is gone.
\* (The mutant stops after the first client.)
MutServeOne(c) == frame' = NoFrame /\ todo' = <<>>
Served(c) ==
  LET left == [d \in DOMAIN todo \ {c} |-> todo[d]] IN
  IF DOMAIN left = {} THEN frame' = NoFrame /\ todo' = <<>>
                      ELSE frame' = frame /\ todo' = left

WritePayloads(c) ==
  /\ c \in DOMAIN todo /\ Len(down[c]) < MaxWire
  /\ down' = [down EXCEPT ![c] = @ \o Payloads(frame, todo[c] = gen[c])]
  /\ Served(c)
  /\ UNCHANGED <<screen, handler, dirty, boot, opened, gen, attached, asked,
                 tabs>>

-----------------------------------------------------------------------------
(* Sockets.                                                                *)

\* The tab opens a socket and sends a resume with the claim its store makes
\* now; the server registers the socket, forces a full frame and wakes up.
Attach(c) ==
  /\ link[c] = "down" /\ opened < MaxAttaches
  /\ opened' = opened + 1
  /\ link' = [link EXCEPT ![c] = "open"]
  /\ asked' = [asked EXCEPT ![c] = ReplayBoundary(store[c])]
  /\ attached' = attached \cup {c} /\ gen' = [gen EXCEPT ![c] = 0]
  /\ cache' = NoCache /\ dirty' = TRUE
  /\ UNCHANGED <<screen, log, cleared, seen, pending, pass, boot, down, epoch,
                 store>>

\* replayStart: above what the tab claims, and no more than the replay bound.
ReplayStart(haveThrough, committed) == Larger(haveThrough + 1, committed - ReplayMax)

\* The order of a batch: on the main screen the window goes before the replay, so
\* that a tab still in alt leaves it; in alt behind it, so that a tab still in
\* main takes the lines first.
\* (The mutant always sends the window first.)
MutBatch(ack, window, replay)    == <<ack, window>> \o replay
ResumeBatch(ack, window, replay) ==
  <<ack>> \o IF mode = "main" THEN <<window>> \o replay ELSE replay \o <<window>>

BackInAlt(c) == mode = "alt" /\ store[c].alt /\ store[c].win.height > 0
Outdated(c)  == epoch[c] \notin {0, boot}
Others(c)    == {d \in Client \ {c} : link[d] # "down" /\ asked[d] = NoResume}

\* handleResume: the drain is committed and the screen snapshot taken in one
\* section under h.mu, and the whole batch written under the socket's lock.
Resume(c) ==
  /\ asked[c] # NoResume /\ c \in attached
  /\ LET lines  == log \o ScrollOut
         oldest == Larger(cleared, Len(lines) - Depth)
         first  == Larger(ReplayStart(asked[c], Len(lines)), oldest)
         ack    == [kind |-> "resumeAck", epoch |-> boot]
         window == [kind |-> "screen", base |-> Len(lines), rows |-> Shown,
                    changed |-> 1 .. Height, alt |-> mode = "alt", cleared |-> FALSE]
         replay == IF first >= Len(lines) THEN <<>>
                   ELSE Chunks(first, SubSeq(lines, first + 1, Len(lines)))
     IN /\ BackInAlt(c) /\ Len(lines) > store[c].win.base => "altReturn" \in Mishaps
        /\ Outdated(c) /\ first > oldest /\ lines # <<>> => "staleClaim" \in Mishaps
        /\ pending => "lateClear" \in Mishaps
        /\ ScrollOut # <<>> /\ Others(c) # {} => "sharedDrain" \in Mishaps
        /\ log' = lines
        /\ down' = [down EXCEPT ![c] = @ \o ResumeBatch(ack, window, replay)]
  /\ drain' = <<>>
  /\ gen' = [gen EXCEPT ![c] = @ + 1]
  /\ cache' = NoCache /\ dirty' = TRUE
  /\ asked' = [asked EXCEPT ![c] = NoResume]
  /\ UNCHANGED <<mode, rows, written, cleared, seen, pending, pass, boot, opened,
                 attached, tabs>>

CutsReplay(c) ==
  \E i \in DOMAIN down[c] :
    down[c][i].kind = "scroll" /\ down[c][i].first <= ReplayBoundary(store[c])

\* The connection is lost, and with it every frame still under way.  The server
\* may take a while to notice.
Detach(c) ==
  /\ link[c] # "down"
  /\ CutsReplay(c) => "cutReplay" \in Mishaps
  /\ link' = [link EXCEPT ![c] = "down"]
  /\ down' = [down EXCEPT ![c] = <<>>]
  /\ asked' = [asked EXCEPT ![c] = NoResume] /\ gen' = [gen EXCEPT ![c] = 0]
  /\ IF c \in DOMAIN todo THEN Served(c) ELSE UNCHANGED pass
  /\ UNCHANGED <<screen, handler, dirty, boot, opened, attached, epoch, store>>

\* handleWS returns for a lost socket.
Reap(c) ==
  /\ link[c] = "down" /\ c \in attached
  /\ attached' = attached \ {c}
  /\ UNCHANGED <<screen, handler, dirty, pass, boot, opened, gen, asked, down,
                 tabs>>

\* The process is replaced: nothing of the session is left but the tabs.
Restart ==
  /\ boot < MaxBoots /\ boot' = boot + 1
  /\ mode' = "main" /\ rows' = [m \in {"main", "alt"} |-> Blank] /\ drain' = <<>>
  /\ log' = <<>> /\ cleared' = 0 /\ cache' = NoCache /\ seen' = "none"
  /\ pending' = FALSE /\ dirty' = FALSE /\ frame' = NoFrame /\ todo' = <<>>
  /\ attached' = {}
  /\ gen' = [c \in Client |-> 0] /\ asked' = [c \in Client |-> NoResume]
  /\ UNCHANGED <<written, opened, down, tabs>>

-----------------------------------------------------------------------------
(* The tabs.                                                               *)

Arriving(c, kind) == link[c] # "down" /\ down[c] # <<>> /\ Head(down[c]).kind = kind
Consume(c)        == down' = [down EXCEPT ![c] = Tail(@)]
Apply(c, st)      == store' = [store EXCEPT ![c] = st]
AtTab             == <<screen, handler, dirty, pass, boot, opened, gen, attached,
                       asked>>

\* A resumeAck of another process empties the store: the index space is new.
\* (The mutant keeps it.)
MutResumed(st, known, epochNow) == st
Resumed(st, known, epochNow) == IF known \in {0, epochNow} THEN st ELSE EmptyStore

RecvResumeAck(c) ==
  /\ Arriving(c, "resumeAck")
  /\ Consume(c)
  /\ link' = [link EXCEPT ![c] = "acked"]
  /\ epoch' = [epoch EXCEPT ![c] = Head(down[c]).epoch]
  /\ Apply(c, Resumed(store[c], epoch[c], Head(down[c]).epoch))
  /\ UNCHANGED AtTab

\* Frames that come before the resumeAck are suppressed, except that an ED3 is
\* passed on without its rows.
RecvScreen(c) ==
  /\ Arriving(c, "screen")
  /\ Consume(c)
  /\ LET msg == Head(down[c]) IN
     Apply(c, IF link[c] = "acked" THEN ApplyScreen(store[c], msg)
              ELSE IF msg.cleared
                THEN ApplyScreen(store[c], [msg EXCEPT !.rows = <<>>, !.changed = {}])
              ELSE store[c])
  /\ UNCHANGED <<AtTab, link, epoch>>

RecvScroll(c) ==
  /\ Arriving(c, "scroll")
  /\ Consume(c)
  /\ Apply(c, IF link[c] = "acked" THEN ApplyScroll(store[c], Head(down[c]))
                                   ELSE store[c])
  /\ UNCHANGED <<AtTab, link, epoch>>

\* The browser discards the page and later restores it, from the snapshot the
\* consumer saved with its epoch, or from nothing.
Reload(c) ==
  /\ link[c] = "down"
  /\ \/ Apply(c, EmptyStore) /\ epoch' = [epoch EXCEPT ![c] = 0]
     \/ Apply(c, FromSnapshot(Snapshot(store[c]))) /\ UNCHANGED epoch
  /\ store' # store
  /\ UNCHANGED <<AtTab, down, link>>

Next ==
  \/ PrintLine \/ EraseScreen \/ EraseSaved \/ EnterAlt \/ ExitAlt
  \/ \E y \in 1 .. Height : Rewrite(y)
  \/ Suspended \/ BuildFrame \/ Restart
  \/ \E c \in Client :
       \/ WritePayloads(c) \/ Attach(c) \/ Resume(c) \/ Detach(c) \/ Reap(c)
       \/ Reload(c)
       \/ RecvResumeAck(c) \/ RecvScreen(c) \/ RecvScroll(c)

\* The scheduler, the read loops and the tabs' event loops keep running; the
\* child, the network and the user owe nothing.
Fairness ==
  /\ WF_vars(Suspended \/ BuildFrame)
  /\ \A c \in Client :
       /\ WF_vars(WritePayloads(c)) /\ WF_vars(Resume(c))
       /\ WF_vars(RecvResumeAck(c) \/ RecvScreen(c) \/ RecvScroll(c))

Spec     == Init /\ [][Next]_vars
FairSpec == Spec /\ Fairness
-----------------------------------------------------------------------------
(* Correctness.                                                            *)

Frame == [kind : {"frame"}, base : Nat, rows : [1 .. Height -> Row],
          changed : SUBSET (1 .. Height), alt : BOOLEAN, cleared : BOOLEAN,
          first : Nat, lines : Seq(Row)]

\* The values every variable ranges over.
TypeOK ==
  /\ mode \in {"main", "alt"} /\ rows \in [{"main", "alt"} -> [1 .. Height -> Row]]
  /\ drain \in Seq([row : Row, from : {"main", "alt"}]) /\ written \in Row
  /\ log \in Seq(Row) /\ cleared \in 0 .. Committed
  /\ cache.base \in Nat /\ cache.rows \in Seq(Row)
  /\ seen \in {"none", "main", "alt"} /\ pending \in BOOLEAN /\ dirty \in BOOLEAN
  /\ frame = NoFrame \/ frame \in Frame
  /\ DOMAIN todo \subseteq Client /\ (frame = NoFrame <=> DOMAIN todo = {})
  /\ boot \in 1 .. MaxBoots /\ opened \in 0 .. MaxAttaches
  /\ gen \in [Client -> Nat] /\ attached \subseteq Client
  /\ asked \in [Client -> Int] /\ link \in [Client -> {"down", "open", "acked"}]
  /\ epoch \in [Client -> 0 .. MaxBoots]
  /\ \A c \in Client :
       /\ Held(store[c]) \subseteq Nat /\ store[c].floor \in 0 .. Confirmed
       /\ \A a \in Held(store[c]) : store[c].lines[a] \in Row

Agrees(c, a) == a \in Held(store[c]) /\ store[c].lines[a] = log[a + 1]

\* What a tab claims to hold when it resumes is committed history, and row by row
\* as far as the server can still read it: nothing the child merely drew on the
\* window, and nothing of another process, is below the boundary, or the server
\* would never send the true rows.
ClaimIsHonest ==
  \A c \in Client : epoch[c] = boot =>
    \A a \in Held(store[c]) : a <= ReplayBoundary(store[c]) =>
      a < Committed /\ (a >= OldestIndex => Agrees(c, a))

\* Nothing is under way between the child and the tab.
Settled(c) == /\ link[c] = "acked" /\ c \in attached /\ epoch[c] = boot
              /\ ~dirty /\ frame = NoFrame /\ down[c] = <<>>

ShowsScreen(c) ==
  /\ store[c].alt = (mode = "alt")
  /\ mode = "alt" => store[c].altRows = rows["alt"]
  /\ mode = "main" =>
       /\ store[c].win = [base |-> Committed, height |-> Height]
       /\ \A y \in 1 .. Height :
            /\ Committed + y - 1 \in Held(store[c])
            /\ store[c].lines[Committed + y - 1] = rows["main"][y]

\* A tab with nothing under way shows the screen, whatever was dropped, replayed
\* or written out of date while it connected: a diff never rests on a window the
\* tab was not sent.
ScreenShown == \A c \in Client : Settled(c) => ShowsScreen(c)

\* ... and holds all the history the server can still read, except what it
\* evicted itself.
HistoryComplete ==
  \A c \in Client : Settled(c) =>
    \A a \in OldestIndex .. Committed - 1 :
      a <= store[c].evictedThrough \/ Agrees(c, a)

\* Once the child and the network are quiet, every connected tab comes to show
\* the screen and keeps showing it: no wake-up of the scheduler is lost.
Converges == \A c \in Client : <>[](link[c] = "down" \/ ShowsScreen(c))
=============================================================================
