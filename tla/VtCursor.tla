------------------------------ MODULE VtCursor ------------------------------
(***************************************************************************)
(* vt/csi.go, vt/parse.go, vt/tabstops.go and vt/screen.go as far as they  *)
(* move the cursor: margins, modes, tab stops, saved cursors, the          *)
(* alternate screen and resizes, without what is in the cells.             *)
(*                                                                         *)
(* A screen is a record; each control function is an operator from screen  *)
(* to screen, named for the method that implements it.  The state machine  *)
(* feeds a screen any sequence of them, with resizes in between.           *)
(***************************************************************************)
EXTENDS Integers, FiniteSets

CONSTANTS
  Sizes,       \* <<rows, columns>> a client may ask for, the first size included
  FirstSize,
  Counts,      \* parameters of the relative motions
  Glyphs,      \* widths of the characters printed: 1, 2
  DecModes,    \* DEC private modes the child sets, resets, saves and restores
  TabSize,     \* columns from one default tab stop to the next (8 in the code)
  MaxSettings, \* bound: margins, modes, stops, saves, resets and resizes
  Mishaps      \* which turns of the child or the clients may happen

\* "shrunkAlt":    while the alternate screen is shown, the screen gets shorter
\*                 than the main screen's scroll region is far down;
\* "movedPending": a mode change, a save or a resize while a wrap is pending;
\* "wrapBelow":    text below the scroll region reaches the end of its line.
AllMishaps == {"shrunkAlt", "movedPending", "wrapBelow"}

ASSUME CursorAssumption ==
  /\ Sizes \subseteq (Nat \ {0}) \X (Nat \ {0}) /\ FirstSize \in Sizes
  /\ Counts \subseteq Nat \ {0} /\ Glyphs \subseteq {1, 2}
  /\ DecModes \subseteq {3, 6, 7, 41, 45, 47, 69, 1047, 1048, 1049}
  /\ TabSize \in Nat \ {0} /\ MaxSettings \in Nat
  /\ Mishaps \subseteq AllMishaps

VARIABLES
  s,        \* the screen
  settings  \* bound: settings made
vars == <<s, settings>>

Lesser(a, b)  == IF a < b THEN a ELSE b
Greater(a, b) == IF a > b THEN a ELSE b
Within(x, lo, hi) == Lesser(Greater(x, lo), hi)

NoStops == <<>>             \* tabStops nil: the default stops
NoSave  == [valid |-> FALSE, x |-> 0, y |-> 0, origin |-> FALSE, pendingWrap |-> FALSE]
NoMain  == [valid |-> FALSE, x |-> 0, y |-> 0, top |-> 0, bottom |-> 0]
AltModes == {47, 1047, 1049}

New(rows, cols) ==
  [Height |-> rows, Width |-> cols, curX |-> 0, curY |-> 0, pendingWrap |-> FALSE,
   scrollTop |-> 0, scrollBottom |-> rows - 1, leftMargin |-> 0, rightMargin |-> cols - 1,
   LRMarginMode |-> FALSE, OriginMode |-> FALSE, AutoWrap |-> TRUE, ReverseWrap |-> FALSE,
   moreFix |-> FALSE, LineFeedNewLine |-> FALSE, conformanceLevel |-> 65,
   InAltScreen |-> FALSE, savedMain |-> NoMain, mainSaved |-> NoSave, altSaved |-> NoSave,
   tabStops |-> NoStops, savedModeValues |-> {}]
Init == s = New(FirstSize[1], FirstSize[2]) /\ settings = 0

-----------------------------------------------------------------------------
(* Bounds.                                                                 *)

leftBound(t)  == IF t.LRMarginMode THEN t.leftMargin ELSE 0
rightBound(t) == IF t.LRMarginMode THEN t.rightMargin ELSE t.Width - 1
withinHMargins(t) == leftBound(t) <= t.curX /\ t.curX <= rightBound(t)
withinVMargins(t) == t.scrollTop <= t.curY /\ t.curY <= t.scrollBottom
wrapEdge(t)   == IF withinHMargins(t) THEN rightBound(t) ELSE t.Width - 1
wrapColumn(t) == IF withinHMargins(t) THEN leftBound(t) ELSE 0

Unwrap(t)   == [t EXCEPT !.pendingWrap = FALSE]
At(t, y, x) == [t EXCEPT !.curY = y, !.curX = x]
Column(t, x) == [t EXCEPT !.curX = x]
Row(t, y)   == [t EXCEPT !.curY = y]
clampCursor(t) == At(t, Within(t.curY, 0, t.Height - 1), Within(t.curX, 0, t.Width - 1))

-----------------------------------------------------------------------------
(* Motion.  n is the parameter, at least 1 (paramVal's default).           *)

cursorUp(t, n) ==
  LET low == IF t.curY >= t.scrollTop THEN t.scrollTop ELSE 0
  IN clampCursor(Row(t, Greater(t.curY - n, low)))
\* (The mutant stops at the screen's edge only.)
MutCursorDown(t, n) == clampCursor(Row(t, t.curY + n))
cursorDown(t, n) ==
  LET high == IF t.curY <= t.scrollBottom THEN t.scrollBottom ELSE t.Height - 1
  IN clampCursor(Row(t, Lesser(t.curY + n, high)))
cursorRight(t, n) ==
  LET high == IF t.curX <= rightBound(t) THEN rightBound(t) ELSE t.Width - 1
  IN clampCursor(Column(t, Lesser(t.curX + n, high)))

\* Absolute coordinates, zero-based, relative to the margins in origin mode.
originRow(t, y) == IF t.OriginMode THEN Lesser(y + t.scrollTop, t.scrollBottom)
                   ELSE Lesser(y, t.Height - 1)
originCol(t, x) == IF t.OriginMode THEN Lesser(x + leftBound(t), rightBound(t))
                   ELSE Lesser(x, t.Width - 1)
cursorPosition(t, y, x) == At(t, originRow(t, y), originCol(t, x))

backspace(t) ==
  LET revWrap == t.ReverseWrap /\ t.AutoWrap
      u == Unwrap(t)
  IN IF t.pendingWrap /\ revWrap THEN u
     ELSE IF t.curX > leftBound(t) THEN Column(u, t.curX - 1)
     ELSE IF revWrap /\ t.curY > t.scrollTop THEN At(u, t.curY - 1, rightBound(t))
     ELSE IF revWrap THEN At(u, t.scrollBottom, rightBound(t))
     ELSE IF 0 < t.curX /\ t.curX < leftBound(t) THEN Column(u, t.curX - 1)
     ELSE u
Repeat(op(_), t, n) ==
  LET times[i \in 0 .. n] == IF i = 0 THEN t ELSE op(times[i - 1]) IN times[n]
cursorLeft(t, n) ==
  LET low == IF t.curX >= leftBound(t) THEN leftBound(t) ELSE 0
  IN IF t.ReverseWrap /\ t.AutoWrap THEN Repeat(backspace, t, n)
     ELSE clampCursor(Column(t, Greater(t.curX - n, low)))

\* '\r', and the column rule of NEL.
carriageReturn(t) ==
  Column(t, IF t.curX >= leftBound(t) THEN leftBound(t) ELSE 0)

\* lineDown: at the bottom margin the region scrolls and the cursor stays.
lineDown(t) ==
  IF t.curY = t.scrollBottom \/ t.curY >= t.Height - 1 THEN t
  ELSE Row(t, t.curY + 1)
LF(t) == lineDown(IF t.LineFeedNewLine THEN Column(Unwrap(t), 0) ELSE Unwrap(t))
IND(t) == lineDown(Unwrap(t))
NEL(t) == carriageReturn(lineDown(Unwrap(t)))
RI(t) ==
  IF t.curY = t.scrollTop \/ t.curY = 0 THEN Unwrap(t)
  ELSE Row(Unwrap(t), t.curY - 1)
decBackIndex(t) ==
  IF t.curX = leftBound(t) \/ t.curX = 0 THEN Unwrap(t)
  ELSE Column(Unwrap(t), t.curX - 1)
decForwardIndex(t) ==
  IF t.curX = rightBound(t) \/ t.curX >= t.Width - 1 THEN Unwrap(t)
  ELSE Column(Unwrap(t), t.curX + 1)

\* IL and DL: prepareLineShift takes the cursor to the left margin.
prepareLineShift(t) ==
  IF withinVMargins(t) /\ withinHMargins(t) THEN Column(Unwrap(t), leftBound(t)) ELSE t

-----------------------------------------------------------------------------
(* Tab stops.                                                              *)

DefaultStops(cols) == [x \in 0 .. cols - 1 |-> x > 0 /\ x % TabSize = 0]
Stops(t) == IF t.tabStops = NoStops THEN DefaultStops(t.Width) ELSE t.tabStops
setTabStop(t, on) == [t EXCEPT !.tabStops = [Stops(t) EXCEPT ![t.curX] = on]]
clearAllTabStops(t) == [t EXCEPT !.tabStops = [x \in 0 .. t.Width - 1 |-> FALSE]]
nextTabStop(t, col) ==
  IF t.tabStops = NoStops THEN TabSize * ((col + TabSize) \div TabSize)
  ELSE LET ahead == {x \in col + 1 .. t.Width - 1 : t.tabStops[x]}
       IN IF ahead = {} THEN t.Width ELSE CHOOSE x \in ahead : \A y \in ahead : x <= y
prevTabStop(t, col) ==
  IF t.tabStops = NoStops THEN Greater(TabSize * ((col - 1) \div TabSize), 0)
  ELSE LET behind == {x \in 0 .. col - 1 : t.tabStops[x]}
       IN IF behind = {} THEN 0 ELSE CHOOSE x \in behind : \A y \in behind : x >= y
tabOnce(t) ==
  LET right == rightBound(t)
      next  == nextTabStop(t, t.curX)
  IN IF t.curX <= right /\ next > right THEN Column(t, right)
     ELSE IF next >= t.Width THEN Column(t, t.Width - 1)
     ELSE Column(t, next)
cursorTabForward(t, n)  == Repeat(tabOnce, t, n)
backTab(t) == Column(t, prevTabStop(t, t.curX))
cursorTabBackward(t, n) == Repeat(backTab, t, n)

-----------------------------------------------------------------------------
(* Printing.                                                               *)

\* scrollIfNeeded after a step down: below the bottom margin the region
\* scrolls, and the cursor is put on the margin.
scrollIfNeeded(t) ==
  LET y == IF t.curY > t.scrollBottom THEN t.scrollBottom ELSE t.curY
  IN Row(t, Lesser(y, t.Height - 1))
wrapLine(t) == scrollIfNeeded(At(Unwrap(t), t.curY + 1, wrapColumn(t)))
WrapsFirst(t, w) == t.pendingWrap \/ (w = 2 /\ t.curX >= wrapEdge(t) /\ t.AutoWrap)
\* Both wraps of put: a pending one, and one for a wide character with no room.
makeRoom(t, w) ==
  LET u == IF t.pendingWrap THEN wrapLine(t) ELSE t
  IN IF w = 2 /\ u.curX >= wrapEdge(u) /\ u.AutoWrap THEN wrapLine(u) ELSE u
\* (The mutant does not ask for autowrap.)
MutAdvance(t) ==
  IF t.curX >= t.Width THEN [t EXCEPT !.curX = t.Width - 1, !.pendingWrap = TRUE]
  ELSE IF t.curX >= wrapEdge(t) THEN [t EXCEPT !.curX = wrapEdge(t), !.pendingWrap = TRUE]
  ELSE Column(t, t.curX + 1)
Filled(t, x) == [t EXCEPT !.curX = x, !.pendingWrap = t.AutoWrap]
advance(t) ==
  IF t.curX >= t.Width THEN Filled(t, t.Width - 1)
  ELSE IF t.curX >= wrapEdge(t) THEN Filled(t, wrapEdge(t))
  ELSE Column(t, t.curX + 1)
put(t, w) ==
  LET u == makeRoom(t, w) IN advance(IF w = 2 THEN Column(u, u.curX + 1) ELSE u)

\* '\t': with a wrap pending it does nothing, or honours it (mode 41).
HT(t) ==
  IF ~t.pendingWrap THEN tabOnce(t)
  ELSE IF t.moreFix THEN tabOnce(wrapLine(t))
  ELSE t

-----------------------------------------------------------------------------
(* Margins, modes, saved cursors.                                          *)

\* DECSTBM and DECSLRM, one-based; an empty region is refused.
home(t) == IF t.OriginMode THEN At(t, t.scrollTop, leftBound(t)) ELSE At(t, 0, 0)
setScrollRegion(t, pt, pb) ==
  LET top == Greater(pt - 1, 0)
      bottom == Lesser(pb - 1, t.Height - 1)
  IN IF top >= bottom THEN t
     ELSE home([Unwrap(t) EXCEPT !.scrollTop = top, !.scrollBottom = bottom])
setLeftRightMargins(t, pl, pr) ==
  LET left == Greater(pl - 1, 0)
      right == Lesser(pr - 1, t.Width - 1)
  IN IF left >= right THEN t
     ELSE home([Unwrap(t) EXCEPT !.leftMargin = left, !.rightMargin = right])

saveCursor(t) ==
  LET slot == [valid |-> TRUE, x |-> t.curX, y |-> t.curY, origin |-> t.OriginMode,
               pendingWrap |-> t.pendingWrap]
  IN IF t.InAltScreen THEN [t EXCEPT !.altSaved = slot] ELSE [t EXCEPT !.mainSaved = slot]
\* (The mutant trusts that the screen is as large as it was.)
MutRestore(t) ==
  LET slot == IF t.InAltScreen THEN t.altSaved ELSE t.mainSaved
  IN IF ~slot.valid THEN At(Unwrap(t), 0, 0)
     ELSE [At(t, slot.y, slot.x) EXCEPT !.OriginMode = slot.origin, !.pendingWrap = slot.pendingWrap]
restoreCursor(t) ==
  LET slot == IF t.InAltScreen THEN t.altSaved ELSE t.mainSaved
  IN IF ~slot.valid THEN At(Unwrap(t), 0, 0)
     ELSE [At(t, Lesser(slot.y, t.Height - 1), Lesser(slot.x, t.Width - 1)) EXCEPT
             !.OriginMode = slot.origin, !.pendingWrap = slot.pendingWrap]

FullRegion(t) == [t EXCEPT !.scrollTop = 0, !.scrollBottom = t.Height - 1]
FullWidth(t)  == [t EXCEPT !.leftMargin = 0, !.rightMargin = t.Width - 1]
NoBox(t) == [FullWidth(t) EXCEPT !.LRMarginMode = FALSE]
setColumnMode(t) == At(Unwrap(NoBox(FullRegion(t))), 0, 0)

enterAltScreen(t, mode) ==
  IF t.InAltScreen THEN t
  ELSE LET u == [FullRegion(t) EXCEPT
                   !.InAltScreen = TRUE,
                   !.savedMain = [valid |-> TRUE, x |-> t.curX, y |-> t.curY,
                                  top |-> t.scrollTop, bottom |-> t.scrollBottom]]
       IN IF mode = 1049 THEN At(u, 0, 0) ELSE u
exitAltScreen(t, mode) ==
  IF ~t.InAltScreen \/ ~t.savedMain.valid THEN t
  ELSE LET u == IF mode = 1049 THEN At(t, t.savedMain.y, t.savedMain.x) ELSE t
       IN [At(u, Lesser(u.curY, t.Height - 1), Lesser(u.curX, t.Width - 1)) EXCEPT
             !.scrollTop = t.savedMain.top,
             !.scrollBottom = Lesser(t.savedMain.bottom, t.Height - 1),
             !.InAltScreen = FALSE, !.savedMain = NoMain]

setMode(t, mode) ==
  CASE mode = 3  -> setColumnMode(t)
    [] mode = 6  -> At([t EXCEPT !.OriginMode = TRUE], t.scrollTop, leftBound(t))
    [] mode = 7  -> [t EXCEPT !.AutoWrap = TRUE]
    [] mode = 41 -> [t EXCEPT !.moreFix = TRUE]
    [] mode = 45 -> [t EXCEPT !.ReverseWrap = TRUE]
    [] mode = 69 -> IF t.conformanceLevel >= 64 THEN [t EXCEPT !.LRMarginMode = TRUE] ELSE t
    [] mode \in AltModes -> enterAltScreen(t, mode)
    [] mode = 1048 -> saveCursor(t)
resetMode(t, mode) ==
  CASE mode = 3  -> setColumnMode(t)
    [] mode = 6  -> At([t EXCEPT !.OriginMode = FALSE], 0, 0)
    [] mode = 7  -> [t EXCEPT !.AutoWrap = FALSE]
    [] mode = 41 -> [t EXCEPT !.moreFix = FALSE]
    [] mode = 45 -> [t EXCEPT !.ReverseWrap = FALSE]
    [] mode = 69 -> NoBox(t)
    [] mode \in AltModes -> exitAltScreen(t, mode)
    [] mode = 1048 -> restoreCursor(t)
\* decModeStatus; 3 is tracked but its bit moves no cursor, 1048 is not known.
IsSet(t, mode) ==
  CASE mode = 6  -> t.OriginMode
    [] mode = 7  -> t.AutoWrap
    [] mode = 41 -> FALSE
    [] mode = 45 -> t.ReverseWrap
    [] mode = 69 -> t.LRMarginMode
    [] mode \in AltModes -> t.InAltScreen
    [] mode \in {3, 1048} -> FALSE
xtSaveModes(t, mode) ==
  [t EXCEPT !.savedModeValues = IF IsSet(t, mode) THEN @ \cup {mode} ELSE @ \ {mode}]
xtRestoreModes(t, mode) ==
  IF mode \in t.savedModeValues THEN setMode(t, mode) ELSE resetMode(t, mode)

\* DECSTR keeps the cursor, the tab stops, the conformance level and the screen
\* it is on; RIS keeps the level and what XTSAVE saved.
softReset(t) ==
  [NoBox(FullRegion(Unwrap(t))) EXCEPT
     !.mainSaved = NoSave, !.altSaved = NoSave, !.OriginMode = FALSE, !.AutoWrap = TRUE,
     !.ReverseWrap = FALSE, !.moreFix = FALSE, !.LineFeedNewLine = FALSE]
RIS(t) ==
  [At(softReset(t), 0, 0) EXCEPT !.InAltScreen = FALSE, !.savedMain = NoMain, !.tabStops = NoStops]
DECALN(t) == setColumnMode(t)

\* Resize.  Growing pins an alternate screen to the bottom; both margins go;
\* stops are kept, and new columns get the default ones.
Resize(t, rows, cols) ==
  LET y == IF t.InAltScreen /\ rows > t.Height THEN t.curY + rows - t.Height ELSE t.curY
      stops == IF t.tabStops = NoStops \/ cols = t.Width THEN t.tabStops
               ELSE [x \in 0 .. cols - 1 |-> IF x < t.Width THEN t.tabStops[x]
                                             ELSE DefaultStops(cols)[x]]
  IN FullWidth(FullRegion(
       [t EXCEPT !.Height = rows, !.Width = cols, !.tabStops = stops,
                 !.curY = Lesser(y, rows - 1), !.curX = Lesser(@, cols - 1),
                 !.savedMain.x = Lesser(@, cols - 1), !.savedMain.y = Lesser(@, rows - 1)]))

-----------------------------------------------------------------------------
(* What the child and the clients may do.                                  *)

\* Relative motion, a deferred wrap cancelled first where csiClearsWrap says so.
Relative(t, n) ==
  LET u == Unwrap(t)
  IN {cursorUp(u, n), cursorDown(u, n), cursorRight(u, n), cursorLeft(u, n),
      Column(cursorDown(u, n), leftBound(t)), Column(cursorUp(u, n), leftBound(t)),
      cursorTabForward(u, n), cursorTabBackward(u, n),
      clampCursor(Column(u, u.curX + n))}
Controls(t) ==
  {backspace(t), HT(t), LF(t), carriageReturn(Unwrap(t)), IND(t), NEL(t), RI(t),
   decBackIndex(t), decForwardIndex(t), prepareLineShift(t)}
Down(t) == {LF(t), IND(t), NEL(t)} \cup {cursorDown(Unwrap(t), n) : n \in Counts}

Move ==
  /\ \/ \E n \in Counts : s' \in Relative(s, n)
     \/ s' \in Controls(s)
  /\ s.pendingWrap /\ s.moreFix /\ s.curY > s.scrollBottom => "wrapBelow" \in Mishaps
  /\ UNCHANGED settings

\* CUP and HVP, CHA and HPA, VPA.
Position ==
  /\ \E y \in 0 .. s.Height, x \in 0 .. s.Width :
       s' \in {cursorPosition(Unwrap(s), y, x), Column(Unwrap(s), originCol(s, x)),
               Row(Unwrap(s), originRow(s, y))}
  /\ UNCHANGED settings

PrintGlyph ==
  /\ \E w \in Glyphs :
       /\ s' = put(s, w)
       /\ s.curY > s.scrollBottom /\ WrapsFirst(s, w) => "wrapBelow" \in Mishaps
  /\ UNCHANGED settings

Setting == settings < MaxSettings /\ settings' = settings + 1
\* What moves the cursor or the edge it is at, and leaves a pending wrap pending.
Careful == s.pendingWrap => "movedPending" \in Mishaps

Margins ==
  /\ \/ \E t \in 1 .. s.Height, b \in 1 .. s.Height : s' = setScrollRegion(s, t, b)
     \/ /\ s.LRMarginMode
        /\ \E l \in 1 .. s.Width, r \in 1 .. s.Width : s' = setLeftRightMargins(s, l, r)
  /\ Setting

Tabs ==
  /\ s' \in {setTabStop(s, TRUE), setTabStop(s, FALSE), clearAllTabStops(s)}
  /\ Setting

Modes ==
  /\ \/ \E mode \in DecModes :
          s' \in {setMode(s, mode), resetMode(s, mode),
                  xtSaveModes(s, mode), xtRestoreModes(s, mode)}
     \/ \E on \in BOOLEAN : s' = [s EXCEPT !.LineFeedNewLine = on]
     \/ \E level \in {62, 65} : s' = [s EXCEPT !.conformanceLevel = level]
  /\ Careful /\ Setting

SaveRestore ==
  /\ s' \in {saveCursor(s), restoreCursor(s), restoreCursor(Unwrap(s))}
  /\ Careful /\ Setting

Reset == s' \in {softReset(s), RIS(s), DECALN(s)} /\ Setting

ClientResizes ==
  /\ \E size \in Sizes :
       /\ s' = Resize(s, size[1], size[2])
       /\ s.InAltScreen /\ s.savedMain.top >= size[1] => "shrunkAlt" \in Mishaps
  /\ Careful /\ UNCHANGED settings

Next ==
  \/ Move \/ Position \/ PrintGlyph
  \/ Margins \/ Tabs \/ Modes \/ SaveRestore \/ Reset \/ ClientResizes
Spec == Init /\ [][Next]_vars

-----------------------------------------------------------------------------
(* Properties.                                                             *)

\* The cursor and all margins are on the screen and the tab stops cover its
\* width, whatever is set, saved on one screen and restored on another, and
\* resized in between: cells are indexed by them without a further check.  A
\* main screen is kept exactly while the alternate one is shown.
Slot == [valid : BOOLEAN, x : Nat, y : Nat, origin : BOOLEAN, pendingWrap : BOOLEAN]
OnScreen ==
  /\ <<s.Height, s.Width>> \in Sizes /\ {s.mainSaved, s.altSaved} \subseteq Slot
  /\ s.InAltScreen <=> s.savedMain.valid
  /\ s.curX \in 0 .. s.Width - 1 /\ s.curY \in 0 .. s.Height - 1
  /\ 0 <= s.scrollTop /\ s.scrollTop <= s.scrollBottom /\ s.scrollBottom < s.Height
  /\ 0 <= s.leftMargin /\ s.leftMargin <= s.rightMargin /\ s.rightMargin < s.Width
  /\ s.tabStops = NoStops \/ DOMAIN s.tabStops = 0 .. s.Width - 1

\* A wrap is pending only where the last character filled its line, and with
\* autowrap off printing stays on its row ("printing at the right margin sets
\* it; any cursor motion cancels it", csi.go:26-27).
PendingAtEdge ==
  /\ s.pendingWrap => s.curX = wrapEdge(s)
  /\ ~s.AutoWrap => \A w \in Glyphs : put(s, w).curY = s.curY

\* The scroll region confines: from inside it no printing and no relative
\* motion leaves it, and from below it neither printing nor a step down leads
\* back up into it (csi.go:298-323).
RegionConfines ==
  LET printed == {put(s, w) : w \in Glyphs}
      moved   == Controls(s) \cup UNION {Relative(s, n) : n \in Counts}
  IN /\ withinVMargins(s) => \A t \in printed \cup moved : withinVMargins(t)
     /\ s.curY > s.scrollBottom =>
          /\ \A t \in Down(s) : t.curY >= s.curY
          /\ \A w \in Glyphs :
               put(s, w).curY >= s.curY \/ (WrapsFirst(s, w) /\ "wrapBelow" \notin Mishaps)
=============================================================================
