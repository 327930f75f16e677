------------------------------- MODULE VtGrid -------------------------------
(***************************************************************************)
(* The rows of the screen under vt/csi.go, vt/screen.go and vt/wire.go:    *)
(* which cells an editing control moves or blanks, and the per-row flag    *)
(* wrapped, by which the URL scan joins a line that autowrap spread over   *)
(* several rows, the last of them drained into history perhaps.            *)
(*                                                                         *)
(* What a cell holds decides nothing here, so the state keeps no text.     *)
(* Each edit is an operator over any contents, and the properties apply it *)
(* to contents in which every cell is told apart.                          *)
(***************************************************************************)
EXTENDS VtCursor, Sequences

CONSTANTS
  MaxAutolinkRows, \* rows joined in one URL scan (4 in the code)
  MaxWrapped       \* bound: settings made by the time a line wraps, and after it
ASSUME GridAssumption == MaxAutolinkRows \in Nat \ {0, 1} /\ MaxWrapped \in Nat

VARIABLE page  \* the rows of both screens and what is kept of the drained ones
gridVars == <<s, settings, page>>

\* A row carries its flag and a part the code does not have: of the rows that
\* one wrap joins, any wrap, the upper and the lower are followed through all
\* that comes, until one of them is gone or joined to another row.
Fresh == [wrapped |-> FALSE, part |-> "none"]
FreshRows(n) == [y \in 0 .. n - 1 |-> Fresh]
\* Drained and saved rows are kept without their flags.
Flagless(row) == [row EXCEPT !.wrapped = FALSE]
Continues(lower, upper) == upper.part = "upper" /\ lower.part = "lower"
NoRows == <<>>

GridInit ==
  /\ Init
  /\ page = [rows |-> FreshRows(FirstSize[1]), saved |-> NoRows, savedWrapped |-> NoRows,
             tail |-> <<>>, last |-> Fresh]

-----------------------------------------------------------------------------
(* Whole rows and boxes of cells.  f and g map row numbers to rows.        *)

Rows(t) == 0 .. t.Height - 1
Cols(t) == 0 .. t.Width - 1
ShiftUp(f, top, bottom, new) ==
  [y \in DOMAIN f |-> IF y = bottom THEN new
                      ELSE IF top <= y /\ y < bottom THEN f[y + 1] ELSE f[y]]
ShiftDown(f, top, bottom, new) ==
  [y \in DOMAIN f |-> IF y = top THEN new
                      ELSE IF top < y /\ y <= bottom THEN f[y - 1] ELSE f[y]]

FullBox(t) == leftBound(t) = 0 /\ rightBound(t) = t.Width - 1
BlankCell == <<>>
\* The cells of g in the rectangle become src(y, x); BlankCell where src is off it.
Within4(y, x, y1, x1, y2, x2) == y1 <= y /\ y <= y2 /\ x1 <= x /\ x <= x2
MoveBox(t, g, y1, x1, y2, x2, dy, dx) ==
  [y \in Rows(t) |-> [x \in Cols(t) |->
     IF ~Within4(y, x, y1, x1, y2, x2) THEN g[y][x]
     ELSE IF Within4(y + dy, x + dx, y1, x1, y2, x2) THEN g[y + dy][x + dx]
     ELSE BlankCell]]
eraseRegion(t, g, y1, x1, y2, x2) ==
  [y \in Rows(t) |-> [x \in Cols(t) |->
     IF Within4(y, x, y1, x1, y2, x2) THEN BlankCell ELSE g[y][x]]]

insertChars(t, g, n) ==
  IF ~withinHMargins(t) THEN g
  ELSE MoveBox(t, g, t.curY, t.curX, t.curY, rightBound(t), 0, -n)
\* (The mutant takes the cell after the right one.)
MutDeleteChars(t, g, n) ==
  IF ~withinHMargins(t) THEN g
  ELSE MoveBox(t, g, t.curY, t.curX, t.curY, rightBound(t), 0, n + 1)
deleteChars(t, g, n) ==
  IF ~withinHMargins(t) THEN g
  ELSE MoveBox(t, g, t.curY, t.curX, t.curY, rightBound(t), 0, n)
insertColumns(t, g, n) ==
  IF ~(withinVMargins(t) /\ withinHMargins(t)) THEN g
  ELSE MoveBox(t, g, t.scrollTop, t.curX, t.scrollBottom, rightBound(t), 0, -n)
deleteColumns(t, g, n) ==
  IF ~(withinVMargins(t) /\ withinHMargins(t)) THEN g
  ELSE MoveBox(t, g, t.scrollTop, t.curX, t.scrollBottom, rightBound(t), 0, n)
insertLines(t, g, n) ==
  IF ~(withinVMargins(t) /\ withinHMargins(t)) THEN g
  ELSE MoveBox(t, g, t.curY, leftBound(t), t.scrollBottom, rightBound(t), -n, 0)
\* (The mutant moves the rows under the scroll region too.)
MutDeleteLines(t, g, n) ==
  IF ~(withinVMargins(t) /\ withinHMargins(t)) THEN g
  ELSE MoveBox(t, g, t.curY, leftBound(t), t.Height - 1, rightBound(t), n, 0)
deleteLines(t, g, n) ==
  IF ~(withinVMargins(t) /\ withinHMargins(t)) THEN g
  ELSE MoveBox(t, g, t.curY, leftBound(t), t.scrollBottom, rightBound(t), n, 0)
ScrollBox(t, g, dy, dx) ==
  MoveBox(t, g, t.scrollTop, leftBound(t), t.scrollBottom, rightBound(t), dy, dx)
scrollUp(t, g, n)   == ScrollBox(t, g, n, 0)
scrollDown(t, g, n) == ScrollBox(t, g, -n, 0)
scrollColumnsLeft(t, g)  == ScrollBox(t, g, 0, 1)
scrollColumnsRight(t, g) == ScrollBox(t, g, 0, -1)
\* SL and SR ignore the left and right margins.
shiftLeft(t, g, n)  == MoveBox(t, g, t.scrollTop, 0, t.scrollBottom, t.Width - 1, 0, n)
shiftRight(t, g, n) == MoveBox(t, g, t.scrollTop, 0, t.scrollBottom, t.Width - 1, 0, -n)

eraseInDisplay(t, g, mode) ==
  CASE mode = 0 -> eraseRegion(t, eraseRegion(t, g, t.curY, t.curX, t.curY, t.Width - 1),
                               t.curY + 1, 0, t.Height - 1, t.Width - 1)
    [] mode = 1 -> eraseRegion(t, eraseRegion(t, g, 0, 0, t.curY - 1, t.Width - 1),
                               t.curY, 0, t.curY, t.curX)
    [] mode = 2 -> eraseRegion(t, g, 0, 0, t.Height - 1, t.Width - 1)
    [] mode = 3 -> g
eraseInLine(t, g, mode) ==
  LET from == IF mode = 0 THEN t.curX ELSE 0
      to   == IF mode = 1 THEN t.curX ELSE t.Width - 1
  IN eraseRegion(t, g, t.curY, from, t.curY, to)
eraseChars(t, g, n) ==
  eraseRegion(t, g, t.curY, t.curX, t.curY, Lesser(t.curX + n - 1, t.Width - 1))

\* Rectangles: one-based corners, 0 for the default, relative to the margins
\* and confined to them in origin mode.
\* (The mutant has the region's rows only, as the comment at csi.go:464-465 says.)
MutPage(t) ==
  [top |-> IF t.OriginMode THEN t.scrollTop ELSE 0, left |-> 0,
   bottom |-> IF t.OriginMode THEN t.scrollBottom ELSE t.Height - 1, right |-> t.Width - 1]
Page(t) ==
  IF t.OriginMode THEN [top |-> t.scrollTop, left |-> leftBound(t),
                        bottom |-> t.scrollBottom, right |-> rightBound(t)]
  ELSE [top |-> 0, left |-> 0, bottom |-> t.Height - 1, right |-> t.Width - 1]
RowOf(t, v) == Within(Greater(v, 1) - 1 + Page(t).top, Page(t).top, Page(t).bottom)
ColOf(t, v) == Within(Greater(v, 1) - 1 + Page(t).left, Page(t).left, Page(t).right)
\* (The mutant takes the screen's corner for a default one.)
MutRectBounds(t, pt, pl, pb, pr) ==
  [y1 |-> RowOf(t, pt), x1 |-> ColOf(t, pl),
   y2 |-> IF pb >= 1 THEN RowOf(t, pb) ELSE t.Height - 1,
   x2 |-> IF pr >= 1 THEN ColOf(t, pr) ELSE t.Width - 1]
rectBounds(t, pt, pl, pb, pr) ==
  [y1 |-> RowOf(t, pt), x1 |-> ColOf(t, pl),
   y2 |-> IF pb >= 1 THEN RowOf(t, pb) ELSE Page(t).bottom,
   x2 |-> IF pr >= 1 THEN ColOf(t, pr) ELSE Page(t).right]
fillRect(t, g, r, cell) ==
  [y \in Rows(t) |-> [x \in Cols(t) |->
     IF Within4(y, x, r.y1, r.x1, r.y2, r.x2) THEN cell ELSE g[y][x]]]
eraseRect(t, g, r) == eraseRegion(t, g, r.y1, r.x1, r.y2, r.x2)
\* Through a buffer, so source and destination may overlap; cut at the screen.
copyRect(t, g, r, dtop, dleft) ==
  LET dy == RowOf(t, dtop) - r.y1
      dx == ColOf(t, dleft) - r.x1
  IN [y \in Rows(t) |-> [x \in Cols(t) |->
        IF Within4(y - dy, x - dx, r.y1, r.x1, r.y2, r.x2) THEN g[y - dy][x - dx]
        ELSE g[y][x]]]

-----------------------------------------------------------------------------
(* The rows' flags.  t is the screen the control was given, p the page.    *)

LastOf(seq, n) == IF Len(seq) <= n THEN seq ELSE SubSeq(seq, Len(seq) - n + 1, Len(seq))
\* Row 0 goes to history; its text is kept while row 1 continues it.  What the
\* alternate screen drains is thrown away.  A row drained from above a row that
\* does not continue it has ended its line for good.
\* (The mutant asks whether the drained row is itself a continuation.)
MutDrain(t, p) ==
  IF t.InAltScreen THEN p
  ELSE [p EXCEPT !.last = IF t.Height > 1 /\ Continues(p.rows[1], p.rows[0])
                          THEN Flagless(p.rows[0]) ELSE Fresh,
                 !.tail = IF p.rows[0].wrapped
                          THEN LastOf(Append(@, Flagless(p.rows[0])), MaxAutolinkRows - 1)
                          ELSE <<>>]
drainTopRow(t, p) ==
  IF t.InAltScreen THEN p
  ELSE [p EXCEPT !.last = IF t.Height > 1 /\ Continues(p.rows[1], p.rows[0])
                          THEN Flagless(p.rows[0]) ELSE Fresh,
                 !.tail = IF t.Height > 1 /\ p.rows[1].wrapped
                          THEN LastOf(Append(@, Flagless(p.rows[0])), MaxAutolinkRows - 1)
                          ELSE <<>>]
FullScreen(t) == t.scrollTop = 0 /\ t.scrollBottom = t.Height - 1
scrollUpOnce(t, p) ==
  IF ~FullBox(t) THEN p
  ELSE LET q == IF FullScreen(t) THEN drainTopRow(t, p) ELSE p
       IN [q EXCEPT !.rows = ShiftUp(@, t.scrollTop, t.scrollBottom, Fresh)]
scrollDownOnce(t, p) ==
  IF ~FullBox(t) THEN p
  ELSE [p EXCEPT !.rows = ShiftDown(@, t.scrollTop, t.scrollBottom, Fresh)]
lineDownRows(t, p) ==
  IF t.curY = t.scrollBottom /\ withinHMargins(t) THEN scrollUpOnce(t, p) ELSE p
insertLineOnce(t, p) ==
  IF ~(withinVMargins(t) /\ withinHMargins(t) /\ FullBox(t)) THEN p
  ELSE [p EXCEPT !.rows = ShiftDown(@, t.curY, t.scrollBottom, Fresh)]
deleteLineOnce(t, p) ==
  IF ~(withinVMargins(t) /\ withinHMargins(t) /\ FullBox(t)) THEN p
  ELSE [p EXCEPT !.rows = ShiftUp(@, t.curY, t.scrollBottom, Fresh)]

Parts(p) == {p.rows[y].part : y \in DOMAIN p.rows} \cup {p.saved[y].part : y \in DOMAIN p.saved}
            \cup {p.last.part}
Followed(p) == {"upper", "lower"} \subseteq Parts(p)
Unfollow(f) == [y \in DOMAIN f |-> [f[y] EXCEPT !.part = "none"]]
\* Both rows are followed or neither.
Tidy(p) ==
  IF Followed(p) THEN p
  ELSE [p EXCEPT !.rows = Unfollow(@), !.saved = Unfollow(@), !.tail = Unfollow(@), !.last.part = "none"]

\* One wrap of put (and of a tab under mode 41): scroll if the step goes past
\* the bottom margin, then markWrapContinuation on the row the cursor is on,
\* which is now a continuation of the row it came from, and of no other.  The
\* two are followed from here if follow is set.
wrapRows(t, p, follow) ==
  LET scrolls == t.curY + 1 > t.scrollBottom
      q    == IF scrolls THEN scrollUpOnce(t, p) ELSE p
      to   == wrapLine(t).curY
      gone == scrolls /\ FullBox(t) /\ t.curY = t.scrollTop
      from == IF scrolls /\ FullBox(t) /\ withinVMargins(t) THEN t.curY - 1 ELSE t.curY
      Not(part, half) == IF part = half THEN "none" ELSE part
      rows == [q.rows EXCEPT ![to].part = IF follow THEN "lower" ELSE Not(@, "lower"),
                             ![to].wrapped = TRUE]
  IN IF ~FullBox(t) THEN q
     ELSE IF gone THEN [q EXCEPT !.rows = rows,
                          !.last.part = IF follow /\ FullScreen(t) /\ ~t.InAltScreen THEN "upper" ELSE @]
     ELSE [q EXCEPT !.rows = [rows EXCEPT ![from].part = IF follow THEN "upper" ELSE Not(@, "upper")]]
\* A tab scrolls alike and marks nothing.
tabRows(t, p) == IF t.curY + 1 > t.scrollBottom THEN scrollUpOnce(t, p) ELSE p

\* ED 2 and RIS sever the rows from each other and from history.
clearWrapState(t, p) == [p EXCEPT !.rows = FreshRows(t.Height), !.tail = <<>>, !.last = Fresh]
\* ED 3: the history the tail describes is gone.
forgetHistory(p) == [p EXCEPT !.tail = <<>>, !.last = Fresh]

enterAltRows(t, p) ==
  IF t.InAltScreen THEN p
  ELSE [p EXCEPT !.saved = [y \in Rows(t) |-> Flagless(p.rows[y])],
                 !.savedWrapped = [y \in Rows(t) |-> p.rows[y].wrapped],
                 !.rows = FreshRows(t.Height)]
\* (The mutant does not bring the flags back.)
MutExitAlt(t, p) ==
  IF ~t.InAltScreen THEN p
  ELSE [p EXCEPT !.rows = [y \in Rows(t) |-> IF y \in DOMAIN p.saved THEN p.saved[y] ELSE Fresh],
                 !.saved = NoRows, !.savedWrapped = NoRows]
exitAltRows(t, p) ==
  IF ~t.InAltScreen THEN p
  ELSE [p EXCEPT !.rows = [y \in Rows(t) |->
                    [(IF y \in DOMAIN p.saved THEN p.saved[y] ELSE Fresh) EXCEPT
                       !.wrapped = y \in DOMAIN p.savedWrapped /\ p.savedWrapped[y]]],
                 !.saved = NoRows, !.savedWrapped = NoRows]

\* Growth goes above an alternate screen's rows and below the main screen's;
\* shrinking drops the lowest rows; the saved main rows follow, not their flags.
\* (The mutant pins the saved main rows to the bottom as well.)
MutResize(t, p, rows) ==
  LET grow == Greater(rows - t.Height, 0)
      skip == IF t.InAltScreen THEN grow ELSE 0
      old(f, y) == IF y \in DOMAIN f THEN f[y] ELSE Fresh
  IN [p EXCEPT !.rows = [y \in 0 .. rows - 1 |-> old(p.rows, y - skip)],
               !.saved = IF @ = NoRows THEN @ ELSE [y \in 0 .. rows - 1 |-> old(p.saved, y - skip)]]
resizeHeight(t, p, rows) ==
  LET grow == Greater(rows - t.Height, 0)
      skip == IF t.InAltScreen THEN grow ELSE 0
      old(f, y) == IF y \in DOMAIN f THEN f[y] ELSE Fresh
  IN [p EXCEPT !.rows = [y \in 0 .. rows - 1 |-> old(p.rows, y - skip)],
               !.saved = IF @ = NoRows THEN @ ELSE [y \in 0 .. rows - 1 |-> old(p.saved, y)]]

-----------------------------------------------------------------------------
(* The controls, with what each does to the cursor and to the rows.        *)

Becomes(p) == page' = Tidy(p)
GMove ==
  /\ \/ s' = LF(s) /\ Becomes(lineDownRows(IF s.LineFeedNewLine THEN Column(s, 0) ELSE s, page))
     \/ s' = NEL(s) /\ Becomes(lineDownRows(s, page))
     \/ /\ s' = RI(s)
        /\ Becomes(IF s.curY = s.scrollTop /\ withinHMargins(s) THEN scrollDownOnce(s, page) ELSE page)
     \/ /\ s' = HT(s)
        /\ Becomes(IF s.pendingWrap /\ s.moreFix THEN tabRows(s, page) ELSE page)
  /\ UNCHANGED settings
GPosition ==
  /\ \E y \in Rows(s), x \in Cols(s) : s' = cursorPosition(Unwrap(s), y, x)
  /\ UNCHANGED <<settings, page>>
GPrint ==
  \E w \in Glyphs, follow \in BOOLEAN :
    LET t1 == IF s.pendingWrap THEN wrapLine(s) ELSE s
        p1 == IF s.pendingWrap THEN wrapRows(s, page, follow) ELSE page
        p2 == IF w = 2 /\ t1.curX >= wrapEdge(t1) /\ t1.AutoWrap THEN wrapRows(t1, p1, follow)
              ELSE p1
    IN /\ follow => ~Followed(page)
       /\ WrapsFirst(s, w) => settings <= MaxWrapped
       /\ s' = put(s, w) /\ Becomes(p2) /\ UNCHANGED settings
\* Counts above one repeat the step.
GLines ==
  /\ \/ s' = prepareLineShift(s) /\ Becomes(insertLineOnce(s, page))
     \/ s' = prepareLineShift(s) /\ Becomes(deleteLineOnce(s, page))
     \/ s' = s /\ Becomes(scrollUpOnce(s, page))
     \/ s' = s /\ Becomes(scrollDownOnce(s, page))
  /\ UNCHANGED settings
GErase ==
  /\ \/ s' = s /\ Becomes(clearWrapState(s, page))
     \/ s' = s /\ Becomes(forgetHistory(page))
     \/ s' = RIS(s) /\ Becomes([clearWrapState(s, page) EXCEPT !.saved = NoRows, !.savedWrapped = NoRows])
  /\ UNCHANGED settings
Apart == (\A y \in Rows(s) : ~page.rows[y].wrapped) /\ page.saved = NoRows /\ page.tail = <<>>
GSetting == settings < (IF Apart THEN MaxSettings ELSE MaxWrapped) /\ Setting
\* Bound: the alternate screen is entered from column 0 or with a wrap pending.
\* No row depends on where the cursor was, and after the return it may go anywhere.
FromLeft == s.curX = 0 \/ s.pendingWrap
GMargins == Margins /\ GSetting /\ UNCHANGED page
GModes ==
  /\ \E mode \in DecModes :
       \/ /\ s' = setMode(s, mode)
          /\ Becomes(IF mode \in AltModes THEN enterAltRows(s, page) ELSE page)
          /\ mode \in AltModes => FromLeft
       \/ /\ s' = resetMode(s, mode)
          /\ Becomes(IF mode \in AltModes THEN exitAltRows(s, page) ELSE page)
  /\ GSetting
GResize ==
  /\ \E size \in Sizes :
       /\ s' = Resize(s, size[1], size[2])
       /\ Becomes(resizeHeight(s, page, size[1]))
       /\ s.InAltScreen /\ s.savedMain.top >= size[1] => "shrunkAlt" \in Mishaps
  /\ UNCHANGED settings

GridNext ==
  \/ GMove \/ GPosition \/ GPrint \/ GLines \/ GErase \/ GMargins \/ GModes \/ GResize
GridSpec == GridInit /\ [][GridNext]_gridVars

-----------------------------------------------------------------------------
(* The URL scan.                                                           *)

chainStart(p, y) == CHOOSE a \in 0 .. y :
  /\ \A r \in a + 1 .. y : p.rows[r].wrapped
  /\ a = 0 \/ ~p.rows[a].wrapped
chainEnd(p, y) == CHOOSE b \in y .. Cardinality(DOMAIN p.rows) - 1 :
  /\ \A r \in y + 1 .. b : p.rows[r].wrapped
  /\ b + 1 \notin DOMAIN p.rows \/ ~p.rows[b + 1].wrapped
\* The window of at most MaxAutolinkRows rows round the focus, the first and
\* last index of it: cut at the farther end, at the newer one on a tie.
boundChain(n, focus) ==
  LET cut[w \in Nat \X Nat] ==
        IF w[2] - w[1] < MaxAutolinkRows THEN w
        ELSE IF focus - w[1] > w[2] - focus THEN cut[<<w[1] + 1, w[2]>>]
        ELSE cut[<<w[1], w[2] - 1>>]
  IN cut[<<1, n>>]
chainRows(p, y) ==
  LET a == chainStart(p, y)
      b == chainEnd(p, y)
      tail == IF a = 0 /\ p.rows[0].wrapped THEN p.tail ELSE <<>>
      all  == tail \o [i \in 1 .. b - a + 1 |-> p.rows[a + i - 1]]
      w    == boundChain(Len(all), Len(tail) + y - a + 1)
  IN SubSeq(all, w[1], w[2])

-----------------------------------------------------------------------------
(* Properties.                                                             *)

\* Two rows that one autowrapped line spreads over are joined in the URL scan
\* of the lower, wherever scrolls, insertions, deletions, resizes and screen
\* switches took them, and also when the upper has been drained into history:
\* "a missing true would break a real wrapped URL" (screen.go:47-55).
ChainKept ==
  \A y \in Rows(s) :
    LET upper == IF y = 0 THEN page.last ELSE page.rows[y - 1]
        chain == chainRows(page, y)
    IN Continues(page.rows[y], upper) /\ (y = 0 => ~s.InAltScreen) =>
         \E i \in 1 .. Len(chain) - 1 : chain[i] = upper /\ chain[i + 1] = page.rows[y]

\* Flags and a pending wrap take no part in what follows, so it is enough to
\* look at the screens that have none.
Pristine == page.rows = FreshRows(s.Height) /\ page.tail = <<>> /\ page.saved = NoRows /\ ~s.pendingWrap
Told(t) == [y \in Rows(t) |-> [x \in Cols(t) |-> <<y, x>>]]
Changed(t, g) == {<<y, x>> \in Rows(t) \X Cols(t) : g[y][x] # <<y, x>>}
Box(y1, x1, y2, x2) == (y1 .. y2) \X (x1 .. x2)

\* An edit inside margins leaves every cell outside them alone, and one that
\* starts at the cursor every cell before it.
EditsInMargins ==
  Pristine =>
    LET g == Told(s)
        region == Box(s.scrollTop, leftBound(s), s.scrollBottom, rightBound(s))
        after  == Box(s.curY, s.curX, s.curY, rightBound(s))
        below  == Box(s.curY, leftBound(s), s.scrollBottom, rightBound(s))
    IN \A n \in Counts :
         /\ Changed(s, insertChars(s, g, n)) \cup Changed(s, deleteChars(s, g, n)) \subseteq after
         /\ Changed(s, insertLines(s, g, n)) \cup Changed(s, deleteLines(s, g, n)) \subseteq below
         /\ UNION {Changed(s, h) : h \in
              {scrollUp(s, g, n), scrollDown(s, g, n), insertColumns(s, g, n),
               deleteColumns(s, g, n), scrollColumnsLeft(s, g), scrollColumnsRight(s, g)}}
              \subseteq region
         /\ Changed(s, eraseInDisplay(s, g, 0)) \cap Changed(s, eraseInDisplay(s, g, 1))
              = {<<s.curY, s.curX>>}
         /\ Changed(s, eraseInDisplay(s, g, 0)) \cup Changed(s, eraseInDisplay(s, g, 1))
              = Changed(s, eraseInDisplay(s, g, 2))
         /\ Changed(s, eraseChars(s, g, n)) \subseteq Changed(s, eraseInLine(s, g, 0))

\* What an insertion moved away a deletion at the same place moves back, except
\* for what the margin had pushed out.
EditsUndone ==
  Pristine =>
    LET g == Told(s)
        Undone(h) == \A y \in Rows(s), x \in Cols(s) : h[y][x] \in {<<y, x>>, BlankCell}
        Lost(h)   == Cardinality({c \in Rows(s) \X Cols(s) : h[c[1]][c[2]] = BlankCell})
        width  == rightBound(s) - s.curX + 1
        height == s.scrollBottom - s.curY + 1
        inside == withinVMargins(s) /\ withinHMargins(s)
    IN \A n \in Counts :
         LET chars == deleteChars(s, insertChars(s, g, n), n)
             lines == deleteLines(s, insertLines(s, g, n), n)
             cols  == deleteColumns(s, insertColumns(s, g, n), n)
             rolls == scrollUp(s, scrollDown(s, g, n), n)
         IN /\ Undone(chars) /\ Undone(lines) /\ Undone(cols) /\ Undone(rolls)
            /\ withinHMargins(s) => Lost(chars) = Lesser(n, width)
            /\ inside => /\ Lost(lines) = Lesser(n, height) * (rightBound(s) - leftBound(s) + 1)
                         /\ Lost(cols) = Lesser(n, width) * (s.scrollBottom - s.scrollTop + 1)

\* Whatever corners a rectangle is given, it lies on the screen and, in origin
\* mode, inside all four margins; a copy of it writes only cells of its own size
\* from where it was sent, none of them off the screen.
RectsInBounds ==
  Pristine =>
    LET g == Told(s)
    IN \A pt \in {0, 2, s.Height + 1}, pl \in {0, 2, s.Width + 1},
          pb \in {0, 1, s.Height + 1}, pr \in {0, 1, s.Width + 1} :
         LET r == rectBounds(s, pt, pl, pb, pr)
             rect == Box(r.y1, r.x1, r.y2, r.x2)
         IN /\ Changed(s, eraseRect(s, g, r)) = rect
            /\ s.OriginMode => rect \subseteq Box(s.scrollTop, leftBound(s), s.scrollBottom, rightBound(s))
            /\ \A d \in {1, 2} : Changed(s, copyRect(s, g, r, d, d)) \subseteq
                 {<<c[1] + RowOf(s, d) - r.y1, c[2] + ColOf(s, d) - r.x1>> : c \in rect}

\* No edit reaches a cell it has no business with, not the line edits past the
\* margins or before the cursor, nor the rectangle edits past their corners; and
\* what an insertion moves its deletion puts back.
EditsExact == EditsInMargins /\ RectsInBounds /\ EditsUndone

=============================================================================
