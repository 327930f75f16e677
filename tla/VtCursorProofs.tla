--------------------------- MODULE VtCursorProofs ---------------------------
(***************************************************************************)
(* Proofs about VtCursor, for every set of sizes, every tab width and any  *)
(* sequence of controls: the cursor and the margins stay on the screen, a  *)
(* wrap is pending only at the edge, and the scroll region confines.       *)
(***************************************************************************)
EXTENDS VtCursor, WellFoundedInduction, TLAPS

\* Hidden from the provers, which mix truth values and records badly.
Flag == BOOLEAN
LEMMA Flags == TRUE \in Flag /\ FALSE \in Flag
BY DEF Flag

Saves == [valid : Flag, x : Nat, y : Nat, origin : Flag, pendingWrap : Flag]
Mains == [valid : Flag, x : Int, y : Int, top : Int, bottom : Int]
StopTables == {NoStops} \cup UNION {[0 .. n - 1 -> Flag] : n \in Nat}
Screens ==
  [Height : Nat, Width : Nat, curX : Int, curY : Int, pendingWrap : Flag,
   scrollTop : Int, scrollBottom : Int, leftMargin : Int, rightMargin : Int,
   LRMarginMode : Flag, OriginMode : Flag, AutoWrap : Flag, ReverseWrap : Flag,
   moreFix : Flag, LineFeedNewLine : Flag, conformanceLevel : Nat,
   InAltScreen : Flag, savedMain : Mains, mainSaved : Saves, altSaved : Saves,
   tabStops : StopTables, savedModeValues : SUBSET DecModes]

\* The margins are on the screen, in order.
Boxed(t) ==
  /\ t.Height \in Nat \ {0} /\ t.Width \in Nat \ {0}
  /\ 0 <= t.scrollTop /\ t.scrollTop <= t.scrollBottom /\ t.scrollBottom < t.Height
  /\ 0 <= t.leftMargin /\ t.leftMargin <= t.rightMargin /\ t.rightMargin < t.Width
\* The cursor is.
Inside(t) == t.curX \in 0 .. t.Width - 1 /\ t.curY \in 0 .. t.Height - 1
\* Explicit stops cover the width.
Ruled(t)  == t.tabStops = NoStops \/ t.tabStops \in [0 .. t.Width - 1 -> Flag]
\* A screen a control may find.
Sound(t)  == t \in Screens /\ Boxed(t) /\ Inside(t) /\ Ruled(t)

\* Two screens that differ in the cursor and its deferred wrap only.
Like(t, u) ==
  /\ u.Height = t.Height /\ u.Width = t.Width
  /\ u.scrollTop = t.scrollTop /\ u.scrollBottom = t.scrollBottom
  /\ u.leftMargin = t.leftMargin /\ u.rightMargin = t.rightMargin
  /\ u.LRMarginMode = t.LRMarginMode /\ u.OriginMode = t.OriginMode
  /\ u.AutoWrap = t.AutoWrap /\ u.ReverseWrap = t.ReverseWrap
  /\ u.moreFix = t.moreFix /\ u.LineFeedNewLine = t.LineFeedNewLine
  /\ u.conformanceLevel = t.conformanceLevel
  /\ u.InAltScreen = t.InAltScreen /\ u.savedMain = t.savedMain
  /\ u.mainSaved = t.mainSaved /\ u.altSaved = t.altSaved
  /\ u.tabStops = t.tabStops /\ u.savedModeValues = t.savedModeValues

LEMMA LikeOnward == \A t, u, v : Like(t, u) /\ Like(u, v) => Like(t, v)
BY DEF Like
LEMMA LikeSelf == \A t : Like(t, t)
BY DEF Like

-----------------------------------------------------------------------------
(* What each primitive changes.                                            *)

LEMMA AtIs ==
  ASSUME NEW t \in Screens, NEW y \in Int, NEW x \in Int
  PROVE  /\ At(t, y, x) \in Screens /\ Like(t, At(t, y, x))
         /\ At(t, y, x).curY = y /\ At(t, y, x).curX = x
         /\ At(t, y, x).pendingWrap = t.pendingWrap
BY DEF At, Screens, Like
LEMMA ColumnIs ==
  ASSUME NEW t \in Screens, NEW x \in Int
  PROVE  /\ Column(t, x) \in Screens /\ Like(t, Column(t, x))
         /\ Column(t, x).curX = x /\ Column(t, x).curY = t.curY
         /\ Column(t, x).pendingWrap = t.pendingWrap
BY DEF Column, Screens, Like
LEMMA RowIs ==
  ASSUME NEW t \in Screens, NEW y \in Int
  PROVE  /\ Row(t, y) \in Screens /\ Like(t, Row(t, y))
         /\ Row(t, y).curX = t.curX /\ Row(t, y).curY = y
         /\ Row(t, y).pendingWrap = t.pendingWrap
BY DEF Row, Screens, Like
LEMMA UnwrapIs ==
  ASSUME NEW t \in Screens
  PROVE  /\ Unwrap(t) \in Screens /\ Like(t, Unwrap(t))
         /\ Unwrap(t).curX = t.curX /\ Unwrap(t).curY = t.curY
         /\ Unwrap(t).pendingWrap = FALSE
BY Flags DEF Unwrap, Screens, Like
LEMMA FilledIs ==
  ASSUME NEW t \in Screens, NEW x \in Int
  PROVE  /\ Filled(t, x) \in Screens /\ Like(t, Filled(t, x))
         /\ Filled(t, x).curX = x /\ Filled(t, x).curY = t.curY
         /\ Filled(t, x).pendingWrap = t.AutoWrap
BY Flags DEF Filled, Screens, Like

\* The bounds depend on the margins alone, and are on the screen.
LEMMA Bounds ==
  ASSUME NEW t \in Screens, Boxed(t)
  PROVE  /\ leftBound(t) \in 0 .. t.Width - 1 /\ rightBound(t) \in 0 .. t.Width - 1
         /\ leftBound(t) <= rightBound(t)
         /\ wrapEdge(t) \in 0 .. t.Width - 1 /\ wrapColumn(t) \in 0 .. t.Width - 1
         /\ t.curX < t.Width => t.curX <= wrapEdge(t)
         /\ \A u : Like(t, u) => leftBound(u) = leftBound(t) /\ rightBound(u) = rightBound(t)
<1>1. /\ leftBound(t) \in 0 .. t.Width - 1 /\ rightBound(t) \in 0 .. t.Width - 1
      /\ leftBound(t) <= rightBound(t)
  BY DEF Screens, Boxed, leftBound, rightBound
<1>2. t.Width \in Nat \ {0} /\ t.curX \in Int
  BY DEF Boxed, Screens
<1>3. /\ wrapEdge(t) \in 0 .. t.Width - 1 /\ wrapColumn(t) \in 0 .. t.Width - 1
      /\ t.curX < t.Width => t.curX <= wrapEdge(t)
  BY <1>1, <1>2 DEF wrapEdge, wrapColumn, withinHMargins
<1>4. \A u : Like(t, u) => leftBound(u) = leftBound(t) /\ rightBound(u) = rightBound(t)
  BY DEF Like, leftBound, rightBound
<1> QED
  BY <1>1, <1>3, <1>4

\* A control that only moves the cursor, to another place on the screen.
LEMMA StaysSound ==
  ASSUME NEW t, Sound(t), NEW u \in Screens, Like(t, u), Inside(u)
  PROVE  Sound(u)
BY DEF Sound, Like, Boxed, Ruled

-----------------------------------------------------------------------------
(* Motion.                                                                 *)

\* A wrap is pending only where the last character filled its line.
AtEdge(t) == t.pendingWrap => t.curX = wrapEdge(t) /\ t.AutoWrap

\* What every motion and every character owes the screen it finds.
Kept(t, u) ==
  /\ Sound(u) /\ Like(t, u)
  /\ AtEdge(t) => AtEdge(u)
  /\ withinVMargins(t) => withinVMargins(u)

LEMMA KeptOnward == \A t, u, v : Kept(t, u) /\ Kept(u, v) => Kept(t, v)
BY LikeOnward DEF Kept

LEMMA Moves ==
  ASSUME NEW t, Sound(t), NEW u \in Screens, Like(t, u), Inside(u),
         ~u.pendingWrap \/ (u.pendingWrap = t.pendingWrap /\ u.curX = t.curX),
         withinVMargins(t) => withinVMargins(u)
  PROVE  Kept(t, u)
<1>1. u.curX = t.curX => wrapEdge(u) = wrapEdge(t)
  BY DEF Like, wrapEdge, withinHMargins, leftBound, rightBound
<1>2. u.AutoWrap = t.AutoWrap
  BY DEF Like
<1>3. AtEdge(t) => AtEdge(u)
  BY <1>1, <1>2, Zenon DEF AtEdge
<1> QED
  BY <1>3, StaysSound DEF Kept

LEMMA SelfKept == \A t : Sound(t) => Kept(t, t)
BY LikeSelf DEF Kept

LEMMA UnwrapKept ==
  ASSUME NEW t, Sound(t)
  PROVE  Kept(t, Unwrap(t)) /\ ~Unwrap(t).pendingWrap
<1>1. t \in Screens /\ Inside(t)
  BY DEF Sound
<1>2. /\ Unwrap(t) \in Screens /\ Like(t, Unwrap(t)) /\ Unwrap(t).pendingWrap = FALSE
      /\ Unwrap(t).curX = t.curX /\ Unwrap(t).curY = t.curY
  BY <1>1, UnwrapIs
<1>3. Inside(Unwrap(t)) /\ (withinVMargins(t) => withinVMargins(Unwrap(t)))
  BY <1>1, <1>2 DEF Inside, Like, withinVMargins
<1> QED
  BY <1>2, <1>3, Moves

\* A screen's numbers.
LEMMA Numbers ==
  ASSUME NEW t, Sound(t)
  PROVE  /\ t \in Screens /\ t.Height \in Nat \ {0} /\ t.Width \in Nat \ {0}
         /\ t.curX \in 0 .. t.Width - 1 /\ t.curY \in 0 .. t.Height - 1
         /\ t.scrollTop \in 0 .. t.scrollBottom /\ t.scrollBottom \in t.scrollTop .. t.Height - 1
         /\ t.scrollTop \in Nat /\ t.scrollBottom \in Nat
         /\ leftBound(t) \in 0 .. rightBound(t) /\ rightBound(t) \in 0 .. t.Width - 1
         /\ leftBound(t) \in Nat
BY Bounds DEF Sound, Boxed, Inside, Screens

\* A column or a row of its own: what most motions come down to.
LEMMA ColumnKept ==
  ASSUME NEW t, Sound(t), ~t.pendingWrap, NEW x \in 0 .. t.Width - 1
  PROVE  Kept(t, Column(t, x)) /\ ~Column(t, x).pendingWrap /\ Column(t, x).curY = t.curY
<1>1. /\ Column(t, x) \in Screens /\ Like(t, Column(t, x))
      /\ Column(t, x).curX = x /\ Column(t, x).curY = t.curY
      /\ Column(t, x).pendingWrap = t.pendingWrap
  BY Numbers, ColumnIs
<1>2. Inside(Column(t, x)) /\ (withinVMargins(t) => withinVMargins(Column(t, x)))
  BY <1>1, Numbers DEF Inside, Like, withinVMargins
<1> QED
  BY <1>1, <1>2, Moves
LEMMA RowKept ==
  ASSUME NEW t, Sound(t), NEW y \in 0 .. t.Height - 1,
         withinVMargins(t) => y \in t.scrollTop .. t.scrollBottom
  PROVE  /\ Kept(t, Row(t, y)) /\ Row(t, y).pendingWrap = t.pendingWrap
         /\ Row(t, y).curY = y /\ Row(t, y).curX = t.curX
<1>1. /\ Row(t, y) \in Screens /\ Like(t, Row(t, y))
      /\ Row(t, y).curX = t.curX /\ Row(t, y).curY = y
      /\ Row(t, y).pendingWrap = t.pendingWrap
  <2>1. t \in Screens /\ y \in Int
    BY Numbers
  <2> QED
    BY <2>1, RowIs
<1>2. Inside(Row(t, y)) /\ (withinVMargins(t) => withinVMargins(Row(t, y)))
  BY <1>1, Numbers DEF Inside, Like, withinVMargins
<1> QED
  BY <1>1, <1>2, Moves
LEMMA AtKept ==
  ASSUME NEW t, Sound(t), ~t.pendingWrap, NEW x \in 0 .. t.Width - 1, NEW y \in 0 .. t.Height - 1,
         withinVMargins(t) => y \in t.scrollTop .. t.scrollBottom
  PROVE  Kept(t, At(t, y, x)) /\ ~At(t, y, x).pendingWrap /\ At(t, y, x).curY = y
<1>1. /\ At(t, y, x) \in Screens /\ Like(t, At(t, y, x))
      /\ At(t, y, x).curX = x /\ At(t, y, x).curY = y
      /\ At(t, y, x).pendingWrap = t.pendingWrap
  BY Numbers, AtIs
<1>2. Inside(At(t, y, x)) /\ (withinVMargins(t) => withinVMargins(At(t, y, x)))
  BY <1>1, Numbers DEF Inside, Like, withinVMargins
<1> QED
  BY <1>1, <1>2, Moves

\* clampCursor puts a cursor that a motion took off the screen back on it.
LEMMA ClampKept ==
  ASSUME NEW t, Sound(t), ~t.pendingWrap, NEW x \in Int, NEW y \in Int,
         withinVMargins(t) => y \in t.scrollTop .. t.scrollBottom,
         NEW u \in {Row(t, y), Column(t, x)}
  PROVE  /\ Kept(t, clampCursor(u)) /\ ~clampCursor(u).pendingWrap
         /\ u = Column(t, x) => clampCursor(u).curY = t.curY
         /\ u = Row(t, y) => clampCursor(u).curY = Within(y, 0, t.Height - 1)
<1> DEFINE a == Within(u.curX, 0, u.Width - 1)
           b == Within(u.curY, 0, u.Height - 1)
<1>1. /\ u \in Screens /\ Like(t, u) /\ u.pendingWrap = t.pendingWrap
      /\ u = Row(t, y) => u.curX = t.curX /\ u.curY = y
      /\ u = Column(t, x) => u.curX = x /\ u.curY = t.curY
  <2>0. t \in Screens
    BY Numbers
  <2>1. /\ Row(t, y) \in Screens /\ Like(t, Row(t, y)) /\ Row(t, y).pendingWrap = t.pendingWrap
        /\ Row(t, y).curX = t.curX /\ Row(t, y).curY = y
    BY <2>0, RowIs
  <2>2. /\ Column(t, x) \in Screens /\ Like(t, Column(t, x))
        /\ Column(t, x).pendingWrap = t.pendingWrap
        /\ Column(t, x).curX = x /\ Column(t, x).curY = t.curY
    BY <2>0, ColumnIs
  <2> QED
    BY <2>1, <2>2
<1>2. u.Width = t.Width /\ u.Height = t.Height
  BY <1>1 DEF Like
<1>3. a \in 0 .. t.Width - 1 /\ b \in 0 .. t.Height - 1
  BY <1>1, <1>2, Numbers DEF Within, Lesser, Greater
<1>4. withinVMargins(t) => b \in t.scrollTop .. t.scrollBottom
  BY <1>1, <1>2, Numbers DEF Within, Lesser, Greater, withinVMargins
<1>5. u = Column(t, x) => b = t.curY
  BY <1>1, <1>2, Numbers DEF Within, Lesser, Greater
<1>6. u = Row(t, y) => b = Within(y, 0, t.Height - 1)
  BY <1>1, <1>2
<1>7. clampCursor(u) = At(u, b, a)
  BY DEF clampCursor
<1> HIDE DEF a, b
<1>8. /\ At(u, b, a) \in Screens /\ Like(t, At(u, b, a)) /\ At(u, b, a).curX = a
      /\ At(u, b, a).curY = b /\ At(u, b, a).pendingWrap = t.pendingWrap
  BY <1>1, <1>3, Numbers, AtIs, LikeOnward
<1>9. Inside(At(u, b, a)) /\ (withinVMargins(t) => withinVMargins(At(u, b, a)))
  BY <1>3, <1>4, <1>8, Numbers DEF Inside, Like, withinVMargins
<1> QED
  BY <1>5, <1>6, <1>7, <1>8, <1>9, Moves

LEMMA Vertical ==
  ASSUME NEW t, Sound(t), ~t.pendingWrap, NEW n \in Nat \ {0}
  PROVE  /\ Kept(t, cursorUp(t, n)) /\ ~cursorUp(t, n).pendingWrap
         /\ Kept(t, cursorDown(t, n)) /\ ~cursorDown(t, n).pendingWrap
         /\ t.curY > t.scrollBottom => cursorDown(t, n).curY >= t.curY
<1> DEFINE low == IF t.curY >= t.scrollTop THEN t.scrollTop ELSE 0
           high == IF t.curY <= t.scrollBottom THEN t.scrollBottom ELSE t.Height - 1
           up == Greater(t.curY - n, low)
           down == Lesser(t.curY + n, high)
<1>1. /\ up \in Int /\ down \in Int
      /\ withinVMargins(t) => up \in t.scrollTop .. t.scrollBottom
      /\ withinVMargins(t) => down \in t.scrollTop .. t.scrollBottom
      /\ t.curY > t.scrollBottom => Within(down, 0, t.Height - 1) >= t.curY
  BY Numbers DEF Greater, Lesser, Within, withinVMargins
<1>2. /\ cursorUp(t, n) = clampCursor(Row(t, up))
      /\ cursorDown(t, n) = clampCursor(Row(t, down))
  BY DEF cursorUp, cursorDown
<1> HIDE DEF up, down
<1> QED
  BY <1>1, <1>2, ClampKept

LEMMA Rightwards ==
  ASSUME NEW t, Sound(t), ~t.pendingWrap, NEW n \in Nat \ {0}
  PROVE  /\ Kept(t, cursorRight(t, n)) /\ ~cursorRight(t, n).pendingWrap
         /\ Kept(t, clampCursor(Column(t, t.curX + n)))
<1> DEFINE high == IF t.curX <= rightBound(t) THEN rightBound(t) ELSE t.Width - 1
           x == Lesser(t.curX + n, high)
<1>1. x \in Int /\ t.curX + n \in Int /\ (withinVMargins(t) => t.curY \in t.scrollTop .. t.scrollBottom)
      /\ t.curY \in Int
  BY Numbers DEF Lesser, withinVMargins
<1>2. cursorRight(t, n) = clampCursor(Column(t, x))
  BY DEF cursorRight
<1> HIDE DEF x
<1> QED
  BY <1>1, <1>2, ClampKept

-----------------------------------------------------------------------------
(* Repetition, by the least counterexample.                                *)

Smaller == {ss \in Nat \X Nat : ss[1] < ss[2]}
LEMMA SmallerIs == /\ IsWellFoundedOn(Smaller, Nat)
                   /\ \A m, n \in Nat : <<m, n>> \in Smaller <=> m < n
<1>1. IsWellFoundedOn(Smaller, Nat)
  BY NatLessThanWellFounded DEF OpToRel, Smaller
<1>2. \A m, n \in Nat : <<m, n>> \in Smaller <=> m < n
  BY DEF Smaller
<1> QED
  BY <1>1, <1>2

LEMMA Least ==
  ASSUME NEW T \in SUBSET Nat, T # {}
  PROVE  \E x \in T : \A y \in T : x <= y
<1>0. IsWellFoundedOn(Smaller, Nat)
  BY SmallerIs
<1>1. PICK x \in T : \A y \in T : ~(<<y, x>> \in Smaller)
  BY <1>0, WFMin
<1>2. ASSUME NEW y \in T
      PROVE  x <= y
  <2>1. x \in Nat /\ y \in Nat
    OBVIOUS
  <2>2. ~(y < x)
    BY <1>1, <2>1, SmallerIs
  <2> QED
    BY <2>1, <2>2
<1> QED
  BY <1>2

LEMMA Along ==
  ASSUME NEW S, NEW n \in Nat, NEW f, f[0] \in S,
         \A i \in 1 .. n : f[i - 1] \in S => f[i] \in S
  PROVE  \A i \in 0 .. n : f[i] \in S
<1> DEFINE T == {i \in 0 .. n : f[i] \notin S}
<1> SUFFICES ASSUME T # {}
             PROVE  FALSE
  OBVIOUS
<1>1. PICK x \in T : \A y \in T : x <= y
  <2>1. T \in SUBSET Nat
    OBVIOUS
  <2> QED
    BY <2>1, Least
<1>2. x \in 1 .. n
  BY <1>1
<1>3. x - 1 \in 0 .. n /\ x - 1 \notin T
  BY <1>1, <1>2
<1> QED
  BY <1>1, <1>2, <1>3

\* What the n-fold application of a function is the last of.
Runs(S, t, g, n, f) == f \in [0 .. n -> S] /\ f[0] = t /\ \A i \in 1 .. n : f[i] = g[f[i - 1]]
Iterable(S, t, g, n) == \E f : Runs(S, t, g, n, f)

LEMMA Iterates ==
  ASSUME NEW S, NEW t \in S, NEW g \in [S -> S], NEW n \in Nat
  PROVE  Iterable(S, t, g, n)
<1> DEFINE T == {m \in Nat : ~Iterable(S, t, g, m)}
<1> SUFFICES ASSUME T # {}
             PROVE  FALSE
  OBVIOUS
<1>1. PICK x \in T : \A y \in T : x <= y
  <2>1. T \in SUBSET Nat
    OBVIOUS
  <2> QED
    BY <2>1, Least
<1>2. Iterable(S, t, g, 0)
  <2>1. Runs(S, t, g, 0, [i \in 0 .. 0 |-> t])
    BY DEF Runs
  <2> QED
    BY <2>1 DEF Iterable
<1>3. x # 0 /\ x \in Nat
  BY <1>1, <1>2
<1>4. PICK f : Runs(S, t, g, x - 1, f)
  BY <1>1, <1>3 DEF Iterable
<1> DEFINE h == [i \in 0 .. x |-> IF i = x THEN g[f[x - 1]] ELSE f[i]]
<1>5. Runs(S, t, g, x, h)
  BY <1>3, <1>4 DEF Runs
<1> QED
  BY <1>1, <1>5 DEF Iterable

LEMMA RepeatBackspaces ==
  ASSUME NEW S, NEW t \in S, NEW n \in Nat, \A u \in S : backspace(u) \in S
  PROVE  Repeat(backspace, t, n) \in S
<1> DEFINE Eqn(f) == f = [i \in 0 .. n |-> IF i = 0 THEN t ELSE backspace(f[i - 1])]
<1>1. PICK g \in [S -> S] : \A u \in S : g[u] = backspace(u)
  <2>1. [u \in S |-> backspace(u)] \in [S -> S]
    OBVIOUS
  <2> QED
    BY <2>1
<1>a. Iterable(S, t, g, n)
  BY Iterates
<1>b. PICK f : Runs(S, t, g, n, f)
  BY <1>a DEF Iterable
<1>2. f \in [0 .. n -> S] /\ f[0] = t /\ \A i \in 1 .. n : f[i] = g[f[i - 1]]
  BY <1>b DEF Runs
<1>3. Eqn(f)
  <2>1. ASSUME NEW i \in 0 .. n
        PROVE  f[i] = IF i = 0 THEN t ELSE backspace(f[i - 1])
    <3>1. CASE i = 0
      BY <1>2, <3>1
    <3>2. CASE i # 0
      <4>1. i \in 1 .. n /\ i - 1 \in 0 .. n
        BY <3>2
      <4> QED
        BY <1>1, <1>2, <3>2, <4>1
    <3> QED
      BY <3>1, <3>2
  <2> QED
    BY <1>2, <2>1
<1> DEFINE times == CHOOSE h : Eqn(h)
<1>4. Eqn(times)
  BY <1>3
<1>5. Repeat(backspace, t, n) = times[n]
  BY DEF Repeat
<1> HIDE DEF times
<1>6. times[0] = t /\ \A i \in 1 .. n : times[i] = backspace(times[i - 1])
  BY <1>4
<1>7. \A i \in 0 .. n : times[i] \in S
  BY <1>6, Along
<1> QED
  BY <1>5, <1>7

LEMMA RepeatTabs ==
  ASSUME NEW S, NEW t \in S, NEW n \in Nat, \A u \in S : tabOnce(u) \in S
  PROVE  Repeat(tabOnce, t, n) \in S
<1> DEFINE Eqn(f) == f = [i \in 0 .. n |-> IF i = 0 THEN t ELSE tabOnce(f[i - 1])]
<1>1. PICK g \in [S -> S] : \A u \in S : g[u] = tabOnce(u)
  <2>1. [u \in S |-> tabOnce(u)] \in [S -> S]
    OBVIOUS
  <2> QED
    BY <2>1
<1>a. Iterable(S, t, g, n)
  BY Iterates
<1>b. PICK f : Runs(S, t, g, n, f)
  BY <1>a DEF Iterable
<1>2. f \in [0 .. n -> S] /\ f[0] = t /\ \A i \in 1 .. n : f[i] = g[f[i - 1]]
  BY <1>b DEF Runs
<1>3. Eqn(f)
  <2>1. ASSUME NEW i \in 0 .. n
        PROVE  f[i] = IF i = 0 THEN t ELSE tabOnce(f[i - 1])
    <3>1. CASE i = 0
      BY <1>2, <3>1
    <3>2. CASE i # 0
      <4>1. i \in 1 .. n /\ i - 1 \in 0 .. n
        BY <3>2
      <4> QED
        BY <1>1, <1>2, <3>2, <4>1
    <3> QED
      BY <3>1, <3>2
  <2> QED
    BY <1>2, <2>1
<1> DEFINE times == CHOOSE h : Eqn(h)
<1>4. Eqn(times)
  BY <1>3
<1>5. Repeat(tabOnce, t, n) = times[n]
  BY DEF Repeat
<1> HIDE DEF times
<1>6. times[0] = t /\ \A i \in 1 .. n : times[i] = tabOnce(times[i - 1])
  BY <1>4
<1>7. \A i \in 0 .. n : times[i] \in S
  BY <1>6, Along
<1> QED
  BY <1>5, <1>7

LEMMA RepeatBackTabs ==
  ASSUME NEW S, NEW t \in S, NEW n \in Nat, \A u \in S : backTab(u) \in S
  PROVE  Repeat(backTab, t, n) \in S
<1> DEFINE Eqn(f) == f = [i \in 0 .. n |-> IF i = 0 THEN t ELSE backTab(f[i - 1])]
<1>1. PICK g \in [S -> S] : \A u \in S : g[u] = backTab(u)
  <2>1. [u \in S |-> backTab(u)] \in [S -> S]
    OBVIOUS
  <2> QED
    BY <2>1
<1>a. Iterable(S, t, g, n)
  BY Iterates
<1>b. PICK f : Runs(S, t, g, n, f)
  BY <1>a DEF Iterable
<1>2. f \in [0 .. n -> S] /\ f[0] = t /\ \A i \in 1 .. n : f[i] = g[f[i - 1]]
  BY <1>b DEF Runs
<1>3. Eqn(f)
  <2>1. ASSUME NEW i \in 0 .. n
        PROVE  f[i] = IF i = 0 THEN t ELSE backTab(f[i - 1])
    <3>1. CASE i = 0
      BY <1>2, <3>1
    <3>2. CASE i # 0
      <4>1. i \in 1 .. n /\ i - 1 \in 0 .. n
        BY <3>2
      <4> QED
        BY <1>1, <1>2, <3>2, <4>1
    <3> QED
      BY <3>1, <3>2
  <2> QED
    BY <1>2, <2>1
<1> DEFINE times == CHOOSE h : Eqn(h)
<1>4. Eqn(times)
  BY <1>3
<1>5. Repeat(backTab, t, n) = times[n]
  BY DEF Repeat
<1> HIDE DEF times
<1>6. times[0] = t /\ \A i \in 1 .. n : times[i] = backTab(times[i - 1])
  BY <1>4
<1>7. \A i \in 0 .. n : times[i] \in S
  BY <1>6, Along
<1> QED
  BY <1>5, <1>7

-----------------------------------------------------------------------------
(* The controls, one by one.                                               *)

LEMMA BackspaceKept ==
  ASSUME NEW t, Sound(t)
  PROVE  Kept(t, backspace(t)) /\ ~backspace(t).pendingWrap
<1> DEFINE u == Unwrap(t)
<1>1. Kept(t, u) /\ ~u.pendingWrap /\ Sound(u)
  BY UnwrapKept DEF Kept
<1>2. /\ u.curX = t.curX /\ u.curY = t.curY /\ u.Width = t.Width /\ u.Height = t.Height
      /\ u.scrollTop = t.scrollTop /\ u.scrollBottom = t.scrollBottom
  BY <1>1, Numbers, UnwrapIs DEF Like
<1> HIDE DEF u
<1>3. \/ backspace(t) = u
      \/ t.curX > 0 /\ backspace(t) = Column(u, t.curX - 1)
      \/ t.curY > t.scrollTop /\ backspace(t) = At(u, t.curY - 1, rightBound(t))
      \/ backspace(t) = At(u, t.scrollBottom, rightBound(t))
  BY Numbers DEF backspace, u
<1>4. t.curX > 0 => Kept(u, Column(u, t.curX - 1)) /\ ~Column(u, t.curX - 1).pendingWrap
  <2> SUFFICES ASSUME t.curX > 0
               PROVE  Kept(u, Column(u, t.curX - 1)) /\ ~Column(u, t.curX - 1).pendingWrap
    OBVIOUS
  <2>1. t.curX - 1 \in 0 .. u.Width - 1
    BY <1>2, Numbers
  <2> QED
    BY <1>1, <2>1, ColumnKept
<1>5. ASSUME NEW y \in Int, y = t.scrollBottom \/ (t.curY > t.scrollTop /\ y = t.curY - 1)
      PROVE  Kept(u, At(u, y, rightBound(t))) /\ ~At(u, y, rightBound(t)).pendingWrap
  <2>1. rightBound(t) \in 0 .. u.Width - 1 /\ y \in 0 .. u.Height - 1
    BY <1>2, <1>5, Numbers
  <2>2. withinVMargins(u) => y \in u.scrollTop .. u.scrollBottom
    BY <1>2, <1>5, Numbers DEF withinVMargins
  <2> QED
    BY <1>1, <2>1, <2>2, AtKept
<1>6. t.scrollBottom \in Int /\ t.curY - 1 \in Int
  BY Numbers
<1>7. (Kept(u, backspace(t)) /\ ~backspace(t).pendingWrap) \/ backspace(t) = u
  BY <1>3, <1>4, <1>5, <1>6
<1> QED
  BY <1>1, <1>7, KeptOnward

LEMMA LeftwardsKept ==
  ASSUME NEW t, Sound(t), ~t.pendingWrap, NEW n \in Nat \ {0}
  PROVE  Kept(t, cursorLeft(t, n)) /\ ~cursorLeft(t, n).pendingWrap
<1>1. CASE t.ReverseWrap /\ t.AutoWrap
  <2> DEFINE S == {u \in Screens : Kept(t, u) /\ ~u.pendingWrap}
  <2>1. t \in S
    BY SelfKept, Numbers
  <2>2. ASSUME NEW u \in S
        PROVE  backspace(u) \in S
    <3>1. Sound(u) /\ Kept(u, backspace(u)) /\ ~backspace(u).pendingWrap
      BY BackspaceKept DEF Kept
    <3> QED
      BY <3>1, KeptOnward, Numbers DEF Kept
  <2> HIDE DEF S
  <2>3. Repeat(backspace, t, n) \in S
    BY <2>1, <2>2, RepeatBackspaces
  <2> QED
    BY <1>1, <2>3 DEF S, cursorLeft
<1>2. CASE ~(t.ReverseWrap /\ t.AutoWrap)
  <2> DEFINE low == IF t.curX >= leftBound(t) THEN leftBound(t) ELSE 0
             x == Greater(t.curX - n, low)
  <2>1. x \in Int /\ t.curY \in Int /\ (withinVMargins(t) => t.curY \in t.scrollTop .. t.scrollBottom)
    BY Numbers DEF Greater, withinVMargins
  <2>2. cursorLeft(t, n) = clampCursor(Column(t, x))
    BY <1>2 DEF cursorLeft
  <2> HIDE DEF x
  <2> QED
    BY <2>1, <2>2, ClampKept
<1> QED
  BY <1>1, <1>2

LEMMA ReturnKept ==
  ASSUME NEW t, Sound(t), ~t.pendingWrap
  PROVE  /\ Kept(t, carriageReturn(t)) /\ ~carriageReturn(t).pendingWrap
         /\ carriageReturn(t).curY = t.curY
<1> DEFINE x == IF t.curX >= leftBound(t) THEN leftBound(t) ELSE 0
<1>1. x \in 0 .. t.Width - 1
  BY Numbers
<1>2. carriageReturn(t) = Column(t, x)
  BY DEF carriageReturn
<1> HIDE DEF x
<1> QED
  BY <1>1, <1>2, ColumnKept

LEMMA LineDownKept ==
  ASSUME NEW t, Sound(t)
  PROVE  /\ Kept(t, lineDown(t)) /\ (~t.pendingWrap => ~lineDown(t).pendingWrap)
         /\ lineDown(t).curY >= t.curY
<1>1. CASE t.curY = t.scrollBottom \/ t.curY >= t.Height - 1
  BY <1>1, SelfKept, Numbers DEF lineDown
<1>2. CASE ~(t.curY = t.scrollBottom \/ t.curY >= t.Height - 1)
  <2>1. lineDown(t) = Row(t, t.curY + 1)
    BY <1>2 DEF lineDown
  <2>2. t.curY + 1 \in 0 .. t.Height - 1 /\ t.curY + 1 >= t.curY
    BY <1>2, Numbers
  <2>3. withinVMargins(t) => t.curY + 1 \in t.scrollTop .. t.scrollBottom
    BY <1>2, Numbers DEF withinVMargins
  <2> QED
    BY <2>1, <2>2, <2>3, RowKept
<1> QED
  BY <1>1, <1>2

LEMMA LinesKept ==
  ASSUME NEW t, Sound(t)
  PROVE  /\ Kept(t, LF(t)) /\ Kept(t, IND(t)) /\ Kept(t, NEL(t))
         /\ LF(t).curY >= t.curY /\ IND(t).curY >= t.curY /\ NEL(t).curY >= t.curY
<1> DEFINE u == Unwrap(t)
           v == Column(u, 0)
<1>1. Kept(t, u) /\ ~u.pendingWrap /\ Sound(u) /\ u.curY = t.curY
  BY UnwrapKept, UnwrapIs, Numbers DEF Kept
<1>2. 0 \in 0 .. u.Width - 1
  BY <1>1, Numbers
<1> HIDE DEF u
<1>3. Kept(u, v) /\ v.curY = t.curY
  BY <1>1, <1>2, ColumnKept
<1>4. Kept(t, v) /\ Sound(v)
  BY <1>1, <1>3, KeptOnward DEF Kept
<1> HIDE DEF v
<1>5. /\ Kept(u, lineDown(u)) /\ ~lineDown(u).pendingWrap /\ lineDown(u).curY >= t.curY
      /\ Kept(v, lineDown(v)) /\ lineDown(v).curY >= t.curY
  BY <1>1, <1>3, <1>4, LineDownKept
<1>6. LF(t) = lineDown(u) \/ LF(t) = lineDown(v)
  BY DEF LF, u, v
<1>7. /\ Kept(lineDown(u), carriageReturn(lineDown(u)))
      /\ carriageReturn(lineDown(u)).curY >= t.curY
  BY <1>5, ReturnKept DEF Kept
<1>8. IND(t) = lineDown(u) /\ NEL(t) = carriageReturn(lineDown(u))
  BY DEF IND, NEL, u
<1> QED
  BY <1>1, <1>4, <1>5, <1>6, <1>7, <1>8, KeptOnward

LEMMA IndexesKept ==
  ASSUME NEW t, Sound(t)
  PROVE  Kept(t, RI(t)) /\ Kept(t, decBackIndex(t)) /\ Kept(t, decForwardIndex(t))
<1> DEFINE u == Unwrap(t)
<1>1. Kept(t, u) /\ ~u.pendingWrap /\ Sound(u)
  BY UnwrapKept DEF Kept
<1>2. /\ u.curX = t.curX /\ u.curY = t.curY /\ u.Width = t.Width /\ u.Height = t.Height
      /\ u.scrollTop = t.scrollTop /\ u.scrollBottom = t.scrollBottom
  BY <1>1, Numbers, UnwrapIs DEF Like
<1> HIDE DEF u
<1>3. RI(t) = u \/ (t.curY # t.scrollTop /\ t.curY # 0 /\ RI(t) = Row(u, t.curY - 1))
  BY DEF RI, u
<1>4. /\ decBackIndex(t) = u \/ (t.curX # 0 /\ decBackIndex(t) = Column(u, t.curX - 1))
      /\ \/ decForwardIndex(t) = u
         \/ ~(t.curX >= t.Width - 1) /\ decForwardIndex(t) = Column(u, t.curX + 1)
  BY DEF decBackIndex, decForwardIndex, u
<1>5. t.curX # 0 => t.curX - 1 \in 0 .. u.Width - 1
  BY <1>2, Numbers
<1>6. ~(t.curX >= t.Width - 1) => t.curX + 1 \in 0 .. u.Width - 1
  BY <1>2, Numbers
<1>7. t.curY # t.scrollTop /\ t.curY # 0 =>
        /\ t.curY - 1 \in 0 .. u.Height - 1
        /\ withinVMargins(u) => t.curY - 1 \in u.scrollTop .. u.scrollBottom
  BY <1>2, Numbers DEF withinVMargins
<1>8. t.curY # t.scrollTop /\ t.curY # 0 => Kept(u, Row(u, t.curY - 1))
  BY <1>1, <1>7, RowKept
<1>9. /\ t.curX # 0 => Kept(u, Column(u, t.curX - 1))
      /\ ~(t.curX >= t.Width - 1) => Kept(u, Column(u, t.curX + 1))
  BY <1>1, <1>5, <1>6, ColumnKept
<1> QED
  BY <1>1, <1>3, <1>4, <1>8, <1>9, KeptOnward

LEMMA LineShiftKept ==
  ASSUME NEW t, Sound(t)
  PROVE  Kept(t, prepareLineShift(t))
<1> DEFINE u == Unwrap(t)
<1>1. Kept(t, u) /\ ~u.pendingWrap /\ Sound(u) /\ u.Width = t.Width
  BY UnwrapKept DEF Kept, Like
<1>2. leftBound(t) \in 0 .. u.Width - 1
  BY <1>1, Numbers
<1>3. Kept(u, Column(u, leftBound(t)))
  BY <1>1, <1>2, ColumnKept
<1>4. prepareLineShift(t) = t \/ prepareLineShift(t) = Column(u, leftBound(t))
  BY DEF prepareLineShift
<1> QED
  BY <1>1, <1>3, <1>4, KeptOnward, SelfKept

-----------------------------------------------------------------------------
(* Tab stops.                                                              *)

\* Rounding down to a multiple.
LEMMA RoundDown ==
  ASSUME NEW a \in Int, NEW b \in Nat \ {0}
  PROVE  /\ a \div b \in Int /\ b * (a \div b) \in Int /\ b * (a \div b) <= a
         /\ a >= 0 => b * (a \div b) >= 0
<1>1. a \div b \in Int
  OBVIOUS
<1>2. a = b * (a \div b) + (a % b) /\ a % b \in 0 .. b - 1
  OBVIOUS
<1>3. b * (a \div b) \in Int
  BY <1>1
<1>4. a >= 0 => a \div b >= 0
  OBVIOUS
<1>5. a \div b >= 0 => b * (a \div b) >= 0
  BY <1>1
<1> QED
  BY <1>1, <1>2, <1>3, <1>4, <1>5

LEMMA NextStop ==
  ASSUME NEW t, Sound(t)
  PROVE  nextTabStop(t, t.curX) \in Nat
<1>0. t.curX \in Nat /\ t.Width \in Nat /\ TabSize \in Nat \ {0}
  BY Numbers, CursorAssumption
<1>1. CASE t.tabStops = NoStops
  <2>1. t.curX + TabSize \in Nat
    BY <1>0
  <2> QED
    BY <1>0, <1>1, <2>1, RoundDown DEF nextTabStop
<1>2. CASE t.tabStops # NoStops
  <2> DEFINE ahead == {x \in t.curX + 1 .. t.Width - 1 : t.tabStops[x]}
             chosen == CHOOSE x \in ahead : \A y \in ahead : x <= y
  <2>1. ahead \in SUBSET Nat
    BY <1>0
  <2>2. ahead # {} => chosen \in ahead
    BY <2>1, Least
  <2>3. nextTabStop(t, t.curX) = IF ahead = {} THEN t.Width ELSE chosen
    BY <1>2 DEF nextTabStop
  <2> HIDE DEF ahead, chosen
  <2> QED
    BY <1>0, <2>1, <2>2, <2>3
<1> QED
  BY <1>1, <1>2

LEMMA PrevStop ==
  ASSUME NEW t, Sound(t)
  PROVE  prevTabStop(t, t.curX) \in 0 .. t.Width - 1
<1>0. t.curX \in 0 .. t.Width - 1 /\ t.Width \in Nat \ {0} /\ TabSize \in Nat \ {0}
  BY Numbers, CursorAssumption
<1>1. CASE t.tabStops = NoStops
  <2>1. t.curX - 1 \in Int
    BY <1>0
  <2>2. /\ TabSize * ((t.curX - 1) \div TabSize) \in Int
        /\ TabSize * ((t.curX - 1) \div TabSize) <= t.curX - 1
    BY <1>0, <2>1, RoundDown
  <2> QED
    BY <1>0, <1>1, <2>2 DEF prevTabStop, Greater
<1>2. CASE t.tabStops # NoStops
  <2> DEFINE behind == {x \in 0 .. t.curX - 1 : t.tabStops[x]}
             chosen == CHOOSE x \in behind : \A y \in behind : x >= y
             gaps   == {t.curX - x : x \in behind}
  <2>1. ASSUME behind # {}
        PROVE  chosen \in behind
    <3>1. gaps \in SUBSET Nat /\ gaps # {}
      BY <1>0, <2>1
    <3>2. PICK g \in gaps : \A h \in gaps : g <= h
      BY <3>1, Least
    <3>3. PICK x \in behind : g = t.curX - x
      BY <3>2
    <3>4. ASSUME NEW y \in behind
          PROVE  x >= y
      <4>1. t.curX - y \in gaps /\ y \in Int /\ x \in Int
        BY <1>0
      <4> HIDE DEF gaps, behind
      <4>2. t.curX - x <= t.curX - y
        BY <3>2, <3>3, <4>1
      <4> QED
        BY <1>0, <4>1, <4>2
    <3> HIDE DEF behind
    <3> QED
      BY <3>4
  <2>2. prevTabStop(t, t.curX) = IF behind = {} THEN 0 ELSE chosen
    BY <1>2 DEF prevTabStop
  <2>3. behind \subseteq 0 .. t.Width - 1 /\ 0 \in 0 .. t.Width - 1
    BY <1>0
  <2> HIDE DEF behind, chosen
  <2> QED
    BY <2>1, <2>2, <2>3
<1> QED
  BY <1>1, <1>2

LEMMA TabKept ==
  ASSUME NEW t, Sound(t), ~t.pendingWrap
  PROVE  /\ Kept(t, tabOnce(t)) /\ ~tabOnce(t).pendingWrap
         /\ Kept(t, backTab(t)) /\ ~backTab(t).pendingWrap
<1> DEFINE next == nextTabStop(t, t.curX)
           x == IF t.curX <= rightBound(t) /\ next > rightBound(t) THEN rightBound(t)
                ELSE IF next >= t.Width THEN t.Width - 1 ELSE next
<1>1. tabOnce(t) = Column(t, x)
  BY DEF tabOnce
<1>2. next \in Nat
  BY NextStop
<1> HIDE DEF next
<1>3. x \in 0 .. t.Width - 1
  BY <1>2, Numbers
<1> HIDE DEF x
<1>4. backTab(t) = Column(t, prevTabStop(t, t.curX))
  BY DEF backTab
<1> QED
  BY <1>1, <1>3, <1>4, PrevStop, ColumnKept

LEMMA TabsKept ==
  ASSUME NEW t, Sound(t), ~t.pendingWrap, NEW n \in Nat
  PROVE  Kept(t, cursorTabForward(t, n)) /\ Kept(t, cursorTabBackward(t, n))
<1> DEFINE S == {u \in Screens : Kept(t, u) /\ ~u.pendingWrap}
<1>1. t \in S
  BY SelfKept, Numbers
<1>2. ASSUME NEW u \in S
      PROVE  tabOnce(u) \in S /\ backTab(u) \in S
  <2>1. /\ Sound(u) /\ Kept(u, tabOnce(u)) /\ ~tabOnce(u).pendingWrap
        /\ Kept(u, backTab(u)) /\ ~backTab(u).pendingWrap
    BY TabKept DEF Kept
  <2> QED
    BY <2>1, KeptOnward, Numbers DEF Kept
<1> HIDE DEF S
<1>3. Repeat(tabOnce, t, n) \in S /\ Repeat(backTab, t, n) \in S
  BY <1>1, <1>2, RepeatTabs, RepeatBackTabs
<1> QED
  BY <1>3 DEF S, cursorTabForward, cursorTabBackward

-----------------------------------------------------------------------------
(* Printing.                                                               *)

LEMMA WrapKept ==
  ASSUME NEW t, Sound(t)
  PROVE  Kept(t, wrapLine(t)) /\ ~wrapLine(t).pendingWrap
<1> DEFINE u == At(Unwrap(t), t.curY + 1, wrapColumn(t))
           y == Lesser(IF u.curY > u.scrollBottom THEN u.scrollBottom ELSE u.curY, u.Height - 1)
<1>1. t \in Screens /\ t.curY + 1 \in Int /\ wrapColumn(t) \in 0 .. t.Width - 1 /\ wrapColumn(t) \in Int
  BY Numbers, Bounds DEF Sound
<1>2. Unwrap(t) \in Screens /\ Like(t, Unwrap(t)) /\ Unwrap(t).pendingWrap = FALSE
  BY <1>1, UnwrapIs
<1>3. /\ u \in Screens /\ Like(Unwrap(t), u) /\ u.curY = t.curY + 1 /\ u.curX = wrapColumn(t)
      /\ u.pendingWrap = FALSE
  BY <1>1, <1>2, AtIs
<1>4. wrapLine(t) = Row(u, y)
  BY DEF wrapLine, scrollIfNeeded
<1> HIDE DEF u
<1>5. Like(t, u) /\ u.scrollBottom = t.scrollBottom /\ u.Height = t.Height
  BY <1>2, <1>3, LikeOnward DEF Like
<1>6. y \in 0 .. t.Height - 1 /\ y \in Int
      /\ (withinVMargins(t) => y \in t.scrollTop .. t.scrollBottom)
  BY <1>3, <1>5, Numbers DEF Lesser, withinVMargins
<1> HIDE DEF y
<1>7. /\ Row(u, y) \in Screens /\ Like(t, Row(u, y)) /\ Row(u, y).curX = wrapColumn(t)
      /\ Row(u, y).curY = y /\ Row(u, y).pendingWrap = FALSE
  BY <1>3, <1>5, <1>6, RowIs, LikeOnward
<1>8. Inside(Row(u, y)) /\ (withinVMargins(t) => withinVMargins(Row(u, y)))
  BY <1>1, <1>6, <1>7, Numbers DEF Inside, Like, withinVMargins
<1> QED
  BY <1>4, <1>7, <1>8, Moves

LEMMA RoomKept ==
  ASSUME NEW t, Sound(t), NEW w
  PROVE  /\ Kept(t, makeRoom(t, w)) /\ ~makeRoom(t, w).pendingWrap
         /\ ~t.pendingWrap /\ ~t.AutoWrap => makeRoom(t, w) = t
         /\ ~WrapsFirst(t, w) => makeRoom(t, w) = t
<1> DEFINE u == IF t.pendingWrap THEN wrapLine(t) ELSE t
<1>1. Kept(t, u) /\ ~u.pendingWrap
  BY WrapKept, SelfKept
<1>2. ~t.pendingWrap => u = t
  OBVIOUS
<1>3. makeRoom(t, w) = IF w = 2 /\ u.curX >= wrapEdge(u) /\ u.AutoWrap THEN wrapLine(u) ELSE u
  BY DEF makeRoom
<1> HIDE DEF u
<1>4. Kept(u, wrapLine(u)) /\ ~wrapLine(u).pendingWrap
  BY <1>1, WrapKept DEF Kept
<1>5. makeRoom(t, w) = u \/ makeRoom(t, w) = wrapLine(u)
  BY <1>3
<1>6. Kept(t, makeRoom(t, w)) /\ ~makeRoom(t, w).pendingWrap
  BY <1>1, <1>4, <1>5, KeptOnward
<1>7. ~t.pendingWrap /\ ~t.AutoWrap => makeRoom(t, w) = t
  BY <1>2, <1>3
<1>8. ~WrapsFirst(t, w) => makeRoom(t, w) = t
  BY <1>2, <1>3 DEF WrapsFirst
<1> QED
  BY <1>6, <1>7, <1>8

\* advance deals with a cursor that a wide character took past the last column.
LEMMA AdvanceKept ==
  ASSUME NEW t, Sound(t), ~t.pendingWrap, NEW v \in {t, Column(t, t.curX + 1)}
  PROVE  Kept(t, advance(v)) /\ advance(v).curY = t.curY
<1>0. t \in Screens /\ t.curX + 1 \in Int
  BY Numbers
<1>1. /\ v \in Screens /\ Like(t, v) /\ v.curX \in 0 .. t.Width /\ v.curX \in Int
      /\ v.curY = t.curY /\ v.pendingWrap = t.pendingWrap
  <2>1. CASE v = t
    BY <2>1, LikeSelf, Numbers
  <2>2. CASE v = Column(t, t.curX + 1)
    <3>1. /\ v \in Screens /\ Like(t, v) /\ v.curX = t.curX + 1 /\ v.curY = t.curY
          /\ v.pendingWrap = t.pendingWrap
      BY <1>0, <2>2, ColumnIs
    <3>2. t.curX + 1 \in 0 .. t.Width
      BY Numbers
    <3> QED
      BY <1>0, <3>1, <3>2
  <2> QED
    BY <2>1, <2>2
<1>2. Boxed(v) /\ v.Width = t.Width /\ v.AutoWrap = t.AutoWrap
  BY <1>1 DEF Sound, Boxed, Like
<1>3. /\ wrapEdge(v) \in 0 .. t.Width - 1 /\ wrapEdge(v) \in Int
      /\ leftBound(v) \in 0 .. t.Width - 1 /\ rightBound(v) \in 0 .. t.Width - 1
      /\ leftBound(v) <= rightBound(v) /\ t.Width \in Nat \ {0}
      /\ \A u : Like(v, u) => leftBound(u) = leftBound(v) /\ rightBound(u) = rightBound(v)
  BY <1>1, <1>2, Bounds, Numbers
<1> DEFINE r == advance(v)
<1>4. CASE v.curX >= v.Width \/ v.curX >= wrapEdge(v)
  <2> DEFINE x == IF v.curX >= v.Width THEN v.Width - 1 ELSE wrapEdge(v)
  <2>1. r = Filled(v, x)
    BY <1>4 DEF advance
  <2>2. x \in 0 .. t.Width - 1 /\ x \in Int
    BY <1>2, <1>3
  <2>3. IF withinHMargins(v) THEN x >= leftBound(v) /\ (x = rightBound(v) \/ x = t.Width - 1)
                             ELSE x = t.Width - 1
    BY <1>1, <1>2, <1>3, <1>4 DEF wrapEdge, withinHMargins
  <2> HIDE DEF x, r
  <2>4. /\ r \in Screens /\ Like(v, r) /\ r.curX = x /\ r.curY = t.curY
        /\ r.pendingWrap = v.AutoWrap
    BY <1>1, <2>1, <2>2, FilledIs
  <2>5. r.Width = t.Width /\ leftBound(r) = leftBound(v) /\ rightBound(r) = rightBound(v)
    BY <1>2, <1>3, <2>4 DEF Like
  <2>6. r.curX = wrapEdge(r)
    BY <1>1, <1>3, <2>2, <2>3, <2>4, <2>5 DEF wrapEdge, withinHMargins
  <2>7. r.pendingWrap = r.AutoWrap
    BY <2>4 DEF Like
  <2>8. AtEdge(r)
    BY <2>6, <2>7, Zenon DEF AtEdge
  <2>9. Like(t, r) /\ Inside(r) /\ (withinVMargins(t) => withinVMargins(r))
    BY <1>1, <2>2, <2>4, LikeOnward, Numbers DEF Inside, Like, withinVMargins
  <2> QED
    BY <2>4, <2>8, <2>9, StaysSound DEF Kept, r
<1>5. CASE ~(v.curX >= v.Width \/ v.curX >= wrapEdge(v))
  <2>1. r = Column(v, v.curX + 1)
    BY <1>5 DEF advance
  <2>2. v.curX + 1 \in 0 .. t.Width - 1 /\ v.curX + 1 \in Int
    BY <1>1, <1>3, <1>5
  <2> HIDE DEF r
  <2>3. /\ r \in Screens /\ Like(v, r) /\ r.curX = v.curX + 1 /\ r.curY = t.curY
        /\ r.pendingWrap = v.pendingWrap
    BY <1>1, <2>1, <2>2, ColumnIs
  <2>4. ~r.pendingWrap
    BY <1>1, <2>3
  <2>5. Like(t, r) /\ Inside(r) /\ (withinVMargins(t) => withinVMargins(r))
    BY <1>1, <2>2, <2>3, LikeOnward, Numbers DEF Inside, Like, withinVMargins
  <2>6. Kept(t, r)
    BY <2>3, <2>4, <2>5, Moves
  <2> QED
    BY <2>3, <2>6 DEF r
<1> QED
  BY <1>4, <1>5

LEMMA PutKept ==
  ASSUME NEW t, Sound(t), NEW w \in {1, 2}
  PROVE  /\ Kept(t, put(t, w))
         /\ ~t.pendingWrap /\ ~t.AutoWrap => put(t, w).curY = t.curY
         /\ ~WrapsFirst(t, w) => put(t, w).curY = t.curY
<1> DEFINE u == makeRoom(t, w)
           v == IF w = 2 THEN Column(u, u.curX + 1) ELSE u
<1>1. /\ Kept(t, u) /\ ~u.pendingWrap
      /\ ~t.pendingWrap /\ ~t.AutoWrap => u = t
      /\ ~WrapsFirst(t, w) => u = t
  BY RoomKept
<1>2. put(t, w) = advance(v)
  BY DEF put
<1> HIDE DEF u
<1>3. v \in {u, Column(u, u.curX + 1)}
  OBVIOUS
<1> HIDE DEF v
<1>4. Kept(u, advance(v)) /\ advance(v).curY = u.curY
  BY <1>1, <1>3, AdvanceKept DEF Kept
<1> QED
  BY <1>1, <1>2, <1>4, KeptOnward

LEMMA HTKept ==
  ASSUME NEW t, Sound(t)
  PROVE  Kept(t, HT(t))
<1>1. CASE ~t.pendingWrap
  BY <1>1, TabKept DEF HT
<1>2. CASE t.pendingWrap /\ t.moreFix
  <2>1. Kept(t, wrapLine(t)) /\ ~wrapLine(t).pendingWrap /\ Sound(wrapLine(t))
    BY WrapKept DEF Kept
  <2>2. Kept(wrapLine(t), tabOnce(wrapLine(t)))
    BY <2>1, TabKept
  <2> QED
    BY <1>2, <2>1, <2>2, KeptOnward DEF HT
<1>3. CASE t.pendingWrap /\ ~t.moreFix
  BY <1>3, SelfKept DEF HT
<1> QED
  BY <1>1, <1>2, <1>3

\* All that a child can do without changing a setting.
LEMMA ControlsKept ==
  ASSUME NEW t, Sound(t)
  PROVE  \A u \in Controls(t) : Kept(t, u)
<1>1. Kept(t, Unwrap(t)) /\ ~Unwrap(t).pendingWrap /\ Sound(Unwrap(t))
  BY UnwrapKept DEF Kept
<1>2. Kept(t, carriageReturn(Unwrap(t)))
  BY <1>1, ReturnKept, KeptOnward
<1> QED
  BY <1>2, BackspaceKept, HTKept, LinesKept, IndexesKept, LineShiftKept DEF Controls

LEMMA RelativeKept ==
  ASSUME NEW t, Sound(t), NEW n \in Nat \ {0}
  PROVE  \A u \in Relative(t, n) : Kept(t, u)
<1> DEFINE u == Unwrap(t)
<1>1. Kept(t, u) /\ ~u.pendingWrap /\ Sound(u) /\ u.Width = t.Width
  BY UnwrapKept DEF Kept, Like
<1>2. leftBound(t) \in 0 .. t.Width - 1
  BY Numbers
<1>3. Relative(t, n) =
        {cursorUp(u, n), cursorDown(u, n), cursorRight(u, n), cursorLeft(u, n),
         Column(cursorDown(u, n), leftBound(t)), Column(cursorUp(u, n), leftBound(t)),
         cursorTabForward(u, n), cursorTabBackward(u, n), clampCursor(Column(u, u.curX + n))}
  BY DEF Relative
<1> HIDE DEF u
<1>4. /\ Kept(u, cursorUp(u, n)) /\ ~cursorUp(u, n).pendingWrap /\ Sound(cursorUp(u, n))
      /\ Kept(u, cursorDown(u, n)) /\ ~cursorDown(u, n).pendingWrap /\ Sound(cursorDown(u, n))
      /\ cursorUp(u, n).Width = t.Width /\ cursorDown(u, n).Width = t.Width
  BY <1>1, Vertical DEF Kept, Like
<1>5. /\ Kept(cursorUp(u, n), Column(cursorUp(u, n), leftBound(t)))
      /\ Kept(cursorDown(u, n), Column(cursorDown(u, n), leftBound(t)))
  BY <1>2, <1>4, ColumnKept
<1>6. /\ Kept(u, cursorRight(u, n)) /\ Kept(u, clampCursor(Column(u, u.curX + n)))
      /\ Kept(u, cursorLeft(u, n))
      /\ Kept(u, cursorTabForward(u, n)) /\ Kept(u, cursorTabBackward(u, n))
  BY <1>1, Rightwards, LeftwardsKept, TabsKept
<1>7. \A v \in Relative(t, n) : Kept(u, v)
  BY <1>3, <1>4, <1>5, <1>6, KeptOnward
<1> QED
  BY <1>1, <1>7, KeptOnward

-----------------------------------------------------------------------------
(* Settings.                                                               *)

\* What leaving the alternate screen will need of the main one.
Region(t) ==
  /\ t.InAltScreen <=> t.savedMain.valid
  /\ t.InAltScreen => /\ 0 <= t.savedMain.x /\ 0 <= t.savedMain.y
                      /\ 0 <= t.savedMain.top /\ t.savedMain.top <= t.savedMain.bottom
                      /\ t.savedMain.top < t.Height
\* No wrap is pending, nor will be after a restore.
Calm(t) == ~t.pendingWrap /\ ~t.mainSaved.pendingWrap /\ ~t.altSaved.pendingWrap

\* What every setting owes the screen it finds.
Settles(t, u) ==
  /\ Sound(u) /\ Region(u) /\ u.Height = t.Height /\ u.Width = t.Width
  /\ Calm(t) => Calm(u)

\* The fields those depend on.
Framed(t, u) ==
  /\ u.Height = t.Height /\ u.Width = t.Width /\ u.curX = t.curX /\ u.curY = t.curY
  /\ u.scrollTop = t.scrollTop /\ u.scrollBottom = t.scrollBottom
  /\ u.leftMargin = t.leftMargin /\ u.rightMargin = t.rightMargin
  /\ u.tabStops = t.tabStops /\ u.InAltScreen = t.InAltScreen /\ u.savedMain = t.savedMain
Slots(t, u) ==
  u.pendingWrap = t.pendingWrap /\ u.mainSaved = t.mainSaved /\ u.altSaved = t.altSaved

LEMMA FramedSettles ==
  ASSUME NEW t, Sound(t), Region(t), NEW u \in Screens, Framed(t, u), Calm(t) => Calm(u)
  PROVE  Settles(t, u)
BY DEF Framed, Sound, Boxed, Inside, Ruled, Region, Settles

LEMMA SlotsCalm == \A t, u : Slots(t, u) /\ Calm(t) => Calm(u)
BY DEF Slots, Calm

LEMMA SwitchIs ==
  ASSUME NEW t \in Screens, NEW b \in Flag
  PROVE  /\ \A u \in {[t EXCEPT !.OriginMode = b], [t EXCEPT !.AutoWrap = b],
                      [t EXCEPT !.moreFix = b], [t EXCEPT !.ReverseWrap = b],
                      [t EXCEPT !.LRMarginMode = b], [t EXCEPT !.LineFeedNewLine = b]} :
              u \in Screens /\ Framed(t, u) /\ Slots(t, u)
         /\ [t EXCEPT !.OriginMode = b].LRMarginMode = t.LRMarginMode
<1>1. LET u == [t EXCEPT !.OriginMode = b]
      IN u \in Screens /\ Framed(t, u) /\ Slots(t, u) /\ u.LRMarginMode = t.LRMarginMode
  BY DEF Screens, Framed, Slots
<1>2. LET u == [t EXCEPT !.AutoWrap = b] IN u \in Screens /\ Framed(t, u) /\ Slots(t, u)
  BY DEF Screens, Framed, Slots
<1>3. LET u == [t EXCEPT !.moreFix = b] IN u \in Screens /\ Framed(t, u) /\ Slots(t, u)
  BY DEF Screens, Framed, Slots
<1>4. LET u == [t EXCEPT !.ReverseWrap = b] IN u \in Screens /\ Framed(t, u) /\ Slots(t, u)
  BY DEF Screens, Framed, Slots
<1>5. LET u == [t EXCEPT !.LRMarginMode = b] IN u \in Screens /\ Framed(t, u) /\ Slots(t, u)
  BY DEF Screens, Framed, Slots
<1>6. LET u == [t EXCEPT !.LineFeedNewLine = b] IN u \in Screens /\ Framed(t, u) /\ Slots(t, u)
  BY DEF Screens, Framed, Slots
<1> QED
  BY <1>1, <1>2, <1>3, <1>4, <1>5, <1>6

LEMMA LevelIs ==
  ASSUME NEW t \in Screens, NEW level \in Nat, NEW m \in SUBSET DecModes
  PROVE  /\ LET u == [t EXCEPT !.conformanceLevel = level]
            IN u \in Screens /\ Framed(t, u) /\ Slots(t, u)
         /\ LET u == [t EXCEPT !.savedModeValues = m]
            IN u \in Screens /\ Framed(t, u) /\ Slots(t, u)
BY DEF Screens, Framed, Slots

\* A cursor put somewhere on the screen.
LEMMA PutSettles ==
  ASSUME NEW t, Sound(t), Region(t), NEW u, u \in Screens, Framed(t, u), Slots(t, u),
         NEW y \in 0 .. t.Height - 1, NEW x \in 0 .. t.Width - 1
  PROVE  Settles(t, At(u, y, x)) /\ At(u, y, x).pendingWrap = u.pendingWrap
<1>1. /\ At(u, y, x) \in Screens /\ Like(u, At(u, y, x)) /\ At(u, y, x).curX = x
      /\ At(u, y, x).curY = y /\ At(u, y, x).pendingWrap = u.pendingWrap
  <2>1. x \in Int /\ y \in Int
    BY Numbers
  <2> QED
    BY <2>1, AtIs
<1> DEFINE v == At(u, y, x)
<1> HIDE DEF v
<1>2. v \in Screens /\ Like(u, v) /\ v.curX = x /\ v.curY = y /\ v.pendingWrap = u.pendingWrap
  BY <1>1 DEF v
<1>3. Sound(v) /\ Region(v) /\ v.Height = t.Height /\ v.Width = t.Width
  BY <1>2 DEF Sound, Boxed, Inside, Ruled, Region, Like, Framed
<1>4. Calm(t) => Calm(v)
  BY <1>2 DEF Calm, Slots, Like
<1> QED
  BY <1>1, <1>3, <1>4 DEF Settles, v

\* Both regions at their widest.
LEMMA WidestIs ==
  ASSUME NEW t \in Screens, t.Height \in Nat \ {0}, t.Width \in Nat \ {0}
  PROVE  /\ LET u == FullRegion(t)
            IN /\ u \in Screens /\ u.scrollTop = 0 /\ u.scrollBottom = t.Height - 1
               /\ u.leftMargin = t.leftMargin /\ u.rightMargin = t.rightMargin
               /\ u.Height = t.Height /\ u.Width = t.Width /\ u.curX = t.curX /\ u.curY = t.curY
               /\ u.tabStops = t.tabStops /\ u.InAltScreen = t.InAltScreen
               /\ u.savedMain = t.savedMain /\ Slots(t, u)
         /\ LET u == FullWidth(t)
            IN /\ u \in Screens /\ u.leftMargin = 0 /\ u.rightMargin = t.Width - 1
               /\ u.scrollTop = t.scrollTop /\ u.scrollBottom = t.scrollBottom
               /\ u.Height = t.Height /\ u.Width = t.Width /\ u.curX = t.curX /\ u.curY = t.curY
               /\ u.tabStops = t.tabStops /\ u.InAltScreen = t.InAltScreen
               /\ u.savedMain = t.savedMain /\ Slots(t, u)
<1>1. t.Height - 1 \in Int /\ t.Width - 1 \in Int /\ 0 \in Int
  OBVIOUS
<1>2. LET u == FullRegion(t)
      IN /\ u \in Screens /\ u.scrollTop = 0 /\ u.scrollBottom = t.Height - 1
         /\ u.leftMargin = t.leftMargin /\ u.rightMargin = t.rightMargin
         /\ u.Height = t.Height /\ u.Width = t.Width /\ u.curX = t.curX /\ u.curY = t.curY
         /\ u.tabStops = t.tabStops /\ u.InAltScreen = t.InAltScreen
         /\ u.savedMain = t.savedMain /\ Slots(t, u)
  BY <1>1 DEF FullRegion, Screens, Slots
<1>3. LET u == FullWidth(t)
      IN /\ u \in Screens /\ u.leftMargin = 0 /\ u.rightMargin = t.Width - 1
         /\ u.scrollTop = t.scrollTop /\ u.scrollBottom = t.scrollBottom
         /\ u.Height = t.Height /\ u.Width = t.Width /\ u.curX = t.curX /\ u.curY = t.curY
         /\ u.tabStops = t.tabStops /\ u.InAltScreen = t.InAltScreen
         /\ u.savedMain = t.savedMain /\ Slots(t, u)
  BY <1>1 DEF FullWidth, Screens, Slots
<1> QED
  BY <1>2, <1>3

\* The screen whose regions are both at their widest, and only they changed.
LEMMA WidestSettles ==
  ASSUME NEW t, Sound(t), Region(t)
  PROVE  /\ Settles(t, NoBox(FullRegion(t))) /\ Slots(t, NoBox(FullRegion(t)))
         /\ Settles(t, FullRegion(t)) /\ Slots(t, FullRegion(t))
         /\ Settles(t, NoBox(t)) /\ Slots(t, NoBox(t))
<1>0. t \in Screens /\ t.Height \in Nat \ {0} /\ t.Width \in Nat \ {0}
  BY Numbers
<1>1. ASSUME NEW u \in Screens, Sound(u), Region(u)
      PROVE  Settles(u, NoBox(u)) /\ Slots(u, NoBox(u))
  <2> DEFINE v == FullWidth(u)
  <2>0. u.Height \in Nat \ {0} /\ u.Width \in Nat \ {0}
    BY <1>1, Numbers
  <2>1. /\ v \in Screens /\ v.leftMargin = 0 /\ v.rightMargin = u.Width - 1
        /\ v.scrollTop = u.scrollTop /\ v.scrollBottom = u.scrollBottom
        /\ v.Height = u.Height /\ v.Width = u.Width /\ v.curX = u.curX /\ v.curY = u.curY
        /\ v.tabStops = u.tabStops /\ v.InAltScreen = u.InAltScreen
        /\ v.savedMain = u.savedMain /\ Slots(u, v)
    BY <2>0, WidestIs
  <2> HIDE DEF v
  <2>2. Sound(v) /\ Region(v)
    BY <1>1, <2>0, <2>1 DEF Sound, Boxed, Inside, Ruled, Region
  <2>3. NoBox(u) = [v EXCEPT !.LRMarginMode = FALSE]
    BY DEF NoBox, v
  <2>4. NoBox(u) \in Screens /\ Framed(v, NoBox(u)) /\ Slots(v, NoBox(u))
    BY <2>1, <2>3, Flags, SwitchIs
  <2>5. Settles(v, NoBox(u))
    BY <2>1, <2>2, <2>4, FramedSettles, SlotsCalm
  <2> QED
    BY <2>1, <2>4, <2>5, SlotsCalm DEF Settles, Slots
<1> DEFINE w == FullRegion(t)
<1>2. /\ w \in Screens /\ w.scrollTop = 0 /\ w.scrollBottom = t.Height - 1
      /\ w.leftMargin = t.leftMargin /\ w.rightMargin = t.rightMargin
      /\ w.Height = t.Height /\ w.Width = t.Width /\ w.curX = t.curX /\ w.curY = t.curY
      /\ w.tabStops = t.tabStops /\ w.InAltScreen = t.InAltScreen
      /\ w.savedMain = t.savedMain /\ Slots(t, w)
  BY <1>0, WidestIs
<1> HIDE DEF w
<1>3. Sound(w) /\ Region(w)
  BY <1>0, <1>2 DEF Sound, Boxed, Inside, Ruled, Region
<1>4. Settles(w, NoBox(w)) /\ Slots(w, NoBox(w))
  BY <1>1, <1>2, <1>3
<1>5. Settles(t, w)
  BY <1>2, <1>3, SlotsCalm DEF Settles
<1>6. Settles(t, NoBox(t)) /\ Slots(t, NoBox(t))
  BY <1>0, <1>1
<1>7. Settles(t, NoBox(w)) /\ Slots(t, NoBox(w))
  BY <1>2, <1>4, <1>5 DEF Settles, Slots
<1> QED
  BY <1>2, <1>5, <1>6, <1>7 DEF w

LEMMA FramedSelf == \A t : Framed(t, t) /\ Slots(t, t)
BY DEF Framed, Slots

LEMMA LikeFramed ==
  ASSUME NEW t, NEW u, Like(t, u), u.curX = t.curX, u.curY = t.curY
  PROVE  Framed(t, u)
BY DEF Like, Framed

LEMMA ColumnModeSettles ==
  ASSUME NEW t, Sound(t), Region(t)
  PROVE  /\ Settles(t, setColumnMode(t)) /\ ~setColumnMode(t).pendingWrap
         /\ setColumnMode(t).mainSaved = t.mainSaved /\ setColumnMode(t).altSaved = t.altSaved
<1> DEFINE u == NoBox(FullRegion(t))
           v == Unwrap(u)
<1>1. Settles(t, u) /\ Slots(t, u)
  BY WidestSettles
<1>2. setColumnMode(t) = At(v, 0, 0)
  BY DEF setColumnMode
<1> HIDE DEF u
<1>3. Sound(u) /\ Region(u) /\ u \in Screens /\ u.Height \in Nat \ {0} /\ u.Width \in Nat \ {0}
  BY <1>1, Numbers DEF Settles
<1>4. /\ v \in Screens /\ Like(u, v) /\ v.curX = u.curX /\ v.curY = u.curY
      /\ v.pendingWrap = FALSE
  BY <1>3, UnwrapIs
<1> HIDE DEF v
<1>5. Framed(u, v) /\ (Calm(u) => Calm(v))
  BY <1>4, LikeFramed DEF Calm, Like
<1>6. Settles(u, v)
  BY <1>3, <1>4, <1>5, FramedSettles
<1>7. Sound(v) /\ Region(v) /\ 0 \in 0 .. v.Height - 1 /\ 0 \in 0 .. v.Width - 1
  BY <1>3, <1>6 DEF Settles
<1>8. Settles(v, At(v, 0, 0)) /\ At(v, 0, 0).pendingWrap = FALSE
  BY <1>4, <1>7, FramedSelf, PutSettles
<1>9. Like(v, At(v, 0, 0))
  BY <1>4, AtIs
<1>10. setColumnMode(t).mainSaved = t.mainSaved /\ setColumnMode(t).altSaved = t.altSaved
  BY <1>1, <1>2, <1>4, <1>9 DEF Like, Slots
<1> QED
  BY <1>1, <1>2, <1>6, <1>8, <1>10 DEF Settles

\* home: the corner of the region, or of the screen.
LEMMA HomeSettles ==
  ASSUME NEW t, Sound(t), Region(t)
  PROVE  /\ Settles(t, home(t)) /\ home(t).pendingWrap = t.pendingWrap
         /\ home(t).mainSaved = t.mainSaved /\ home(t).altSaved = t.altSaved
<1>1. /\ t.scrollTop \in 0 .. t.Height - 1 /\ leftBound(t) \in 0 .. t.Width - 1
      /\ 0 \in 0 .. t.Height - 1 /\ 0 \in 0 .. t.Width - 1 /\ t \in Screens
  BY Numbers
<1>2. ASSUME NEW y \in 0 .. t.Height - 1, NEW x \in 0 .. t.Width - 1
      PROVE  /\ Settles(t, At(t, y, x)) /\ At(t, y, x).pendingWrap = t.pendingWrap
             /\ At(t, y, x).mainSaved = t.mainSaved /\ At(t, y, x).altSaved = t.altSaved
  <2>1. x \in Int /\ y \in Int
    BY Numbers
  <2>2. Like(t, At(t, y, x))
    BY <1>1, <2>1, AtIs
  <2> QED
    BY <1>1, <2>2, FramedSelf, PutSettles DEF Like
<1> QED
  BY <1>1, <1>2 DEF home

\* New margins, not yet with the cursor at home.
Rows(v, low, high) == [v EXCEPT !.scrollTop = low, !.scrollBottom = high]
Cols(v, low, high) == [v EXCEPT !.leftMargin = low, !.rightMargin = high]
LEMMA RowsIs ==
  ASSUME NEW v \in Screens, NEW low \in Int, NEW high \in Int, NEW a, a = Rows(v, low, high)
  PROVE  /\ a \in Screens /\ a.scrollTop = low /\ a.scrollBottom = high
         /\ a.leftMargin = v.leftMargin /\ a.rightMargin = v.rightMargin
         /\ a.Height = v.Height /\ a.Width = v.Width /\ a.curX = v.curX /\ a.curY = v.curY
         /\ a.tabStops = v.tabStops /\ a.InAltScreen = v.InAltScreen
         /\ a.savedMain = v.savedMain /\ Slots(v, a)
BY DEF Rows, Screens, Slots
LEMMA ColsIs ==
  ASSUME NEW v \in Screens, NEW low \in Int, NEW high \in Int, NEW b, b = Cols(v, low, high)
  PROVE  /\ b \in Screens /\ b.leftMargin = low /\ b.rightMargin = high
         /\ b.scrollTop = v.scrollTop /\ b.scrollBottom = v.scrollBottom
         /\ b.Height = v.Height /\ b.Width = v.Width /\ b.curX = v.curX /\ b.curY = v.curY
         /\ b.tabStops = v.tabStops /\ b.InAltScreen = v.InAltScreen
         /\ b.savedMain = v.savedMain /\ Slots(v, b)
BY DEF Cols, Screens, Slots

\* A homed screen that differs from t in its margins alone.
LEMMA HomedSettles ==
  ASSUME NEW t, Sound(t), NEW w \in Screens, Sound(w), Region(w), ~w.pendingWrap,
         w.mainSaved = t.mainSaved, w.altSaved = t.altSaved,
         w.Height = t.Height, w.Width = t.Width
  PROVE  /\ Settles(t, home(w)) /\ ~home(w).pendingWrap
         /\ home(w).mainSaved = t.mainSaved /\ home(w).altSaved = t.altSaved
<1>1. /\ Settles(w, home(w)) /\ home(w).pendingWrap = w.pendingWrap
      /\ home(w).mainSaved = w.mainSaved /\ home(w).altSaved = w.altSaved
  BY HomeSettles
<1> QED
  BY <1>1 DEF Settles, Calm

LEMMA MarginsSettle ==
  ASSUME NEW t, Sound(t), Region(t), NEW p \in Nat \ {0}, NEW q \in Nat \ {0},
         NEW u, u \in {setScrollRegion(t, p, q), setLeftRightMargins(t, p, q)}
  PROVE  /\ Settles(t, u)
         /\ u = t \/ ~u.pendingWrap
         /\ u.mainSaved = t.mainSaved /\ u.altSaved = t.altSaved
<1>0. t \in Screens /\ t.Height \in Nat \ {0} /\ t.Width \in Nat \ {0}
  BY Numbers
<1>s. Settles(t, t)
  BY <1>0, FramedSelf, FramedSettles
<1> DEFINE low  == Greater(p - 1, 0)
           rows == Lesser(q - 1, t.Height - 1)
           cols == Lesser(q - 1, t.Width - 1)
           v == Unwrap(t)
           a == Rows(v, low, rows)
           b == Cols(v, low, cols)
<1>1. /\ low \in Nat /\ rows \in Int /\ rows < t.Height /\ cols \in Int /\ cols < t.Width
  BY <1>0 DEF Greater, Lesser
<1>2. /\ setScrollRegion(t, p, q) = IF low >= rows THEN t ELSE home(a)
      /\ setLeftRightMargins(t, p, q) = IF low >= cols THEN t ELSE home(b)
  BY DEF setScrollRegion, setLeftRightMargins, Rows, Cols
<1> HIDE DEF low, rows, cols
<1>3. /\ v \in Screens /\ Like(t, v) /\ v.curX = t.curX /\ v.curY = t.curY
      /\ v.pendingWrap = FALSE
  BY <1>0, UnwrapIs
<1> HIDE DEF v
<1>i. v \in Screens /\ low \in Int /\ rows \in Int /\ cols \in Int
  BY <1>1, <1>3
<1>4. /\ a \in Screens /\ a.scrollTop = low /\ a.scrollBottom = rows
      /\ a.leftMargin = v.leftMargin /\ a.rightMargin = v.rightMargin
      /\ a.Height = v.Height /\ a.Width = v.Width /\ a.curX = v.curX /\ a.curY = v.curY
      /\ a.tabStops = v.tabStops /\ a.InAltScreen = v.InAltScreen
      /\ a.savedMain = v.savedMain /\ Slots(v, a)
  BY <1>i, RowsIs
<1>5. /\ b \in Screens /\ b.leftMargin = low /\ b.rightMargin = cols
      /\ b.scrollTop = v.scrollTop /\ b.scrollBottom = v.scrollBottom
      /\ b.Height = v.Height /\ b.Width = v.Width /\ b.curX = v.curX /\ b.curY = v.curY
      /\ b.tabStops = v.tabStops /\ b.InAltScreen = v.InAltScreen
      /\ b.savedMain = v.savedMain /\ Slots(v, b)
  BY <1>i, ColsIs
<1> HIDE DEF a, b
<1>6. low < rows => Sound(a) /\ Region(a)
  BY <1>1, <1>3, <1>4 DEF Like, Sound, Boxed, Inside, Ruled, Region
<1>7. low < cols => Sound(b) /\ Region(b)
  BY <1>1, <1>3, <1>5 DEF Like, Sound, Boxed, Inside, Ruled, Region
<1>8. \A w \in {a, b} :
        /\ w \in Screens /\ w.pendingWrap = FALSE /\ w.mainSaved = t.mainSaved
        /\ w.altSaved = t.altSaved /\ w.Height = t.Height /\ w.Width = t.Width
  BY <1>3, <1>4, <1>5 DEF Like, Slots
<1>9. \A w \in {a, b} : Sound(w) /\ Region(w) =>
        /\ Settles(t, home(w)) /\ ~home(w).pendingWrap
        /\ home(w).mainSaved = t.mainSaved /\ home(w).altSaved = t.altSaved
  BY <1>8, HomedSettles
<1>10. \/ u = t
       \/ low < rows /\ u = home(a)
       \/ low < cols /\ u = home(b)
  BY <1>1, <1>2
<1> QED
  BY <1>s, <1>6, <1>7, <1>9, <1>10

\* New tab stops, which no motion but tabbing looks at.
Stopped(t, f) == [t EXCEPT !.tabStops = f]
LEMMA StoppedIs ==
  ASSUME NEW t \in Screens, NEW f \in StopTables, NEW u, u = Stopped(t, f)
  PROVE  /\ u \in Screens /\ u.tabStops = f /\ u.Height = t.Height /\ u.Width = t.Width
         /\ u.curX = t.curX /\ u.curY = t.curY
         /\ u.scrollTop = t.scrollTop /\ u.scrollBottom = t.scrollBottom
         /\ u.leftMargin = t.leftMargin /\ u.rightMargin = t.rightMargin
         /\ u.LRMarginMode = t.LRMarginMode /\ u.AutoWrap = t.AutoWrap
         /\ u.InAltScreen = t.InAltScreen /\ u.savedMain = t.savedMain /\ Slots(t, u)
BY DEF Stopped, Screens, Slots

LEMMA StopsSettle ==
  ASSUME NEW t, Sound(t), Region(t),
         NEW u, u \in {setTabStop(t, TRUE), setTabStop(t, FALSE), clearAllTabStops(t)}
  PROVE  /\ Settles(t, u) /\ Slots(t, u)
         /\ AtEdge(t) => AtEdge(u)
<1>0. t \in Screens /\ t.Width \in Nat /\ (t.tabStops = NoStops \/ t.tabStops \in [0 .. t.Width - 1 -> Flag])
  BY Numbers DEF Sound, Ruled
<1>1. DefaultStops(t.Width) \in [0 .. t.Width - 1 -> Flag]
  <2>1. \A x : (x > 0 /\ x % TabSize = 0) \in Flag
    BY DEF Flag
  <2> QED
    BY <2>1 DEF DefaultStops
<1>2. Stops(t) \in [0 .. t.Width - 1 -> Flag]
  BY <1>0, <1>1 DEF Stops
<1>3. PICK f \in [0 .. t.Width - 1 -> Flag] : u = Stopped(t, f)
  <2>1. /\ [Stops(t) EXCEPT ![t.curX] = TRUE] \in [0 .. t.Width - 1 -> Flag]
        /\ [Stops(t) EXCEPT ![t.curX] = FALSE] \in [0 .. t.Width - 1 -> Flag]
        /\ [x \in 0 .. t.Width - 1 |-> FALSE] \in [0 .. t.Width - 1 -> Flag]
    BY <1>2, Flags
  <2>2. /\ setTabStop(t, TRUE) = Stopped(t, [Stops(t) EXCEPT ![t.curX] = TRUE])
        /\ setTabStop(t, FALSE) = Stopped(t, [Stops(t) EXCEPT ![t.curX] = FALSE])
        /\ clearAllTabStops(t) = Stopped(t, [x \in 0 .. t.Width - 1 |-> FALSE])
    BY DEF setTabStop, clearAllTabStops, Stopped
  <2> QED
    BY <2>1, <2>2, Zenon
<1>4. f \in StopTables
  BY <1>0 DEF StopTables
<1>5. /\ u \in Screens /\ u.tabStops = f /\ u.Height = t.Height /\ u.Width = t.Width
      /\ u.curX = t.curX /\ u.curY = t.curY
      /\ u.scrollTop = t.scrollTop /\ u.scrollBottom = t.scrollBottom
      /\ u.leftMargin = t.leftMargin /\ u.rightMargin = t.rightMargin
      /\ u.LRMarginMode = t.LRMarginMode /\ u.AutoWrap = t.AutoWrap
      /\ u.InAltScreen = t.InAltScreen /\ u.savedMain = t.savedMain /\ Slots(t, u)
  BY <1>0, <1>3, <1>4, StoppedIs
<1>6. Sound(u) /\ Region(u)
  BY <1>5 DEF Sound, Boxed, Inside, Ruled, Region
<1>7. wrapEdge(u) = wrapEdge(t)
  BY <1>5 DEF wrapEdge, withinHMargins, leftBound, rightBound
<1>8. AtEdge(t) => AtEdge(u)
  BY <1>5, <1>7, Zenon DEF AtEdge, Slots
<1> QED
  BY <1>5, <1>6, <1>8, SlotsCalm DEF Settles

\* A cursor saved in the slot of the screen shown, or put back from it.
LEMMA SlotIs ==
  ASSUME NEW t \in Screens, NEW slot \in Saves, slot.pendingWrap = t.pendingWrap
  PROVE  /\ LET u == [t EXCEPT !.altSaved = slot]
            IN u \in Screens /\ Framed(t, u) /\ (Calm(t) => Calm(u))
         /\ LET u == [t EXCEPT !.mainSaved = slot]
            IN u \in Screens /\ Framed(t, u) /\ (Calm(t) => Calm(u))
<1>1. LET u == [t EXCEPT !.altSaved = slot]
      IN /\ u \in Screens /\ Framed(t, u) /\ u.altSaved = slot /\ u.mainSaved = t.mainSaved
         /\ u.pendingWrap = t.pendingWrap
  BY DEF Screens, Framed
<1>2. LET u == [t EXCEPT !.mainSaved = slot]
      IN /\ u \in Screens /\ Framed(t, u) /\ u.mainSaved = slot /\ u.altSaved = t.altSaved
         /\ u.pendingWrap = t.pendingWrap
  BY DEF Screens, Framed
<1> QED
  BY <1>1, <1>2 DEF Calm

LEMMA SaveSettles ==
  ASSUME NEW t, Sound(t), Region(t)
  PROVE  Settles(t, saveCursor(t))
<1> DEFINE slot == [valid |-> TRUE, x |-> t.curX, y |-> t.curY, origin |-> t.OriginMode,
                    pendingWrap |-> t.pendingWrap]
<1>1. t \in Screens /\ t.curX \in Nat /\ t.curY \in Nat
  BY Numbers
<1>2. slot \in Saves
  BY <1>1, Flags DEF Saves, Screens
<1>3. slot.pendingWrap = t.pendingWrap
  OBVIOUS
<1>4. saveCursor(t) = IF t.InAltScreen THEN [t EXCEPT !.altSaved = slot]
                      ELSE [t EXCEPT !.mainSaved = slot]
  BY Zenon DEF saveCursor
<1> HIDE DEF slot
<1>5. /\ saveCursor(t) \in Screens /\ Framed(t, saveCursor(t))
      /\ Calm(t) => Calm(saveCursor(t))
  BY <1>1, <1>2, <1>3, <1>4, SlotIs
<1> QED
  BY <1>5, FramedSettles

Posed(t, o, p) == [t EXCEPT !.OriginMode = o, !.pendingWrap = p]
LEMMA PosedIs ==
  ASSUME NEW t \in Screens, NEW o \in Flag, NEW p \in Flag, NEW u, u = Posed(t, o, p)
  PROVE  /\ u \in Screens /\ Framed(t, u) /\ u.pendingWrap = p
         /\ u.mainSaved = t.mainSaved /\ u.altSaved = t.altSaved
BY DEF Posed, Screens, Framed

LEMMA UnwrapSettles ==
  ASSUME NEW t, Sound(t), Region(t)
  PROVE  Settles(t, Unwrap(t)) /\ Unwrap(t) \in Screens
<1>1. /\ Unwrap(t) \in Screens /\ Like(t, Unwrap(t)) /\ Unwrap(t).curX = t.curX
      /\ Unwrap(t).curY = t.curY /\ Unwrap(t).pendingWrap = FALSE
  BY Numbers, UnwrapIs
<1> QED
  BY <1>1, LikeFramed, FramedSettles DEF Calm, Like

LEMMA OnwardSettles ==
  \A t, u, v : Settles(t, u) /\ Settles(u, v) => Settles(t, v)
BY DEF Settles

LEMMA RestoreSettles ==
  ASSUME NEW t, Sound(t), Region(t)
  PROVE  Settles(t, restoreCursor(t))
<1> DEFINE slot == IF t.InAltScreen THEN t.altSaved ELSE t.mainSaved
           y == Lesser(slot.y, t.Height - 1)
           x == Lesser(slot.x, t.Width - 1)
<1>0. t \in Screens /\ t.Height \in Nat \ {0} /\ t.Width \in Nat \ {0}
  BY Numbers
<1>1. slot \in Saves /\ (Calm(t) => ~slot.pendingWrap)
  BY <1>0 DEF Screens, Calm
<1>2. restoreCursor(t) = IF ~slot.valid THEN At(Unwrap(t), 0, 0)
                         ELSE Posed(At(t, y, x), slot.origin, slot.pendingWrap)
  BY Zenon DEF restoreCursor, Posed
<1> HIDE DEF slot
<1>3. y \in 0 .. t.Height - 1 /\ x \in 0 .. t.Width - 1
  BY <1>0, <1>1 DEF Lesser, Saves
<1>4. slot.origin \in Flag /\ slot.pendingWrap \in Flag
  BY <1>1 DEF Saves
<1> HIDE DEF y, x
<1>5. Settles(t, At(Unwrap(t), 0, 0))
  <2>1. /\ Settles(t, Unwrap(t)) /\ Unwrap(t) \in Screens
        /\ Sound(Unwrap(t)) /\ Region(Unwrap(t))
        /\ 0 \in 0 .. Unwrap(t).Height - 1 /\ 0 \in 0 .. Unwrap(t).Width - 1
    BY <1>0, UnwrapSettles DEF Settles
  <2>2. Settles(Unwrap(t), At(Unwrap(t), 0, 0))
    BY <2>1, FramedSelf, PutSettles
  <2> QED
    BY <2>1, <2>2, OnwardSettles
<1>6. Settles(t, Posed(At(t, y, x), slot.origin, slot.pendingWrap))
  <2> DEFINE w == At(t, y, x)
             u == Posed(w, slot.origin, slot.pendingWrap)
  <2>1. Settles(t, w)
    BY <1>0, <1>3, FramedSelf, PutSettles
  <2>2. w \in Screens /\ w.mainSaved = t.mainSaved /\ w.altSaved = t.altSaved
    <3>1. y \in Int /\ x \in Int
      BY <1>3
    <3> QED
      BY <1>0, <3>1, AtIs DEF Like
  <2> HIDE DEF w
  <2>3. /\ u \in Screens /\ Framed(w, u) /\ u.pendingWrap = slot.pendingWrap
        /\ u.mainSaved = w.mainSaved /\ u.altSaved = w.altSaved
    BY <1>4, <2>2, PosedIs
  <2> HIDE DEF u
  <2>4. Calm(t) => Calm(u)
    BY <1>1, <2>2, <2>3 DEF Calm
  <2>5. Sound(u) /\ Region(u) /\ u.Height = w.Height /\ u.Width = w.Width
    BY <2>1, <2>3 DEF Settles, Framed, Sound, Boxed, Inside, Ruled, Region
  <2> QED
    BY <2>1, <2>4, <2>5 DEF Settles, u, w
<1> QED
  BY <1>2, <1>5, <1>6

\* The alternate screen and back.
Yes == TRUE
No  == FALSE
LEMMA YesNo == Yes \in Flag /\ No \in Flag
BY Flags, Zenon DEF Yes, No
Main(b, x, y, top, bottom) == [valid |-> b, x |-> x, y |-> y, top |-> top, bottom |-> bottom]
LEMMA MainIs ==
  ASSUME NEW b \in Flag, NEW x \in Int, NEW y \in Int, NEW top \in Int, NEW bottom \in Int,
         NEW m, m = Main(b, x, y, top, bottom)
  PROVE  /\ m \in Mains /\ m.valid = b /\ m.x = x /\ m.y = y
         /\ m.top = top /\ m.bottom = bottom
BY DEF Main, Mains
Alted(t, m) == [t EXCEPT !.InAltScreen = TRUE, !.savedMain = m]
LEMMA AltedIs ==
  ASSUME NEW t \in Screens, NEW m \in Mains, NEW u, u = Alted(t, m)
  PROVE  /\ u \in Screens /\ u.InAltScreen = TRUE /\ u.savedMain = m
         /\ u.Height = t.Height /\ u.Width = t.Width /\ u.curX = t.curX /\ u.curY = t.curY
         /\ u.scrollTop = t.scrollTop /\ u.scrollBottom = t.scrollBottom
         /\ u.leftMargin = t.leftMargin /\ u.rightMargin = t.rightMargin
         /\ u.tabStops = t.tabStops /\ Slots(t, u)
BY Flags DEF Alted, Screens, Slots

LEMMA EnterSettles ==
  ASSUME NEW t, Sound(t), Region(t), NEW mode
  PROVE  Settles(t, enterAltScreen(t, mode))
<1> DEFINE m == [valid |-> TRUE, x |-> t.curX, y |-> t.curY,
                 top |-> t.scrollTop, bottom |-> t.scrollBottom]
           w == FullRegion(t)
           u == Alted(w, m)
<1>0. /\ t \in Screens /\ t.Height \in Nat \ {0} /\ t.Width \in Nat \ {0}
      /\ t.curX \in Nat /\ t.curY \in Nat /\ t.scrollTop \in Nat /\ t.scrollBottom \in Nat
      /\ t.scrollTop <= t.scrollBottom /\ t.scrollTop < t.Height
  BY Numbers
<1>1. /\ m \in Mains /\ m.valid = Yes /\ m.x = t.curX /\ m.y = t.curY
      /\ m.top = t.scrollTop /\ m.bottom = t.scrollBottom
  <2>1. t.curX \in Int /\ t.curY \in Int /\ t.scrollTop \in Int /\ t.scrollBottom \in Int
    BY <1>0
  <2>2. m = Main(Yes, t.curX, t.curY, t.scrollTop, t.scrollBottom)
    BY Zenon DEF Main, Yes
  <2> HIDE DEF m
  <2> QED
    BY <2>1, <2>2, YesNo, MainIs
<1>2. enterAltScreen(t, mode) = IF t.InAltScreen THEN t
                                ELSE IF mode = 1049 THEN At(u, 0, 0) ELSE u
  BY Zenon DEF enterAltScreen, Alted
<1> HIDE DEF m
<1>3. Settles(t, w) /\ Slots(t, w) /\ w \in Screens /\ w.Height = t.Height /\ w.Width = t.Width
  BY WidestSettles, <1>0, WidestIs DEF Settles
<1> HIDE DEF w
<1>4. /\ u \in Screens /\ u.InAltScreen = TRUE /\ u.savedMain = m
      /\ u.Height = w.Height /\ u.Width = w.Width /\ u.curX = w.curX /\ u.curY = w.curY
      /\ u.scrollTop = w.scrollTop /\ u.scrollBottom = w.scrollBottom
      /\ u.leftMargin = w.leftMargin /\ u.rightMargin = w.rightMargin
      /\ u.tabStops = w.tabStops /\ Slots(w, u)
  BY <1>1, <1>3, AltedIs
<1> HIDE DEF u
<1>5. Sound(u)
  BY <1>3, <1>4 DEF Settles, Sound, Boxed, Inside, Ruled
<1>6. Region(u)
  BY <1>0, <1>1, <1>3, <1>4 DEF Region, Yes
<1>7. Settles(t, u)
  BY <1>3, <1>4, <1>5, <1>6, SlotsCalm DEF Settles
<1>8. Settles(u, At(u, 0, 0))
  <2>1. 0 \in 0 .. u.Height - 1 /\ 0 \in 0 .. u.Width - 1
    BY <1>0, <1>3, <1>4
  <2> QED
    BY <1>4, <1>5, <1>6, <2>1, FramedSelf, PutSettles
<1>9. Settles(t, t)
  BY <1>0, FramedSelf, FramedSettles
<1> QED
  BY <1>2, <1>7, <1>8, <1>9, OnwardSettles

Mained(t, top, bottom) ==
  [t EXCEPT !.scrollTop = top, !.scrollBottom = bottom,
            !.InAltScreen = FALSE, !.savedMain = NoMain]
LEMMA MainedIs ==
  ASSUME NEW t \in Screens, NEW top \in Int, NEW bottom \in Int, NEW u, u = Mained(t, top, bottom)
  PROVE  /\ u \in Screens /\ u.InAltScreen = FALSE /\ u.savedMain = NoMain
         /\ u.Height = t.Height /\ u.Width = t.Width /\ u.curX = t.curX /\ u.curY = t.curY
         /\ u.scrollTop = top /\ u.scrollBottom = bottom
         /\ u.leftMargin = t.leftMargin /\ u.rightMargin = t.rightMargin
         /\ u.tabStops = t.tabStops /\ Slots(t, u)
<1>1. NoMain \in Mains
  <2>1. NoMain = Main(No, 0, 0, 0, 0)
    BY Zenon DEF Main, NoMain, No
  <2> QED
    BY <2>1, YesNo, MainIs
<1> QED
  BY <1>1, Flags DEF Mained, Screens, Slots

LEMMA ExitSettles ==
  ASSUME NEW t, Sound(t), Region(t), NEW mode
  PROVE  Settles(t, exitAltScreen(t, mode))
<1>0. /\ t \in Screens /\ t.Height \in Nat \ {0} /\ t.Width \in Nat \ {0}
      /\ t.curX \in Nat /\ t.curY \in Nat
  BY Numbers
<1>s. Settles(t, t)
  BY <1>0, FramedSelf, FramedSettles
<1>1. SUFFICES ASSUME t.InAltScreen, t.savedMain.valid
               PROVE  Settles(t, exitAltScreen(t, mode))
  BY <1>s DEF exitAltScreen
<1> DEFINE m == t.savedMain
           u == IF mode = 1049 THEN At(t, m.y, m.x) ELSE t
           y == Lesser(u.curY, t.Height - 1)
           x == Lesser(u.curX, t.Width - 1)
           bottom == Lesser(m.bottom, t.Height - 1)
           w == At(u, y, x)
           v == Mained(w, m.top, bottom)
<1>2. exitAltScreen(t, mode) = v
  BY <1>1, Zenon DEF exitAltScreen, Mained
<1>3. /\ m.x \in Nat /\ m.y \in Nat /\ m.top \in Nat /\ m.bottom \in Int
      /\ m.top <= m.bottom /\ m.top < t.Height
  BY <1>0, <1>1 DEF Region, Screens, Mains
<1> HIDE DEF m
<1>4. /\ u \in Screens /\ Like(t, u) /\ u.curX \in Nat /\ u.curY \in Nat
      /\ u.pendingWrap = t.pendingWrap
  BY <1>0, <1>3, AtIs, LikeSelf
<1> HIDE DEF u
<1>5. y \in 0 .. t.Height - 1 /\ x \in 0 .. t.Width - 1 /\ y \in Int /\ x \in Int
  BY <1>0, <1>4 DEF Lesser
<1>6. m.top <= bottom /\ bottom < t.Height /\ bottom \in Int /\ m.top \in Int
  BY <1>0, <1>3 DEF Lesser
<1> HIDE DEF y, x, bottom
<1>7. /\ w \in Screens /\ Like(u, w) /\ w.curX = x /\ w.curY = y
      /\ w.pendingWrap = u.pendingWrap
  BY <1>4, <1>5, AtIs
<1> HIDE DEF w
<1>8. /\ v \in Screens /\ v.InAltScreen = FALSE /\ v.savedMain = NoMain
      /\ v.Height = w.Height /\ v.Width = w.Width /\ v.curX = w.curX /\ v.curY = w.curY
      /\ v.scrollTop = m.top /\ v.scrollBottom = bottom
      /\ v.leftMargin = w.leftMargin /\ v.rightMargin = w.rightMargin
      /\ v.tabStops = w.tabStops /\ Slots(w, v)
  BY <1>6, <1>7, MainedIs
<1> HIDE DEF v
<1>9. Like(t, w)
  BY <1>4, <1>7, LikeOnward
<1>10. Sound(v)
  BY <1>0, <1>3, <1>5, <1>6, <1>7, <1>8, <1>9 DEF Sound, Boxed, Inside, Ruled, Like
<1>11. Region(v)
  BY <1>8 DEF Region, NoMain
<1>12. Calm(t) => Calm(v)
  BY <1>4, <1>7, <1>8, <1>9 DEF Calm, Slots, Like
<1> QED
  BY <1>2, <1>8, <1>9, <1>10, <1>11, <1>12 DEF Settles, Like

\* A mode flipped, and nothing moved.
Origin(t, b)   == [t EXCEPT !.OriginMode = b]
Wraps(t, b)    == [t EXCEPT !.AutoWrap = b]
Fixes(t, b)    == [t EXCEPT !.moreFix = b]
Reverses(t, b) == [t EXCEPT !.ReverseWrap = b]
Margined(t, b) == [t EXCEPT !.LRMarginMode = b]
NewLine(t, b)  == [t EXCEPT !.LineFeedNewLine = b]
Flipped(t) ==
  UNION {{Origin(t, b), Wraps(t, b), Fixes(t, b), Reverses(t, b), Margined(t, b),
          NewLine(t, b)} : b \in Flag}
LEMMA FlippedSettles ==
  ASSUME NEW t, Sound(t), Region(t), NEW u, u \in Flipped(t)
  PROVE  Settles(t, u) /\ u \in Screens /\ Framed(t, u) /\ Slots(t, u)
<1>1. t \in Screens
  BY Numbers
<1>2. u \in Screens /\ Framed(t, u) /\ Slots(t, u)
  BY <1>1, SwitchIs DEF Flipped, Origin, Wraps, Fixes, Reverses, Margined, NewLine
<1> QED
  BY <1>2, FramedSettles, SlotsCalm

LEMMA FlippedAre ==
  ASSUME NEW t, NEW b \in Flag
  PROVE  /\ Origin(t, b) \in Flipped(t) /\ Wraps(t, b) \in Flipped(t)
         /\ Fixes(t, b) \in Flipped(t) /\ Reverses(t, b) \in Flipped(t)
         /\ Margined(t, b) \in Flipped(t) /\ NewLine(t, b) \in Flipped(t)
BY DEF Flipped

LEMMA SetModeIs ==
  ASSUME NEW t
  PROVE  /\ setMode(t, 3) = setColumnMode(t)
         /\ setMode(t, 6) = At(Origin(t, Yes), t.scrollTop, leftBound(t))
         /\ setMode(t, 7) = Wraps(t, Yes)
         /\ setMode(t, 41) = Fixes(t, Yes)
         /\ setMode(t, 45) = Reverses(t, Yes)
         /\ setMode(t, 69) \in {t, Margined(t, Yes)}
         /\ \A mode \in AltModes : setMode(t, mode) = enterAltScreen(t, mode)
         /\ setMode(t, 1048) = saveCursor(t)
BY DEF setMode, AltModes, Yes, Origin, Wraps, Fixes, Reverses, Margined
LEMMA ResetModeIs ==
  ASSUME NEW t
  PROVE  /\ resetMode(t, 3) = setColumnMode(t)
         /\ resetMode(t, 6) = At(Origin(t, No), 0, 0)
         /\ resetMode(t, 7) = Wraps(t, No)
         /\ resetMode(t, 41) = Fixes(t, No)
         /\ resetMode(t, 45) = Reverses(t, No)
         /\ resetMode(t, 69) = NoBox(t)
         /\ \A mode \in AltModes : resetMode(t, mode) = exitAltScreen(t, mode)
         /\ resetMode(t, 1048) = restoreCursor(t)
BY DEF resetMode, AltModes, No, Origin, Wraps, Fixes, Reverses

LEMMA ModesSettle ==
  ASSUME NEW t, Sound(t), Region(t)
  PROVE  \A mode \in {3, 6, 7, 41, 45, 47, 69, 1047, 1048, 1049} :
           Settles(t, setMode(t, mode)) /\ Settles(t, resetMode(t, mode))
<1>0. /\ t \in Screens /\ t.Height \in Nat \ {0} /\ t.Width \in Nat \ {0}
      /\ t.scrollTop \in 0 .. t.Height - 1 /\ leftBound(t) \in 0 .. t.Width - 1
      /\ 0 \in 0 .. t.Height - 1 /\ 0 \in 0 .. t.Width - 1
  BY Numbers
<1>s. Settles(t, t)
  BY <1>0, FramedSelf, FramedSettles
<1>1. Settles(t, setMode(t, 3)) /\ Settles(t, resetMode(t, 3))
  BY ColumnModeSettles, SetModeIs, ResetModeIs
<1>2. Settles(t, setMode(t, 6)) /\ Settles(t, resetMode(t, 6))
  <2>1. ASSUME NEW b \in Flag, NEW y \in 0 .. t.Height - 1, NEW x \in 0 .. t.Width - 1
        PROVE  Settles(t, At(Origin(t, b), y, x))
    BY FlippedAre, FlippedSettles, PutSettles
  <2>2. /\ Settles(t, At(Origin(t, Yes), t.scrollTop, leftBound(t)))
        /\ Settles(t, At(Origin(t, No), 0, 0))
    BY <1>0, <2>1, YesNo
  <2> QED
    BY <2>2, SetModeIs, ResetModeIs
<1>3. \A mode \in {7, 41, 45} : Settles(t, setMode(t, mode)) /\ Settles(t, resetMode(t, mode))
  <2>1. \A b \in Flag : Settles(t, Wraps(t, b)) /\ Settles(t, Fixes(t, b)) /\ Settles(t, Reverses(t, b))
    BY FlippedAre, FlippedSettles
  <2> QED
    BY <2>1, YesNo, SetModeIs, ResetModeIs
<1>4. Settles(t, setMode(t, 69)) /\ Settles(t, resetMode(t, 69))
  <2>1. Settles(t, Margined(t, Yes))
    BY YesNo, FlippedAre, FlippedSettles
  <2>2. Settles(t, NoBox(t))
    BY WidestSettles
  <2> QED
    BY <1>s, <2>1, <2>2, SetModeIs, ResetModeIs
<1>5. \A mode \in AltModes : Settles(t, setMode(t, mode)) /\ Settles(t, resetMode(t, mode))
  <2>1. ASSUME NEW mode \in AltModes
        PROVE  Settles(t, enterAltScreen(t, mode)) /\ Settles(t, exitAltScreen(t, mode))
    BY EnterSettles, ExitSettles
  <2>2. \A mode \in AltModes : /\ setMode(t, mode) = enterAltScreen(t, mode)
                               /\ resetMode(t, mode) = exitAltScreen(t, mode)
    BY SetModeIs, ResetModeIs
  <2> QED
    BY <2>1, <2>2
<1>6. Settles(t, setMode(t, 1048)) /\ Settles(t, resetMode(t, 1048))
  <2>1. setMode(t, 1048) = saveCursor(t) /\ resetMode(t, 1048) = restoreCursor(t)
    BY SetModeIs, ResetModeIs
  <2> QED
    BY <2>1, SaveSettles, RestoreSettles
<1> QED
  BY <1>1, <1>2, <1>3, <1>4, <1>5, <1>6 DEF AltModes

LEMMA ModeSavesSettle ==
  ASSUME NEW t, Sound(t), Region(t), NEW mode \in DecModes
  PROVE  Settles(t, xtSaveModes(t, mode)) /\ Settles(t, xtRestoreModes(t, mode))
<1>1. t \in Screens /\ t.savedModeValues \in SUBSET DecModes
  BY Numbers DEF Screens
<1>2. PICK m \in SUBSET DecModes : xtSaveModes(t, mode) = [t EXCEPT !.savedModeValues = m]
  <2>1. xtSaveModes(t, mode) =
          [t EXCEPT !.savedModeValues = IF IsSet(t, mode) THEN t.savedModeValues \cup {mode}
                                        ELSE t.savedModeValues \ {mode}]
    BY <1>1 DEF xtSaveModes, Screens
  <2>2. (IF IsSet(t, mode) THEN t.savedModeValues \cup {mode}
         ELSE t.savedModeValues \ {mode}) \in SUBSET DecModes
    BY <1>1
  <2> QED
    BY <2>1, <2>2, Zenon
<1>3. LET u == [t EXCEPT !.savedModeValues = m]
      IN u \in Screens /\ Framed(t, u) /\ Slots(t, u)
  BY <1>1 DEF Screens, Framed, Slots
<1>4. Settles(t, xtSaveModes(t, mode))
  BY <1>2, <1>3, FramedSettles, SlotsCalm
<1>5. mode \in {3, 6, 7, 41, 45, 47, 69, 1047, 1048, 1049}
  BY CursorAssumption
<1> QED
  BY <1>4, <1>5, ModesSettle DEF xtRestoreModes

\* A soft reset's settings, and what a full one adds.
Fresh(t) ==
  [t EXCEPT !.mainSaved = NoSave, !.altSaved = NoSave, !.OriginMode = FALSE, !.AutoWrap = TRUE,
            !.ReverseWrap = FALSE, !.moreFix = FALSE, !.LineFeedNewLine = FALSE]
Cleared(t) == [t EXCEPT !.InAltScreen = FALSE, !.savedMain = NoMain, !.tabStops = NoStops]

LEMMA NoSaveIs == NoSave \in Saves /\ ~NoSave.pendingWrap
<1> DEFINE Save(b) == [valid |-> b, x |-> 0, y |-> 0, origin |-> b, pendingWrap |-> b]
<1>1. \A b \in Flag : Save(b) \in Saves
  BY DEF Saves
<1>2. NoSave = Save(No)
  BY Zenon DEF NoSave, No
<1> HIDE DEF Save
<1>3. NoSave \in Saves
  BY <1>1, <1>2, YesNo
<1> QED
  BY <1>3 DEF NoSave

LEMMA FreshIs ==
  ASSUME NEW t \in Screens, NEW u, u = Fresh(t)
  PROVE  /\ u \in Screens /\ Framed(t, u) /\ u.mainSaved = NoSave /\ u.altSaved = NoSave
         /\ u.pendingWrap = t.pendingWrap
<1>1. TRUE \in Flag /\ FALSE \in Flag /\ NoSave \in Saves
  BY Flags, NoSaveIs
<1> QED
  BY <1>1 DEF Fresh, Screens, Framed

LEMMA ClearedIs ==
  ASSUME NEW t \in Screens, NEW u, u = Cleared(t)
  PROVE  /\ u \in Screens /\ u.InAltScreen = FALSE /\ u.savedMain = NoMain /\ u.tabStops = NoStops
         /\ u.Height = t.Height /\ u.Width = t.Width /\ u.curX = t.curX /\ u.curY = t.curY
         /\ u.scrollTop = t.scrollTop /\ u.scrollBottom = t.scrollBottom
         /\ u.leftMargin = t.leftMargin /\ u.rightMargin = t.rightMargin
         /\ Slots(t, u)
<1>1. FALSE \in Flag /\ NoMain \in Mains /\ NoStops \in StopTables
  <2>1. NoMain = Main(No, 0, 0, 0, 0)
    BY Zenon DEF Main, NoMain, No
  <2>2. NoMain \in Mains
    BY <2>1, YesNo, MainIs
  <2> QED
    BY <2>2, Flags DEF StopTables
<1> QED
  BY <1>1 DEF Cleared, Screens, Slots

LEMMA SoftResetSettles ==
  ASSUME NEW t, Sound(t), Region(t)
  PROVE  /\ Settles(t, softReset(t)) /\ Calm(softReset(t)) /\ softReset(t) \in Screens
         /\ ~softReset(t).pendingWrap
<1> DEFINE u == Unwrap(t)
           v == NoBox(FullRegion(u))
           w == Fresh(v)
<1>1. /\ Settles(t, u) /\ Sound(u) /\ Region(u) /\ u.pendingWrap = FALSE
  BY UnwrapSettles, UnwrapIs, Numbers DEF Settles
<1>2. softReset(t) = w
  BY Zenon DEF softReset, Fresh
<1> HIDE DEF u
<1>3. Settles(u, v) /\ Slots(u, v) /\ Sound(v) /\ Region(v) /\ v \in Screens
  BY <1>1, WidestSettles, Numbers DEF Settles
<1> HIDE DEF v
<1>4. /\ w \in Screens /\ Framed(v, w) /\ w.mainSaved = NoSave /\ w.altSaved = NoSave
      /\ w.pendingWrap = v.pendingWrap
  BY <1>3, FreshIs
<1> HIDE DEF w
<1>5. Calm(w) /\ ~w.pendingWrap
  BY <1>1, <1>3, <1>4, NoSaveIs DEF Calm, Slots
<1>6. Settles(v, w)
  BY <1>3, <1>4, <1>5, FramedSettles
<1> QED
  BY <1>1, <1>2, <1>3, <1>4, <1>5, <1>6, OnwardSettles

LEMMA ResetSettles ==
  ASSUME NEW t, Sound(t), Region(t)
  PROVE  Settles(t, RIS(t)) /\ Calm(RIS(t))
<1> DEFINE u == softReset(t)
           v == At(u, 0, 0)
           w == Cleared(v)
<1>1. Settles(t, u) /\ Sound(u) /\ Region(u) /\ u \in Screens /\ Calm(u)
  BY SoftResetSettles DEF Settles
<1>2. RIS(t) = w
  BY Zenon DEF RIS, Cleared
<1> HIDE DEF u
<1>3. 0 \in 0 .. u.Height - 1 /\ 0 \in 0 .. u.Width - 1
  BY <1>1, Numbers
<1>4. Settles(u, v) /\ Sound(v) /\ Region(v) /\ v \in Screens /\ Calm(v)
  BY <1>1, <1>3, FramedSelf, PutSettles, Numbers DEF Settles
<1> HIDE DEF v
<1>5. /\ w \in Screens /\ w.InAltScreen = FALSE /\ w.savedMain = NoMain /\ w.tabStops = NoStops
      /\ w.Height = v.Height /\ w.Width = v.Width /\ w.curX = v.curX /\ w.curY = v.curY
      /\ w.scrollTop = v.scrollTop /\ w.scrollBottom = v.scrollBottom
      /\ w.leftMargin = v.leftMargin /\ w.rightMargin = v.rightMargin
      /\ Slots(v, w)
  BY <1>4, ClearedIs
<1> HIDE DEF w
<1>6. Sound(w)
  BY <1>4, <1>5 DEF Sound, Boxed, Inside, Ruled
<1>7. Region(w)
  BY <1>5 DEF Region, NoMain
<1>8. Settles(v, w) /\ Calm(w)
  BY <1>4, <1>5, <1>6, <1>7, SlotsCalm DEF Settles
<1> QED
  BY <1>1, <1>2, <1>4, <1>8, OnwardSettles

-----------------------------------------------------------------------------
(* A resize.                                                               *)

Sized(t, rows, cols, stops, y, x, m) ==
  [t EXCEPT !.Height = rows, !.Width = cols, !.tabStops = stops, !.curY = y, !.curX = x,
            !.savedMain = m]
LEMMA SizedIs ==
  ASSUME NEW t \in Screens, NEW rows \in Nat, NEW cols \in Nat, NEW stops \in StopTables,
         NEW y \in Int, NEW x \in Int, NEW m \in Mains,
         NEW u, u = Sized(t, rows, cols, stops, y, x, m)
  PROVE  /\ u \in Screens /\ u.Height = rows /\ u.Width = cols /\ u.tabStops = stops
         /\ u.curY = y /\ u.curX = x /\ u.savedMain = m /\ u.InAltScreen = t.InAltScreen
         /\ Slots(t, u)
BY DEF Sized, Screens, Slots

Clipped(m, x, y) == [m EXCEPT !.x = x, !.y = y]
LEMMA ClippedIs ==
  ASSUME NEW m \in Mains, NEW x \in Int, NEW y \in Int, NEW n, n = Clipped(m, x, y)
  PROVE  /\ n \in Mains /\ n.valid = m.valid /\ n.x = x /\ n.y = y
         /\ n.top = m.top /\ n.bottom = m.bottom
BY DEF Clipped, Mains

Recut(t, rows, cols, stops, y) ==
  [t EXCEPT !.Height = rows, !.Width = cols, !.tabStops = stops,
            !.curY = y, !.curX = Lesser(@, cols - 1),
            !.savedMain.x = Lesser(@, cols - 1), !.savedMain.y = Lesser(@, rows - 1)]
LEMMA RecutIs ==
  ASSUME NEW t \in Screens, NEW rows, NEW cols, NEW stops, NEW y
  PROVE  Recut(t, rows, cols, stops, y)
         = Sized(t, rows, cols, stops, y, Lesser(t.curX, cols - 1),
                 Clipped(t.savedMain, Lesser(t.savedMain.x, cols - 1),
                         Lesser(t.savedMain.y, rows - 1)))
BY DEF Recut, Sized, Clipped, Screens, Mains

\* The screen has the new size, everything is on it, and no wrap is pending
\* that was not.
LEMMA ResizeSettles ==
  ASSUME NEW t, Sound(t), Region(t), NEW rows \in Nat \ {0}, NEW cols \in Nat \ {0},
         t.InAltScreen => t.savedMain.top < rows
  PROVE  /\ Sound(Resize(t, rows, cols)) /\ Region(Resize(t, rows, cols))
         /\ Resize(t, rows, cols).Height = rows /\ Resize(t, rows, cols).Width = cols
         /\ Calm(t) => Calm(Resize(t, rows, cols))
<1> DEFINE y0 == IF t.InAltScreen /\ rows > t.Height THEN t.curY + rows - t.Height ELSE t.curY
           stops == IF t.tabStops = NoStops \/ cols = t.Width THEN t.tabStops
                    ELSE [c \in 0 .. cols - 1 |-> IF c < t.Width THEN t.tabStops[c]
                                                  ELSE DefaultStops(cols)[c]]
           y == Lesser(y0, rows - 1)
           x == Lesser(t.curX, cols - 1)
           m == Clipped(t.savedMain, Lesser(t.savedMain.x, cols - 1),
                        Lesser(t.savedMain.y, rows - 1))
           u == Sized(t, rows, cols, stops, y, x, m)
           v == FullRegion(u)
           w == FullWidth(v)
<1>0. /\ t \in Screens /\ t.Height \in Nat /\ t.Width \in Nat \ {0}
      /\ t.curX \in 0 .. t.Width - 1 /\ t.curY \in 0 .. t.Height - 1
      /\ t.savedMain \in Mains /\ t.savedMain.x \in Int /\ t.savedMain.y \in Int
      /\ t.tabStops \in StopTables /\ t.InAltScreen \in Flag
      /\ t.tabStops = NoStops \/ t.tabStops \in [0 .. t.Width - 1 -> Flag]
  BY Numbers DEF Screens, Mains, Sound, Ruled
<1>1. Resize(t, rows, cols) = w
  <2>1. Resize(t, rows, cols) = FullWidth(FullRegion(Recut(t, rows, cols, stops, y)))
    BY Zenon DEF Resize, Recut
  <2> HIDE DEF y, stops
  <2> QED
    BY <1>0, <2>1, RecutIs
<1>2. y0 \in Nat
  BY <1>0
<1> HIDE DEF y0
<1>3. y \in 0 .. rows - 1 /\ x \in 0 .. cols - 1 /\ y \in Int /\ x \in Int
  BY <1>0, <1>2 DEF Lesser
<1> HIDE DEF y, x
<1>4. /\ stops \in StopTables
      /\ stops = NoStops \/ stops \in [0 .. cols - 1 -> Flag]
  <2>1. CASE t.tabStops = NoStops \/ cols = t.Width
    BY <1>0, <2>1
  <2>2. CASE ~(t.tabStops = NoStops \/ cols = t.Width)
    <3>1. \A c : (c > 0 /\ c % TabSize = 0) \in Flag
      BY DEF Flag
    <3>2. DefaultStops(cols) \in [0 .. cols - 1 -> Flag]
      BY <3>1 DEF DefaultStops
    <3>3. stops = [c \in 0 .. cols - 1 |-> IF c < t.Width THEN t.tabStops[c]
                                           ELSE DefaultStops(cols)[c]]
      BY <2>2
    <3>4. t.tabStops \in [0 .. t.Width - 1 -> Flag]
      BY <1>0, <2>2
    <3>5. \A c \in 0 .. cols - 1 : (IF c < t.Width THEN t.tabStops[c]
                                    ELSE DefaultStops(cols)[c]) \in Flag
      BY <1>0, <3>2, <3>4
    <3> HIDE DEF stops
    <3>6. stops \in [0 .. cols - 1 -> Flag]
      BY <3>3, <3>5
    <3> QED
      BY <3>6 DEF StopTables
  <2> QED
    BY <2>1, <2>2
<1> HIDE DEF stops
<1>5. /\ m \in Mains /\ m.valid = t.savedMain.valid
      /\ m.x = Lesser(t.savedMain.x, cols - 1) /\ m.y = Lesser(t.savedMain.y, rows - 1)
      /\ m.top = t.savedMain.top /\ m.bottom = t.savedMain.bottom
  <2>1. Lesser(t.savedMain.x, cols - 1) \in Int /\ Lesser(t.savedMain.y, rows - 1) \in Int
    BY <1>0 DEF Lesser
  <2> QED
    BY <1>0, <2>1, ClippedIs
<1> HIDE DEF m
<1>6. /\ u \in Screens /\ u.Height = rows /\ u.Width = cols /\ u.tabStops = stops
      /\ u.curY = y /\ u.curX = x /\ u.savedMain = m /\ u.InAltScreen = t.InAltScreen
      /\ Slots(t, u)
  <2>1. rows \in Nat /\ cols \in Nat
    OBVIOUS
  <2> QED
    BY <1>0, <1>3, <1>4, <1>5, <2>1, SizedIs
<1> HIDE DEF u
<1>7. /\ v \in Screens /\ v.scrollTop = 0 /\ v.scrollBottom = u.Height - 1
      /\ v.Height = u.Height /\ v.Width = u.Width /\ v.curX = u.curX /\ v.curY = u.curY
      /\ v.tabStops = u.tabStops /\ v.InAltScreen = u.InAltScreen
      /\ v.savedMain = u.savedMain /\ Slots(u, v)
  BY <1>6, WidestIs
<1> HIDE DEF v
<1>8. /\ w \in Screens /\ w.leftMargin = 0 /\ w.rightMargin = v.Width - 1
      /\ w.scrollTop = v.scrollTop /\ w.scrollBottom = v.scrollBottom
      /\ w.Height = v.Height /\ w.Width = v.Width /\ w.curX = v.curX /\ w.curY = v.curY
      /\ w.tabStops = v.tabStops /\ w.InAltScreen = v.InAltScreen
      /\ w.savedMain = v.savedMain /\ Slots(v, w)
  BY <1>6, <1>7, WidestIs
<1> HIDE DEF w
<1>9. Sound(w)
  BY <1>3, <1>4, <1>6, <1>7, <1>8 DEF Sound, Boxed, Inside, Ruled
<1>10. Region(w)
  <2>1. t.InAltScreen => 0 <= m.x /\ 0 <= m.y
    BY <1>0, <1>5 DEF Region, Lesser
  <2> QED
    BY <1>5, <1>6, <1>7, <1>8, <2>1 DEF Region
<1>11. Calm(t) => Calm(w)
  BY <1>6, <1>7, <1>8, SlotsCalm
<1> QED
  BY <1>1, <1>6, <1>7, <1>8, <1>9, <1>10, <1>11

-----------------------------------------------------------------------------
(* Absolute positions.                                                     *)

LEMMA PositionKept ==
  ASSUME NEW t, Sound(t), NEW y \in Nat, NEW x \in Nat,
         NEW u, u \in {cursorPosition(Unwrap(t), y, x), Column(Unwrap(t), originCol(t, x)),
                       Row(Unwrap(t), originRow(t, y))}
  PROVE  Sound(u) /\ Like(t, u) /\ ~u.pendingWrap
<1> DEFINE v == Unwrap(t)
           row == originRow(t, y)
           col == originCol(t, x)
<1>1. /\ Sound(v) /\ Like(t, v) /\ ~v.pendingWrap /\ v \in Screens
      /\ v.curX = t.curX /\ v.curY = t.curY
  BY UnwrapKept, UnwrapIs, Numbers DEF Kept
<1>2. row \in 0 .. t.Height - 1 /\ col \in 0 .. t.Width - 1
  BY Numbers DEF originRow, originCol, Lesser
<1>3. originRow(v, y) = row /\ originCol(v, x) = col
  BY <1>1, Numbers, Bounds DEF originRow, originCol, Like, Sound
<1>4. u \in {At(v, row, col), Column(v, col), Row(v, row)}
  BY <1>3 DEF cursorPosition
<1> HIDE DEF v, row, col
<1>5. row \in Int /\ col \in Int
  BY <1>2
<1>6. /\ u \in Screens /\ Like(v, u) /\ u.pendingWrap = v.pendingWrap
      /\ u.curX \in {col, v.curX} /\ u.curY \in {row, v.curY}
  <2> DEFINE Placed(w) == /\ w \in Screens /\ Like(v, w) /\ w.pendingWrap = v.pendingWrap
                          /\ w.curX \in {col, v.curX} /\ w.curY \in {row, v.curY}
  <2>1. Placed(At(v, row, col))
    BY <1>1, <1>5, AtIs
  <2>2. Placed(Column(v, col))
    BY <1>1, <1>5, ColumnIs
  <2>3. Placed(Row(v, row))
    BY <1>1, <1>5, RowIs
  <2> HIDE DEF Placed
  <2>4. Placed(u)
    BY <1>4, <2>1, <2>2, <2>3
  <2> QED
    BY <2>4 DEF Placed
<1>7. Inside(u)
  BY <1>1, <1>2, <1>6, Numbers DEF Inside, Like
<1>8. Sound(u)
  BY <1>1, <1>6, <1>7, StaysSound
<1>9. Like(t, u)
  BY <1>1, <1>6, LikeOnward
<1>10. ~u.pendingWrap
  BY <1>1, <1>6
<1> QED
  BY <1>8, <1>9, <1>10

LEMMA LikeRegion ==
  ASSUME NEW t, Region(t), NEW u, Like(t, u)
  PROVE  Region(u)
BY DEF Region, Like

-----------------------------------------------------------------------------
(* The state machine.                                                      *)

ScreenInv == Sound(s) /\ Region(s) /\ <<s.Height, s.Width>> \in Sizes
\* No slot holds a pending wrap, nor is one pending elsewhere than at the edge.
Rested(t) == ~t.mainSaved.pendingWrap /\ ~t.altSaved.pendingWrap
EdgeInv == AtEdge(s) /\ Rested(s)

\* A setting's step, as both invariants see it.
LEMMA SettledStep ==
  ASSUME Settles(s, s'), ScreenInv
  PROVE  ScreenInv'
BY DEF Settles, ScreenInv

LEMMA KeptStep ==
  ASSUME Sound(s'), Like(s, s'), ScreenInv
  PROVE  ScreenInv'
BY LikeRegion DEF Like, ScreenInv

LEMMA CalmStep == \A t : Calm(t) => AtEdge(t) /\ Rested(t)
BY Zenon DEF Calm, AtEdge, Rested
LEMMA RestedStep == \A t, u : Like(t, u) /\ Rested(t) => Rested(u)
BY DEF Like, Rested

LEMMA NewIs ==
  ASSUME NEW rows \in Nat \ {0}, NEW cols \in Nat \ {0}
  PROVE  /\ Sound(New(rows, cols)) /\ Region(New(rows, cols)) /\ Calm(New(rows, cols))
         /\ New(rows, cols).Height = rows /\ New(rows, cols).Width = cols
<1> DEFINE Blank(y, n, top, left, m, slot) ==
             [Height |-> rows, Width |-> cols, curX |-> 0, curY |-> 0, pendingWrap |-> n,
              scrollTop |-> 0, scrollBottom |-> top, leftMargin |-> 0, rightMargin |-> left,
              LRMarginMode |-> n, OriginMode |-> n, AutoWrap |-> y, ReverseWrap |-> n,
              moreFix |-> n, LineFeedNewLine |-> n, conformanceLevel |-> 65,
              InAltScreen |-> n, savedMain |-> m, mainSaved |-> slot, altSaved |-> slot,
              tabStops |-> NoStops, savedModeValues |-> {}]
           t == Blank(Yes, No, rows - 1, cols - 1, NoMain, NoSave)
<1>1. New(rows, cols) = t
  BY Zenon DEF New, Yes, No
<1>2. NoMain \in Mains /\ NoSave \in Saves /\ NoStops \in StopTables
  <2>1. NoMain = Main(No, 0, 0, 0, 0)
    BY Zenon DEF Main, NoMain, No
  <2>2. NoMain \in Mains
    BY <2>1, YesNo, MainIs
  <2> QED
    BY <2>2, NoSaveIs DEF StopTables
<1>3. \A y, n \in Flag, top, left \in Int, m \in Mains, slot \in Saves :
        Blank(y, n, top, left, m, slot) \in Screens
  BY <1>2 DEF Screens
<1>4. rows - 1 \in Int /\ cols - 1 \in Int
  OBVIOUS
<1>5. t \in Screens
  <2> HIDE DEF Blank
  <2> QED
    BY <1>2, <1>3, <1>4, YesNo
<1>6. /\ t.Height = rows /\ t.Width = cols /\ t.curX = 0 /\ t.curY = 0
      /\ t.scrollTop = 0 /\ t.scrollBottom = rows - 1
      /\ t.leftMargin = 0 /\ t.rightMargin = cols - 1
      /\ t.InAltScreen = No /\ t.savedMain = NoMain /\ t.tabStops = NoStops
      /\ t.mainSaved = NoSave /\ t.altSaved = NoSave /\ t.pendingWrap = No
  OBVIOUS
<1> HIDE DEF t
<1>7. Sound(t)
  BY <1>5, <1>6 DEF Sound, Boxed, Inside, Ruled
<1>8. Region(t)
  BY <1>6 DEF Region, NoMain, No
<1>9. Calm(t)
  BY <1>6, NoSaveIs DEF Calm, No
<1> QED
  BY <1>1, <1>6, <1>7, <1>8, <1>9

LEMMA ScreenInit == Init => ScreenInv /\ EdgeInv
<1>1. FirstSize \in Sizes /\ FirstSize[1] \in Nat \ {0} /\ FirstSize[2] \in Nat \ {0}
      /\ <<FirstSize[1], FirstSize[2]>> = FirstSize
  BY CursorAssumption
<1> HAVE Init
<1>2. s = New(FirstSize[1], FirstSize[2])
  BY DEF Init
<1> QED
  BY <1>1, <1>2, NewIs, CalmStep DEF ScreenInv, EdgeInv

\* What keeps a wrap at the edge: nothing is left pending and no slot changed,
\* or the step is one that is only taken with nothing pending.
Steady == "movedPending" \notin Mishaps /\ EdgeInv => EdgeInv'
LEMMA CarefulSteady == Careful /\ (Calm(s) => Calm(s')) => Steady
<1> SUFFICES ASSUME Careful, Calm(s) => Calm(s'), "movedPending" \notin Mishaps, EdgeInv
             PROVE  EdgeInv'
  BY DEF Steady
<1>1. Calm(s)
  BY DEF Careful, EdgeInv, Rested, Calm
<1> QED
  BY <1>1, CalmStep DEF EdgeInv
LEMMA UnpendedSteady ==
  ~s'.pendingWrap /\ s'.mainSaved = s.mainSaved /\ s'.altSaved = s.altSaved => Steady
BY DEF Steady, EdgeInv, AtEdge, Rested
LEMMA KeptSteady == Kept(s, s') => Steady
BY RestedStep DEF Kept, Steady, EdgeInv

LEMMA StepKeeps ==
  ASSUME "shrunkAlt" \notin Mishaps, ScreenInv, Next
  PROVE  ScreenInv' /\ Steady
<1>0. Sound(s) /\ Region(s)
  BY DEF ScreenInv
<1>1. CASE Move
  <2>1. Kept(s, s')
    <3>1. CASE \E n \in Counts : s' \in Relative(s, n)
      <4>1. PICK n \in Counts : s' \in Relative(s, n)
        BY <3>1
      <4>2. n \in Nat \ {0}
        BY <4>1, CursorAssumption
      <4> QED
        BY <1>0, <4>1, <4>2, RelativeKept
    <3>2. CASE s' \in Controls(s)
      BY <1>0, <3>2, ControlsKept
    <3> QED
      BY <1>1, <3>1, <3>2 DEF Move
  <2> QED
    BY <2>1, KeptStep, KeptSteady DEF Kept
<1>2. CASE Position
  <2>1. PICK y \in 0 .. s.Height, x \in 0 .. s.Width :
          s' \in {cursorPosition(Unwrap(s), y, x), Column(Unwrap(s), originCol(s, x)),
                  Row(Unwrap(s), originRow(s, y))}
    BY <1>2 DEF Position
  <2>2. y \in Nat /\ x \in Nat
    BY <1>0, Numbers
  <2>3. Sound(s') /\ Like(s, s') /\ ~s'.pendingWrap
    BY <1>0, <2>1, <2>2, PositionKept
  <2>4. s'.mainSaved = s.mainSaved /\ s'.altSaved = s.altSaved
    BY <2>3 DEF Like
  <2> QED
    BY <2>3, <2>4, KeptStep, UnpendedSteady
<1>3. CASE PrintGlyph
  <2>1. PICK w \in Glyphs : s' = put(s, w)
    BY <1>3 DEF PrintGlyph
  <2>2. w \in {1, 2}
    BY CursorAssumption
  <2>3. Kept(s, s')
    BY <1>0, <2>1, <2>2, PutKept
  <2> QED
    BY <2>3, KeptStep, KeptSteady DEF Kept
<1>4. CASE Margins
  <2>1. PICK p \in Nat \ {0}, q \in Nat \ {0} :
          s' \in {setScrollRegion(s, p, q), setLeftRightMargins(s, p, q)}
    <3>1. \A i, n : n \in Nat /\ i \in 1 .. n => i \in Nat \ {0}
      OBVIOUS
    <3>2. s.Height \in Nat /\ s.Width \in Nat
      BY <1>0, Numbers
    <3> QED
      BY <1>4, <3>1, <3>2 DEF Margins
  <2>2. /\ Settles(s, s')
        /\ s' = s \/ ~s'.pendingWrap
        /\ s'.mainSaved = s.mainSaved /\ s'.altSaved = s.altSaved
    BY <1>0, <2>1, MarginsSettle
  <2>3. s' = s => Steady
    BY DEF Steady, EdgeInv, AtEdge, Rested
  <2> QED
    BY <2>2, <2>3, SettledStep, UnpendedSteady
<1>5. CASE Tabs
  <2>1. /\ Settles(s, s') /\ Slots(s, s')
        /\ AtEdge(s) => AtEdge(s')
    BY <1>0, <1>5, StopsSettle DEF Tabs
  <2>2. Steady
    BY <2>1 DEF Slots, Steady, EdgeInv, Rested
  <2> QED
    BY <2>1, <2>2, SettledStep
<1>6. CASE Modes
  <2>1. Settles(s, s')
    <3>1. CASE \E mode \in DecModes :
                 s' \in {setMode(s, mode), resetMode(s, mode),
                         xtSaveModes(s, mode), xtRestoreModes(s, mode)}
      <4>1. PICK mode \in DecModes :
                 s' \in {setMode(s, mode), resetMode(s, mode),
                         xtSaveModes(s, mode), xtRestoreModes(s, mode)}
        BY <3>1
      <4>2. mode \in {3, 6, 7, 41, 45, 47, 69, 1047, 1048, 1049}
        BY <4>1, CursorAssumption
      <4> QED
        BY <1>0, <4>1, <4>2, ModesSettle, ModeSavesSettle
    <3>2. CASE \E on \in BOOLEAN : s' = [s EXCEPT !.LineFeedNewLine = on]
      <4>1. PICK on \in Flag : s' = NewLine(s, on)
        BY <3>2 DEF NewLine, Flag
      <4> QED
        BY <1>0, <4>1, FlippedAre, FlippedSettles
    <3>3. CASE \E level \in {62, 65} : s' = [s EXCEPT !.conformanceLevel = level]
      <4>1. PICK level \in {62, 65} : s' = [s EXCEPT !.conformanceLevel = level]
        BY <3>3
      <4>2. s \in Screens /\ level \in Nat
        BY <1>0, Numbers
      <4>3. s' \in Screens /\ Framed(s, s') /\ Slots(s, s')
        BY <4>1, <4>2 DEF Screens, Framed, Slots
      <4> QED
        BY <1>0, <4>3, FramedSettles, SlotsCalm
    <3> QED
      BY <1>6, <3>1, <3>2, <3>3 DEF Modes
  <2>2. Careful
    BY <1>6 DEF Modes
  <2> QED
    BY <2>1, <2>2, SettledStep, CarefulSteady DEF Settles
<1>7. CASE SaveRestore
  <2>1. Settles(s, saveCursor(s)) /\ Settles(s, restoreCursor(s))
    BY <1>0, SaveSettles, RestoreSettles
  <2>2. Settles(s, restoreCursor(Unwrap(s)))
    <3>1. Settles(s, Unwrap(s)) /\ Sound(Unwrap(s)) /\ Region(Unwrap(s))
      BY <1>0, UnwrapSettles DEF Settles
    <3> QED
      BY <3>1, RestoreSettles, OnwardSettles
  <2>3. Settles(s, s') /\ Careful
    BY <1>7, <2>1, <2>2 DEF SaveRestore
  <2> QED
    BY <2>3, SettledStep, CarefulSteady DEF Settles
<1>8. CASE Reset
  <2>1. CASE s' \in {softReset(s), RIS(s)}
    <3>1. Settles(s, s') /\ Calm(s')
      BY <1>0, <2>1, SoftResetSettles, ResetSettles
    <3>2. Steady
      BY <3>1, CalmStep DEF Steady, EdgeInv
    <3> QED
      BY <3>1, <3>2, SettledStep
  <2>2. CASE s' = DECALN(s)
    <3>1. /\ Settles(s, s') /\ ~s'.pendingWrap
          /\ s'.mainSaved = s.mainSaved /\ s'.altSaved = s.altSaved
      BY <1>0, <2>2, ColumnModeSettles DEF DECALN
    <3> QED
      BY <3>1, SettledStep, UnpendedSteady
  <2> QED
    BY <1>8, <2>1, <2>2 DEF Reset
<1>9. CASE ClientResizes
  <2>1. PICK size \in Sizes : /\ s' = Resize(s, size[1], size[2])
                              /\ ~(s.InAltScreen /\ s.savedMain.top >= size[1])
    BY <1>9 DEF ClientResizes
  <2>2. size[1] \in Nat \ {0} /\ size[2] \in Nat \ {0} /\ <<size[1], size[2]>> = size
    BY CursorAssumption
  <2>3. s.InAltScreen => s.savedMain.top < size[1]
    <3>1. s.savedMain.top \in Int
      BY <1>0, Numbers DEF Screens, Mains
    <3> QED
      BY <2>1, <2>2, <3>1
  <2>4. /\ Sound(s') /\ Region(s') /\ s'.Height = size[1] /\ s'.Width = size[2]
        /\ Calm(s) => Calm(s')
    BY <1>0, <2>1, <2>2, <2>3, ResizeSettles
  <2>5. Careful
    BY <1>9 DEF ClientResizes
  <2> QED
    BY <2>2, <2>4, <2>5, CarefulSteady DEF ScreenInv
<1> QED
  BY <1>1, <1>2, <1>3, <1>4, <1>5, <1>6, <1>7, <1>8, <1>9 DEF Next

LEMMA ScreenNext ==
  "shrunkAlt" \notin Mishaps => (ScreenInv /\ [Next]_vars => ScreenInv' /\ Steady)
<1>1. ScreenInv /\ UNCHANGED vars => ScreenInv' /\ Steady
  BY DEF vars, ScreenInv, Steady, EdgeInv, AtEdge, Rested
<1> QED
  BY <1>1, StepKeeps

LEMMA ScreenSafe ==
  ASSUME ScreenInv
  PROVE  OnScreen
<1>1. /\ s \in Screens /\ Boxed(s) /\ Inside(s) /\ Ruled(s)
      /\ Region(s) /\ <<s.Height, s.Width>> \in Sizes
  BY DEF ScreenInv, Sound
<1>2. s.mainSaved \in Saves /\ s.altSaved \in Saves
  BY <1>1 DEF Screens
<1>3. Saves = Slot
  BY DEF Saves, Slot, Flag
<1>4. s.tabStops = NoStops \/ DOMAIN s.tabStops = 0 .. s.Width - 1
  BY <1>1 DEF Ruled
<1>5. s.InAltScreen <=> s.savedMain.valid
  BY <1>1 DEF Region
<1> QED
  BY <1>1, <1>2, <1>3, <1>4, <1>5 DEF OnScreen, Boxed, Inside

\* The cursor and the margins are on the screen, for every set of sizes, any
\* number of resizes and any settings, unless the alternate screen has shrunk
\* away the main screen's region: cells are indexed by them unchecked.
THEOREM AlwaysOnScreen ==
  ASSUME "shrunkAlt" \notin Mishaps
  PROVE  Spec => []OnScreen
<1>1. Init => ScreenInv
  BY ScreenInit
<1>2. ScreenInv /\ [Next]_vars => ScreenInv'
  BY ScreenNext
<1>3. ScreenInv => OnScreen
  BY ScreenSafe
<1> QED
  BY <1>1, <1>2, <1>3, PTL DEF Spec

LEMMA EdgeSafe ==
  ASSUME ScreenInv, EdgeInv
  PROVE  PendingAtEdge
<1>1. s.pendingWrap => s.curX = wrapEdge(s) /\ s.AutoWrap
  BY DEF EdgeInv, AtEdge
<1>2. ASSUME ~s.AutoWrap, NEW w \in Glyphs
      PROVE  put(s, w).curY = s.curY
  <2>1. w \in {1, 2} /\ ~s.pendingWrap
    BY <1>1, <1>2, CursorAssumption
  <2> QED
    BY <1>2, <2>1, PutKept DEF ScreenInv
<1> QED
  BY <1>1, <1>2 DEF PendingAtEdge

\* A deferred wrap is pending only where the last character filled its line, and
\* with autowrap off printing stays on its row, for any screen and settings,
\* when modes, saves and resizes come with no wrap pending.
THEOREM AlwaysPendingAtEdge ==
  ASSUME {"shrunkAlt", "movedPending"} \cap Mishaps = {}
  PROVE  Spec => []PendingAtEdge
<1>1. Init => ScreenInv /\ EdgeInv
  BY ScreenInit
<1>2. (ScreenInv /\ EdgeInv) /\ [Next]_vars => (ScreenInv /\ EdgeInv)'
  BY ScreenNext DEF Steady
<1>3. ScreenInv /\ EdgeInv => PendingAtEdge
  BY EdgeSafe
<1> QED
  BY <1>1, <1>2, <1>3, PTL DEF Spec

LEMMA RegionSafe ==
  ASSUME "wrapBelow" \notin Mishaps, ScreenInv
  PROVE  RegionConfines
<1> DEFINE printed == {put(s, w) : w \in Glyphs}
           moved   == Controls(s) \cup UNION {Relative(s, n) : n \in Counts}
<1>0. Sound(s) /\ Glyphs \subseteq {1, 2} /\ Counts \subseteq Nat \ {0}
  BY CursorAssumption DEF ScreenInv
<1>1. \A t \in printed \cup moved : Kept(s, t)
  BY <1>0, PutKept, ControlsKept, RelativeKept
<1>2. \A t \in Down(s) : s.curY > s.scrollBottom => t.curY >= s.curY
  <2>1. LF(s).curY >= s.curY /\ IND(s).curY >= s.curY /\ NEL(s).curY >= s.curY
    BY <1>0, LinesKept
  <2>2. ASSUME NEW n \in Counts
        PROVE  s.curY > s.scrollBottom => cursorDown(Unwrap(s), n).curY >= s.curY
    <3>1. /\ Sound(Unwrap(s)) /\ ~Unwrap(s).pendingWrap /\ Unwrap(s).curY = s.curY
          /\ Unwrap(s).scrollBottom = s.scrollBottom
      BY <1>0, UnwrapKept, UnwrapIs, Numbers DEF Kept, Like
    <3> QED
      BY <1>0, <3>1, Vertical
  <2> QED
    BY <2>1, <2>2 DEF Down
<1>3. ASSUME NEW w \in Glyphs
      PROVE  put(s, w).curY >= s.curY \/ (WrapsFirst(s, w) /\ "wrapBelow" \notin Mishaps)
  <2>1. ~WrapsFirst(s, w) => put(s, w).curY = s.curY
    BY <1>0, PutKept
  <2>2. s.curY \in Nat
    BY <1>0, Numbers
  <2> QED
    BY <2>1, <2>2
<1>4. withinVMargins(s) => \A t \in printed \cup moved : withinVMargins(t)
  BY <1>1 DEF Kept
<1> QED
  BY <1>2, <1>3, <1>4 DEF RegionConfines

\* The scroll region confines every character and every motion, for any screen,
\* any counts and any settings; a step down from below it never leads back up.
THEOREM RegionAlwaysConfines ==
  ASSUME {"shrunkAlt", "wrapBelow"} \cap Mishaps = {}
  PROVE  Spec => []RegionConfines
<1>1. Init => ScreenInv
  BY ScreenInit
<1>2. ScreenInv /\ [Next]_vars => ScreenInv'
  BY ScreenNext
<1>3. ScreenInv => RegionConfines
  BY RegionSafe
<1> QED
  BY <1>1, <1>2, <1>3, PTL DEF Spec

=============================================================================
