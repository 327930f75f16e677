------------------------------ MODULE LineStore ------------------------------
(***************************************************************************)
(* web/src/store.ts: the tab's copy of the terminal, one map from absolute *)
(* line index to content.  Committed history and the live window share the *)
(* map; `floor` (unconfirmedFrom) is the index from which its content is   *)
(* only what a window last showed, and a resume asks for everything from   *)
(* there on.                                                               *)
(*                                                                         *)
(* A store is a record and every method an operator from store to store.   *)
(* Demand paging (the browse cache and the solicited window) is left out:  *)
(* this is the store under a server that does not page.  So are the cells  *)
(* of a row, the cursor, and what the renderer must redraw.                *)
(***************************************************************************)
EXTENDS Integers, Sequences, FiniteSets

CONSTANTS MaxIndex,    \* bound: absolute indices stay below it
          MaxLines     \* maxLines: rows kept besides a taller live window

ASSUME StoreAssumption == MaxIndex \in Nat /\ MaxLines \in Nat \ {0}

Confirmed == MaxIndex + 1      \* the floor when nothing held is provisional
NoWindow  == [base |-> 0, height |-> 0]

EmptyStore ==
  [lines |-> <<>>, floor |-> Confirmed, win |-> NoWindow, alt |-> FALSE,
   altRows |-> <<>>, evictedThrough |-> -1, erasedThrough |-> -1]

Lowest(S)     == IF S = {} THEN -1 ELSE CHOOSE a \in S : \A b \in S : a <= b
Highest(S)    == IF S = {} THEN -1 ELSE CHOOSE a \in S : \A b \in S : b <= a
Larger(a, b)  == IF a > b THEN a ELSE b
Smaller(a, b) == IF a < b THEN a ELSE b

\* The n lowest and the n highest members of S.
FirstOf(S, n) == {a \in S : Cardinality({b \in S : b < a}) < n}
LastOf(S, n)  == {a \in S : Cardinality({b \in S : b > a}) < n}

Held(st)   == DOMAIN st.lines
Bottom(st) == st.win.base + st.win.height - 1
Window(st) == st.win.base .. Bottom(st)     \* empty without a window

\* forget: the one way a row leaves.
Forget(st, S) == [st EXCEPT !.lines = [a \in Held(st) \ S |-> st.lines[a]]]

-----------------------------------------------------------------------------
(* Retention.                                                              *)

Bound(st)        == Larger(MaxLines, st.win.height)
EvictionBatch(n) == Smaller(256, Larger(1, n \div 16))

\* The live window is never evicted; the newest row stays unless it lies above
\* the window.
Evictable(st) ==
  {a \in Held(st) \ Window(st) :
     a < Highest(Held(st)) \/ (st.win.height > 0 /\ a > Bottom(st))}

\* Oldest first, down to a batch below the bound.
EnforceCap(st) ==
  LET count   == Cardinality(Held(st))
      target  == Bound(st) - EvictionBatch(Bound(st)) + 1
      victims == FirstOf(Evictable(st), count - target)
  IN IF count <= Bound(st) \/ victims = {} THEN st
     ELSE [Forget(st, victims) EXCEPT
             !.evictedThrough = Larger(@, Highest(victims))]

\* applyLine's guards: neither evicted nor erased before, unless in the window.
Admitted(st, a) ==
  (a > st.evictedThrough /\ a > st.erasedThrough) \/ a \in Window(st)

ApplyLine(st, a, row) ==
  IF ~Admitted(st, a) \/ (a \in Held(st) /\ st.lines[a] = row) THEN st
  ELSE EnforceCap([st EXCEPT !.lines = [b \in Held(st) \cup {a} |->
                                          IF b = a THEN row ELSE st.lines[b]]])

\* Applies rows[i] at first + i - 1 for the i in I, in order: after[i] is the
\* store after the first i rows.
ApplyRows(st, first, rows, I) ==
  LET after[i \in 0 .. Len(rows)] ==
        IF i = 0 THEN st
        ELSE IF i \in I THEN ApplyLine(after[i - 1], first + i - 1, rows[i])
        ELSE after[i - 1]
  IN after[Len(rows)]

-----------------------------------------------------------------------------
(* The provisional floor.                                                  *)

MarkUnconfirmedFrom(st, base) == [st EXCEPT !.floor = Smaller(@, base)]

\* Rows the server committed.  A range that starts above the floor leaves a gap
\* provisional, unless the floor names rows no longer held.
ConfirmRange(st, first, n) ==
  LET end    == first + n
      oldest == Lowest(Held(st))
  IN IF n <= 0 THEN st
     ELSE IF first <= st.floor THEN [st EXCEPT !.floor = Larger(@, end)]
     ELSE IF oldest >= 0 /\ st.floor < oldest
            THEN [st EXCEPT !.floor = Larger(end, oldest)]
     ELSE st

\* replayBoundary: what a resume claims to hold; the server sends what is above.
\* (The mutant claims the live window too.)
MutClaimWindow(st) == Highest(Held(st))
ReplayBoundary(st) == Smaller(Highest(Held(st)), st.floor - 1)

-----------------------------------------------------------------------------
(* Frames.                                                                 *)

\* ED3: everything below base goes, and what went may not come back.
ApplyScrollbackCleared(st, base) ==
  LET erased == {a \in Held(st) : a < base}
      raised == [st EXCEPT !.floor = Larger(@, base)]
  IN IF erased = {} THEN raised
     ELSE [Forget(raised, erased) EXCEPT
             !.erasedThrough = Larger(@, Highest(erased))]

\* What a taller or lower window left behind below the live one.
TruncateBelowWindow(st) ==
  IF st.win.height = 0 THEN st
  ELSE Forget(st, {a \in Held(st) : a > Bottom(st)})

ApplyAltRows(st, msg) ==
  LET n        == Len(msg.rows)
      known(y) == IF st.alt /\ y <= Len(st.altRows) THEN st.altRows[y] ELSE 0
  IN [st EXCEPT !.alt = TRUE,
                !.altRows = [y \in 1 .. n |->
                   IF y \in msg.changed THEN msg.rows[y] ELSE known(y)]]

ApplyMainRows(st, msg) ==
  LET shaped == [st EXCEPT !.alt = FALSE, !.altRows = <<>>,
                           !.win = [base |-> msg.base, height |-> Len(msg.rows)]]
      marked == MarkUnconfirmedFrom(shaped, msg.base)
  IN EnforceCap(TruncateBelowWindow(
       ApplyRows(marked, msg.base, msg.rows, msg.changed)))

\* A frame: base, rows (none for a bare signal), which of them changed, and
\* whether it shows the alternate screen or carries ED3.
ApplyScreen(st, msg) ==
  LET cleared == IF msg.cleared THEN ApplyScrollbackCleared(st, msg.base) ELSE st
  IN IF msg.rows = <<>> THEN cleared
     ELSE IF msg.alt THEN ApplyAltRows(cleared, msg)
     ELSE ApplyMainRows(cleared, msg)

\* Committed rows.  Under the alternate screen only those below the frozen main
\* window are taken.
ApplyScroll(st, msg) ==
  LET n    == Len(msg.lines)
      room == IF st.alt /\ st.win.height > 0 THEN st.win.base - msg.first ELSE n
      took == Smaller(n, room)
  IN ConfirmRange(ApplyRows(st, msg.first, msg.lines, 1 .. took), msg.first, took)

-----------------------------------------------------------------------------
(* Saving a store and making one from what was saved.                      *)

\* snapshot: the newest rows without a gap, and the floor.
Snapshot(st) ==
  LET top  == Highest(Held(st))
      rows == LastOf({a \in Held(st) : a .. top \subseteq Held(st)}, MaxLines)
  IN [lines |-> [a \in rows |-> st.lines[a]], floor |-> st.floor]

FromSnapshot(snap) ==
  IF DOMAIN snap.lines = {} THEN EmptyStore
  ELSE [EmptyStore EXCEPT !.lines = snap.lines, !.floor = snap.floor,
                          !.evictedThrough = Lowest(DOMAIN snap.lines) - 1]
=============================================================================
