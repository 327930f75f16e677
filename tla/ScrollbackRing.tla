--------------------------- MODULE ScrollbackRing ---------------------------
(***************************************************************************)
(* terminal/scrollback.go: the ring that keeps the newest committed lines. *)
(* The buffer grows to capacity before it wraps, Clear releases it without *)
(* touching the index space, and every reader works from absolute indices. *)
(*                                                                         *)
(* Append runs its loop under the handler's lock (h.mu).  The loop is kept *)
(* as a loop: `appending` is what is left of the batch, and no other       *)
(* operation starts while it is not empty, which is what the lock does.    *)
(***************************************************************************)
EXTENDS Integers, Sequences

CONSTANTS Line,          \* the lines a child can print
          Configured,    \* scrollback depths an operator may configure
          MaxBatch,      \* bound: lines one Append is given
          MaxCommitted   \* bound: lines ever committed

ASSUME RingAssumption ==
  /\ Configured \subseteq Int
  /\ MaxBatch \in Nat \ {0}
  /\ MaxCommitted \in Nat

VARIABLES capacity,   \* retained-line ceiling; 0 disables scrollback
          buf,        \* the slots, as many as lines were retained so far
          start,      \* slot offset of the oldest retained line
          count,      \* number of retained lines
          committed,  \* absolute index of the next line
          appending   \* what is left of the batch Append holds the lock for

ringVars == <<capacity, buf, start, count, committed, appending>>

Batch == UNION {[1 .. n -> Line] : n \in 1 .. MaxBatch}

OldestIndex == committed - count
Retained    == OldestIndex .. committed - 1

\* The slot that holds the i-th retained line (i counts from 0).
Slot(i)   == ((start + i) % Len(buf)) + 1
LineAt(a) == buf[Slot(a - OldestIndex)]

\* newScrollbackRing: a negative depth is no scrollback.
Init ==
  /\ \E depth \in Configured : capacity = IF depth > 0 THEN depth ELSE 0
  /\ buf = <<>> /\ start = 0 /\ count = 0 /\ committed = 0
  /\ appending = <<>>

\* Append is entered with a batch.  Without capacity it only advances the
\* index space and returns.
AppendBatch(lines) ==
  /\ appending = <<>>
  /\ committed + Len(lines) <= MaxCommitted
  /\ IF capacity = 0
       THEN committed' = committed + Len(lines) /\ UNCHANGED appending
       ELSE appending' = lines /\ UNCHANGED committed
  /\ UNCHANGED <<capacity, buf, start, count>>

\* One turn of Append's loop while the buffer is still growing ...
Grow ==
  /\ appending # <<>>
  /\ Len(buf) < capacity
  /\ buf' = Append(buf, Head(appending))
  /\ count' = count + 1
  /\ UNCHANGED <<capacity, start>>

\* ... and one turn at capacity: the oldest line's slot takes the new line.
\* (The mutant leaves start where it was.)
MutNoAdvance ==
  /\ appending # <<>>
  /\ Len(buf) >= capacity
  /\ buf' = [buf EXCEPT ![start + 1] = Head(appending)]
  /\ UNCHANGED <<capacity, start, count>>
Overwrite ==
  /\ appending # <<>>
  /\ Len(buf) >= capacity
  /\ buf' = [buf EXCEPT ![start + 1] = Head(appending)]
  /\ start' = (start + 1) % capacity
  /\ UNCHANGED <<capacity, count>>

AppendLine ==
  /\ Grow \/ Overwrite
  /\ committed' = committed + 1
  /\ appending' = Tail(appending)

\* The buffer is released, not logically emptied; committed stays.  (The mutant
\* restarts the index space.)
MutClearIndex ==
  /\ appending = <<>>
  /\ buf' = <<>> /\ start' = 0 /\ count' = 0 /\ committed' = 0
  /\ UNCHANGED <<capacity, appending>>
Clear ==
  /\ appending = <<>>
  /\ buf' = <<>> /\ start' = 0 /\ count' = 0
  /\ UNCHANGED <<capacity, committed, appending>>

Next == (\E lines \in Batch : AppendBatch(lines)) \/ AppendLine \/ Clear

Spec == Init /\ [][Next]_ringVars

-----------------------------------------------------------------------------
(* The readers.  A result is the first index returned and the lines.       *)

LinesFrom(abs) ==
  LET first == IF abs > OldestIndex THEN abs ELSE OldestIndex
      skip  == first - OldestIndex
  IN IF count = 0 \/ abs >= committed
       THEN [first |-> committed, lines |-> <<>>]
       ELSE [first |-> first,
             lines |-> [i \in 1 .. count - skip |-> buf[Slot(skip + i - 1)]]]

\* (The mutant bounds a page by all that is retained.)
MutPage(abs, maxLines) ==
  LET first == IF abs > OldestIndex THEN abs ELSE OldestIndex
      take  == IF count < maxLines THEN count ELSE maxLines
  IN IF count = 0 \/ abs >= committed \/ maxLines <= 0
       THEN [first |-> committed, lines |-> <<>>]
       ELSE [first |-> first,
             lines |-> [i \in 1 .. take |-> buf[Slot(first - OldestIndex + i - 1)]]]
LinesRange(abs, maxLines) ==
  LET first == IF abs > OldestIndex THEN abs ELSE OldestIndex
      skip  == first - OldestIndex
      take  == IF count - skip < maxLines THEN count - skip ELSE maxLines
  IN IF count = 0 \/ abs >= committed \/ maxLines <= 0
       THEN [first |-> committed, lines |-> <<>>]
       ELSE [first |-> first,
             lines |-> [i \in 1 .. take |-> buf[Slot(skip + i - 1)]]]

-----------------------------------------------------------------------------
(* Properties.                                                             *)

\* The values every variable ranges over: no capacity below zero among them.
TypeOK ==
  /\ capacity \in Nat
  /\ buf \in Seq(Line)
  /\ start \in Nat /\ count \in Nat /\ committed \in Nat
  /\ appending \in Seq(Line)

\* The ring's shape: the readers index modulo Len(buf) while Append wraps
\* modulo capacity, which only agree because the buffer is full whenever start
\* has moved.  Clear that kept the buffer, or a start that survived it, breaks
\* this long before a reader shows a wrong row.
RingShape ==
  /\ count = Len(buf)
  /\ count <= capacity
  /\ count <= committed
  /\ count < capacity => start = 0
  /\ count > 0 => start < count
  /\ count = 0 => start = 0

\* The ring implements the retained log: same indices, same lines, in the
\* same order, through growth, wrap-around and Clear.
Log == INSTANCE RetainedLog WITH
         oldest   <- OldestIndex,
         retained <- [a \in Retained |-> LineAt(a)]

ImplementsLog == Log!LogSpec

KeepsIdentity ==
  /\ \A a \in Retained \cap Retained' : LineAt(a)' = LineAt(a)
  /\ OldestIndex' >= OldestIndex

\* An index never changes its line while it is retained, and an index that was
\* given up is never served again: the client stores rows under these indices
\* and asks to resume above the highest one it holds.
IndexIdentity == [][KeepsIdentity]_ringVars

\* Paging with LinesRange and replaying with LinesFrom give the same history:
\* reading n lines and then everything above them is reading it all, from any
\* index, below what is retained included.
PagesCompose ==
  \A abs \in 0 .. committed, n \in 1 .. MaxBatch :
    LET all  == LinesFrom(abs)
        page == LinesRange(abs, n)
        rest == LinesFrom(page.first + Len(page.lines))
    IN /\ page.first = all.first
       /\ all.lines = page.lines \o rest.lines
       /\ Len(page.lines) <= n
       /\ all.first + Len(all.lines) = committed
=============================================================================
