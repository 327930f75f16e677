------------------------ MODULE ScrollbackRingProofs ------------------------
(***************************************************************************)
(* The scrollback ring keeps its shape, never moves a line to another      *)
(* index and implements RetainedLog, for every depth, batch and history.   *)
(***************************************************************************)
EXTENDS ScrollbackRing, SequenceTheorems, TLAPS

\* The sum of two residues wraps at most once.
LEMMA ModWrap ==
  ASSUME NEW n \in Nat \ {0}, NEW a \in 0 .. n - 1, NEW b \in 0 .. n
  PROVE  (a + b) % n = IF a + b < n THEN a + b ELSE a + b - n
<1>1. CASE a + b < n
  BY <1>1
<1>2. CASE a + b >= n /\ b < n
  <2>1. a + b = n * 1 + (a + b - n) /\ a + b - n \in 0 .. n - 1
    BY <1>2
  <2>2. QED
    BY <2>1, <1>2
<1>3. CASE b = n
  <2>1. a + b = n * 1 + a
    BY <1>3
  <2>2. QED
    BY <2>1, <1>3
<1>4. QED
  BY <1>1, <1>2, <1>3

\* A residue is its own.
LEMMA ModSmall ==
  ASSUME NEW n \in Nat \ {0}, NEW b \in 0 .. n - 1
  PROVE  (0 + b) % n = b
<1>1. b = n * 0 + b
  OBVIOUS
<1>2. QED
  BY <1>1

-----------------------------------------------------------------------------
(* The inductive invariant: the types, the ring's shape, and that Append's *)
(* loop is never entered without capacity, or the slot it overwrites would *)
(* not exist.                                                              *)

RingInv ==
  /\ TypeOK
  /\ RingShape
  /\ appending # <<>> => capacity > 0

\* A new ring is empty and starts at slot and index 0.
LEMMA InitRingInv == Init => RingInv
<1> SUFFICES ASSUME Init PROVE RingInv
  OBVIOUS
<1>1. capacity \in Nat
  BY RingAssumption DEF Init
<1>2. QED
  BY <1>1 DEF Init, RingInv, TypeOK, RingShape

\* What Append is given: one line at least.
LEMMA BatchOfLines ==
  ASSUME NEW lines \in Batch
  PROVE  lines \in Seq(Line) /\ Len(lines) \in Nat \ {0} /\ lines # <<>>
<1>1. PICK n \in 1 .. MaxBatch : lines \in [1 .. n -> Line]
  BY DEF Batch
<1>2. n \in Nat \ {0}
  BY RingAssumption
<1>3. lines \in Seq(Line) /\ Len(lines) = n
  BY <1>1, <1>2
<1>4. QED
  BY <1>2, <1>3

\* Append, line by line, and Clear keep the ring's shape.
LEMMA RingInvStep == RingInv /\ [Next]_ringVars => RingInv'
<1> SUFFICES ASSUME RingInv, [Next]_ringVars PROVE RingInv'
  OBVIOUS
<1> USE DEF RingInv
<1>1. ASSUME NEW lines \in Batch, AppendBatch(lines) PROVE RingInv'
  BY <1>1, BatchOfLines DEF AppendBatch, TypeOK, RingShape
<1>2. ASSUME AppendLine PROVE RingInv'
  <2>1. Head(appending) \in Line /\ Tail(appending) \in Seq(Line)
    BY <1>2 DEF AppendLine, Grow, Overwrite, TypeOK
  <2>2. CASE Grow
    <3>1. buf' \in Seq(Line) /\ Len(buf') = Len(buf) + 1
      BY <2>1, <2>2 DEF Grow, TypeOK
    <3>2. QED
      BY <1>2, <2>1, <2>2, <3>1 DEF AppendLine, Grow, TypeOK, RingShape
  <2>3. CASE Overwrite
    <3>1. count = capacity /\ capacity \in Nat \ {0} /\ Len(buf) = capacity
      BY <2>3 DEF Overwrite, TypeOK, RingShape
    <3>2. buf' \in Seq(Line) /\ Len(buf') = Len(buf)
      <4>1. buf \in [1 .. Len(buf) -> Line] /\ Len(buf) \in Nat
        BY DEF TypeOK
      <4>2. buf' \in [1 .. Len(buf) -> Line]
        BY <2>1, <2>3, <4>1 DEF Overwrite
      <4>3. QED
        BY <4>1, <4>2
    <3>3. start' \in Nat /\ start' < capacity
      <4>1. start' = (start + 1) % capacity
        BY <2>3 DEF Overwrite
      <4>2. QED
        BY <3>1, <4>1 DEF TypeOK
    <3>4. QED
      BY <1>2, <2>1, <2>3, <3>1, <3>2, <3>3 DEF AppendLine, Overwrite, TypeOK, RingShape
  <2>4. QED
    BY <1>2, <2>2, <2>3 DEF AppendLine
<1>3. ASSUME Clear PROVE RingInv'
  BY <1>3 DEF Clear, TypeOK, RingShape
<1>4. ASSUME UNCHANGED ringVars PROVE RingInv'
  BY <1>4 DEF ringVars, TypeOK, RingShape
<1>5. QED
  BY <1>1, <1>2, <1>3, <1>4 DEF Next

\* The ring's types and shape hold in every reachable state.
THEOREM RingInvariant == Spec => [](TypeOK /\ RingShape)
<1>1. RingInv => TypeOK /\ RingShape
  BY DEF RingInv
<1>2. QED
  BY <1>1, InitRingInv, RingInvStep, PTL DEF Spec

-----------------------------------------------------------------------------
(* What one turn of Append's loop does to the readable history.            *)

\* While the buffer grows nothing is lost: the new line comes last.
LEMMA GrowKeepsLines ==
  ASSUME RingInv, AppendLine, Grow
  PROVE  /\ OldestIndex' = OldestIndex
         /\ \A a \in OldestIndex .. committed :
              LineAt(a)' = IF a = committed THEN Head(appending) ELSE LineAt(a)
<1> USE DEF RingInv
<1>1. OldestIndex' = OldestIndex /\ OldestIndex \in Nat
  BY DEF AppendLine, Grow, OldestIndex, TypeOK, RingShape
<1>2. /\ start = 0 /\ start' = 0 /\ count \in Nat
      /\ count = Len(buf) /\ Len(buf') = count + 1
      /\ committed = OldestIndex + count
  BY DEF Grow, TypeOK, RingShape, OldestIndex
<1>3. ASSUME NEW a \in OldestIndex .. committed
      PROVE  LineAt(a)' = IF a = committed THEN Head(appending) ELSE LineAt(a)
  <2> DEFINE i == a - OldestIndex
  <2>1. i \in 0 .. count /\ (a = committed <=> i = count)
    BY <1>1, <1>2
  <2>2. (0 + i) % (count + 1) = i
    <3>1. count + 1 \in Nat \ {0} /\ i \in 0 .. (count + 1) - 1
      BY <1>2, <2>1
    <3>2. QED
      BY <3>1, ModSmall
  <2>3. LineAt(a)' = buf'[i + 1]
    BY <1>1, <1>2, <2>1, <2>2 DEF LineAt, Slot
  <2>4. CASE i = count
    BY <1>2, <2>1, <2>3, <2>4 DEF Grow, TypeOK
  <2>5. CASE i < count
    <3>1. (0 + i) % count = i
      <4>1. count \in Nat \ {0} /\ i \in 0 .. count - 1
        BY <1>2, <2>1, <2>5
      <4>2. QED
        BY <4>1, ModSmall
    <3>2. LineAt(a) = buf[i + 1]
      BY <1>2, <2>1, <3>1 DEF LineAt, Slot
    <3>3. QED
      BY <1>2, <2>1, <2>3, <2>5, <3>2 DEF Grow, TypeOK
  <2>6. QED
    BY <1>2, <2>1, <2>4, <2>5
<1>4. QED
  BY <1>1, <1>3

\* At capacity the oldest line goes, and every other one is read through the
\* moved start under the index it had.
LEMMA OverwriteShiftsLines ==
  ASSUME RingInv, AppendLine, Overwrite
  PROVE  /\ OldestIndex' = OldestIndex + 1
         /\ \A a \in OldestIndex + 1 .. committed :
              LineAt(a)' = IF a = committed THEN Head(appending) ELSE LineAt(a)
<1> USE DEF RingInv
<1>1. /\ count = capacity /\ Len(buf) = capacity /\ capacity \in Nat \ {0}
      /\ start \in 0 .. capacity - 1
  BY DEF Overwrite, TypeOK, RingShape
<1>2. /\ OldestIndex' = OldestIndex + 1 /\ OldestIndex \in Nat
      /\ committed = OldestIndex + capacity
  BY <1>1 DEF AppendLine, Overwrite, OldestIndex, TypeOK, RingShape
<1>3. start' = IF start + 1 < capacity THEN start + 1 ELSE 0
  <2>1. 1 \in 0 .. capacity
    BY <1>1
  <2>2. (start + 1) % capacity = IF start + 1 < capacity THEN start + 1
                                                         ELSE start + 1 - capacity
    BY <1>1, <2>1, ModWrap
  <2>3. QED
    BY <1>1, <2>2 DEF Overwrite
<1>4. Len(buf') = capacity /\ \A k \in 1 .. capacity :
        buf'[k] = IF k = start + 1 THEN Head(appending) ELSE buf[k]
  BY <1>1 DEF Overwrite, TypeOK
<1>5. ASSUME NEW a \in OldestIndex + 1 .. committed
      PROVE  LineAt(a)' = IF a = committed THEN Head(appending) ELSE LineAt(a)
  <2> DEFINE i == a - (OldestIndex + 1)
             k == IF start + 1 + i < capacity THEN start + 1 + i
                                              ELSE start + 1 + i - capacity
  <2>1. i \in 0 .. capacity - 1 /\ (a = committed <=> i = capacity - 1)
    BY <1>1, <1>2
  <2>2. start' \in 0 .. capacity - 1 /\ i \in 0 .. capacity
    BY <1>1, <1>3, <2>1
  <2>3. (start' + i) % capacity = IF start' + i < capacity THEN start' + i
                                                      ELSE start' + i - capacity
    BY <1>1, <2>2, ModWrap
  <2>4. (start' + i) % capacity = k
    BY <1>1, <1>3, <2>1, <2>3
  <2>5. LineAt(a)' = buf'[k + 1]
    BY <1>2, <1>4, <2>1, <2>4 DEF LineAt, Slot
  <2>6. CASE i = capacity - 1
    <3>1. k = start
      BY <1>1, <2>6
    <3>2. buf'[start + 1] = Head(appending)
      BY <1>1, <1>4
    <3>3. LineAt(a)' = Head(appending)
      BY <2>5, <3>1, <3>2
    <3>4. QED
      BY <2>1, <2>6, <3>3
  <2>7. CASE i < capacity - 1
    <3>1. i + 1 \in 0 .. capacity
      BY <1>1, <2>1, <2>7
    <3>2. (start + (i + 1)) % capacity = k
      <4>1. (start + (i + 1)) % capacity =
              IF start + (i + 1) < capacity THEN start + (i + 1)
                                            ELSE start + (i + 1) - capacity
        BY <1>1, <3>1, ModWrap
      <4>2. QED
        BY <1>1, <2>1, <4>1
    <3>3. LineAt(a) = buf[k + 1]
      BY <1>1, <1>2, <2>1, <3>2 DEF LineAt, Slot
    <3>4. k + 1 \in 1 .. capacity /\ k # start
      BY <1>1, <2>1, <2>7
    <3>5. QED
      BY <1>1, <1>4, <2>1, <2>5, <2>7, <3>3, <3>4
  <2>8. QED
    BY <1>1, <2>1, <2>6, <2>7
<1>6. QED
  BY <1>2, <1>5

\* A turn of the loop leaves every line that stays readable under its index
\* and puts the appended one under the index committed had.
LEMMA AppendKeepsLines ==
  ASSUME RingInv, AppendLine
  PROVE  /\ OldestIndex' = IF count < capacity THEN OldestIndex ELSE OldestIndex + 1
         /\ \A a \in OldestIndex' .. committed :
              LineAt(a)' = IF a = committed THEN Head(appending) ELSE LineAt(a)
<1>1. CASE Grow
  BY <1>1, GrowKeepsLines DEF Grow, RingInv, TypeOK, RingShape
<1>2. CASE Overwrite
  BY <1>2, OverwriteShiftsLines DEF Overwrite, RingInv, TypeOK, RingShape
<1>3. QED
  BY <1>1, <1>2 DEF AppendLine

-----------------------------------------------------------------------------
(* The two theorems.                                                       *)

\* Entering Append moves nothing but the index space, and that only when there
\* is no capacity and nothing is retained.
LEMMA BatchKeepsLines ==
  ASSUME RingInv, NEW lines \in Batch, AppendBatch(lines)
  PROVE  /\ UNCHANGED <<capacity, buf, start, count>>
         /\ \/ capacity > 0 /\ committed' = committed
            \/ /\ capacity = 0 /\ count = 0
               /\ committed' \in Nat /\ committed' > committed
<1>1. Len(lines) \in Nat \ {0}
  BY BatchOfLines
<1>2. QED
  BY <1>1 DEF AppendBatch, RingInv, TypeOK, RingShape

\* No step gives a retained index another line, or an index given up a line.
LEMMA IdentityStep == RingInv /\ [Next]_ringVars => [KeepsIdentity]_ringVars
<1> SUFFICES ASSUME RingInv, Next PROVE KeepsIdentity
  BY DEF ringVars
<1> USE DEF KeepsIdentity
<1>1. ASSUME NEW lines \in Batch, AppendBatch(lines) PROVE KeepsIdentity
  <2>1. CASE capacity > 0 /\ committed' = committed
    BY <1>1, <2>1, BatchKeepsLines DEF LineAt, Slot, OldestIndex, Retained, RingInv, TypeOK
  <2>2. CASE capacity = 0 /\ count = 0 /\ committed' \in Nat /\ committed' > committed
    <3>1. Retained = {} /\ OldestIndex = committed /\ OldestIndex' = committed'
      BY <1>1, <2>2, BatchKeepsLines DEF Retained, OldestIndex, RingInv, TypeOK
    <3>2. OldestIndex' >= OldestIndex
      BY <2>2, <3>1 DEF RingInv, TypeOK
    <3>3. QED
      BY <3>1, <3>2
  <2>3. QED
    BY <1>1, <2>1, <2>2, BatchKeepsLines
<1>2. CASE AppendLine
  BY <1>2, AppendKeepsLines DEF AppendLine, RingInv, TypeOK, OldestIndex, Retained
<1>3. CASE Clear
  BY <1>3 DEF Clear, OldestIndex, Retained, RingInv, TypeOK
<1>4. QED
  BY <1>1, <1>2, <1>3 DEF Next

\* A retained index keeps its line, and the oldest one never moves back.
THEOREM IndexIdentityHolds == Spec => IndexIdentity
<1>1. QED
  BY InitRingInv, RingInvStep, IdentityStep, PTL DEF Spec, IndexIdentity

\* A new ring reads as the empty log.
LEMMA LogInitStep == Init => Log!LogInit
<1> SUFFICES ASSUME Init PROVE Log!LogInit
  OBVIOUS
<1>1. capacity \in Nat
  BY InitRingInv DEF RingInv, TypeOK
<1>2. Retained = {} /\ OldestIndex = 0
  BY DEF Init, Retained, OldestIndex
<1>3. QED
  BY <1>1, <1>2 DEF Log!LogInit, Init

\* Every step of the ring is one of the log's, or leaves the log alone.
LEMMA LogStep == RingInv /\ [Next]_ringVars => [Log!LogNext]_(Log!logVars)
<1> SUFFICES ASSUME RingInv, [Next]_ringVars
             PROVE  Log!LogNext \/ UNCHANGED Log!logVars
  OBVIOUS
<1>1. ASSUME NEW lines \in Batch, AppendBatch(lines)
      PROVE  Log!LogNext \/ UNCHANGED Log!logVars
  <2>1. CASE capacity > 0 /\ committed' = committed
    BY <1>1, <2>1, BatchKeepsLines
       DEF Log!logVars, LineAt, Slot, OldestIndex, Retained
  <2>2. CASE capacity = 0 /\ count = 0 /\ committed' \in Nat /\ committed' > committed
    <3>1. Retained = {} /\ Retained' = {} /\ OldestIndex' = committed'
      BY <1>1, <2>2, BatchKeepsLines DEF Retained, OldestIndex, RingInv, TypeOK
    <3>2. Log!Skip
      BY <1>1, <2>2, <3>1, BatchKeepsLines DEF Log!Skip
    <3>3. QED
      BY <3>2 DEF Log!LogNext
  <2>3. QED
    BY <1>1, <2>1, <2>2, BatchKeepsLines
<1>2. CASE AppendLine
  <2>1. Head(appending) \in Line /\ UNCHANGED capacity /\ capacity > 0
    BY <1>2 DEF AppendLine, Grow, Overwrite, RingInv, TypeOK
  <2>2. Retained' = OldestIndex' .. committed /\ committed' = committed + 1
    BY <1>2 DEF AppendLine, Retained, RingInv, TypeOK
  <2>3. OldestIndex' = IF committed + 1 - OldestIndex > capacity
                         THEN OldestIndex + 1 ELSE OldestIndex
    BY <1>2, AppendKeepsLines DEF OldestIndex, RingInv, TypeOK, RingShape
  <2>4. \A a \in OldestIndex' .. committed :
          LineAt(a)' = IF a = committed THEN Head(appending)
                       ELSE [b \in Retained |-> LineAt(b)][a]
    <3>1. \A a \in OldestIndex' .. committed : a = committed \/ a \in Retained
      BY <2>3 DEF Retained, OldestIndex, RingInv, TypeOK
    <3>2. QED
      BY <1>2, <3>1, AppendKeepsLines
  <2>5. Log!Commit(Head(appending))
    BY <2>1, <2>2, <2>3, <2>4 DEF Log!Commit
  <2>6. QED
    BY <2>1, <2>5 DEF Log!LogNext
<1>3. CASE Clear
  <2>1. Retained' = {} /\ OldestIndex' = committed /\ UNCHANGED <<capacity, committed>>
    BY <1>3 DEF Clear, Retained, OldestIndex, RingInv, TypeOK
  <2>2. Log!Forget
    BY <2>1 DEF Log!Forget
  <2>3. QED
    BY <2>2 DEF Log!LogNext
<1>4. CASE UNCHANGED ringVars
  BY <1>4 DEF ringVars, Log!logVars, LineAt, Slot, OldestIndex, Retained
<1>5. QED
  BY <1>1, <1>2, <1>3, <1>4 DEF Next

\* Whatever the depth and whatever is printed and cleared, reading the ring is
\* reading the retained log.
THEOREM RingImplementsLog == Spec => ImplementsLog
<1>1. QED
  BY InitRingInv, RingInvStep, LogInitStep, LogStep, PTL
     DEF Spec, ImplementsLog, Log!LogSpec

-----------------------------------------------------------------------------
(* Paging.  A reader's lines are a window on the retained ones, and two    *)
(* windows that meet are the window over both.                             *)

\* What is retained past the first `skip` lines, n of them.
Window(skip, n) == [i \in 1 .. n |-> buf[Slot(skip + i - 1)]]

LEMMA WindowsMeet ==
  ASSUME NEW skip \in Nat, NEW n \in Nat, NEW k \in Nat
  PROVE  /\ Window(skip, n + k) = Window(skip, n) \o Window(skip + n, k)
         /\ Len(Window(skip, n)) = n
<1> DEFINE S == {buf[Slot(j)] : j \in Nat}
           f == Window(skip, n)
           g == Window(skip + n, k)
           h == Window(skip, n + k)
<1>1. f \in [1 .. n -> S]
  <2>1. \A i \in 1 .. n : skip + i - 1 \in Nat
    OBVIOUS
  <2> QED
    BY <2>1 DEF Window
<1>2. g \in [1 .. k -> S]
  <2>1. \A i \in 1 .. k : skip + n + i - 1 \in Nat
    OBVIOUS
  <2> QED
    BY <2>1 DEF Window
<1>3. h \in [1 .. n + k -> S]
  <2>1. \A i \in 1 .. n + k : skip + i - 1 \in Nat
    OBVIOUS
  <2> QED
    BY <2>1 DEF Window
<1>4. /\ \A i \in 1 .. n : h[i] = f[i]
      /\ \A i \in n + 1 .. n + k : h[i] = g[i - n]
  <2>1. \A i \in 1 .. n : i \in 1 .. n + k
    OBVIOUS
  <2>2. \A i \in n + 1 .. n + k : i \in 1 .. n + k /\ i - n \in 1 .. k
                                  /\ (skip + n) + (i - n) - 1 = skip + i - 1
    OBVIOUS
  <2> QED
    BY <2>1, <2>2 DEF Window
<1> HIDE DEF f, g, h, S
<1>5. f \in Seq(S) /\ g \in Seq(S) /\ h \in Seq(S) /\ Len(f) = n /\ Len(g) = k /\ Len(h) = n + k
  BY <1>1, <1>2, <1>3
<1>6. /\ f \o g \in Seq(S) /\ Len(f \o g) = n + k
      /\ \A i \in 1 .. n + k : (f \o g)[i] = IF i <= n THEN f[i] ELSE g[i - n]
  BY <1>5, ConcatProperties
<1>7. \A i \in 1 .. n + k : h[i] = (f \o g)[i]
  <2>1. \A i \in 1 .. n + k : (i \in 1 .. n /\ i <= n) \/ (i \in n + 1 .. n + k /\ ~(i <= n))
    OBVIOUS
  <2> QED
    BY <1>4, <1>6, <2>1
<1>8. h = f \o g
  BY <1>5, <1>6, <1>7, SeqEqual
<1> QED
  BY <1>5, <1>8 DEF f, g, h

\* Where a reader starts, and how much there is from there.
From(abs) == IF abs > OldestIndex THEN abs ELSE OldestIndex

LEMMA ReadersWindow ==
  ASSUME RingInv, NEW abs \in Nat, NEW n \in Nat \ {0}, count > 0, abs < committed
  PROVE  LET skip == From(abs) - OldestIndex
             take == IF count - skip < n THEN count - skip ELSE n
         IN /\ skip \in Nat /\ take \in Nat /\ take <= n /\ count - skip - take \in Nat
            /\ From(abs) \in Nat /\ From(abs) + (count - skip) = committed
            /\ LinesFrom(abs) = [first |-> From(abs), lines |-> Window(skip, count - skip)]
            /\ LinesRange(abs, n) = [first |-> From(abs), lines |-> Window(skip, take)]
<1> DEFINE skip == From(abs) - OldestIndex
           take == IF count - skip < n THEN count - skip ELSE n
<1>1. count \in Nat /\ committed \in Nat /\ count <= committed
  BY DEF RingInv, TypeOK, RingShape
<1>2. /\ skip \in Nat /\ skip < count /\ From(abs) \in Nat /\ From(abs) + (count - skip) = committed
  BY <1>1 DEF From, OldestIndex
<1>3. take \in Nat /\ take <= n /\ count - skip - take \in Nat
  BY <1>1, <1>2
<1>4. ~(count = 0 \/ abs >= committed) /\ ~(n <= 0)
  BY <1>1
<1>5. LinesFrom(abs) = [first |-> From(abs), lines |-> Window(skip, count - skip)]
  BY <1>4 DEF LinesFrom, Window, From
<1>6. LinesRange(abs, n) = [first |-> From(abs), lines |-> Window(skip, take)]
  BY <1>4 DEF LinesRange, Window, From
<1> QED
  BY <1>2, <1>3, <1>5, <1>6

\* A page and what is read above it are all there is.
LEMMA PagesMeet ==
  ASSUME RingInv, NEW abs \in 0 .. committed, NEW n \in 1 .. MaxBatch
  PROVE  LET all  == LinesFrom(abs)
             page == LinesRange(abs, n)
             rest == LinesFrom(page.first + Len(page.lines))
         IN /\ page.first = all.first
            /\ all.lines = page.lines \o rest.lines
            /\ Len(page.lines) <= n
            /\ all.first + Len(all.lines) = committed
<1>0. count \in Nat /\ committed \in Nat /\ count <= committed /\ abs \in Nat /\ n \in Nat \ {0}
  BY RingAssumption DEF RingInv, TypeOK, RingShape
<1>1. \A a \in Nat : count = 0 \/ a >= committed =>
        LinesFrom(a) = [first |-> committed, lines |-> <<>>]
  BY DEF LinesFrom
<1>2. CASE count = 0 \/ abs >= committed
  <2>1. LinesFrom(abs) = [first |-> committed, lines |-> <<>>]
    BY <1>0, <1>1, <1>2
  <2>2. LinesRange(abs, n) = [first |-> committed, lines |-> <<>>]
    BY <1>2 DEF LinesRange
  <2>3. committed + Len(<<>>) = committed /\ <<>> \o <<>> = <<>> /\ Len(<<>>) <= n
    BY <1>0
  <2>4. LinesFrom(committed) = [first |-> committed, lines |-> <<>>]
    BY <1>0, <1>1
  <2> QED
    BY <2>1, <2>2, <2>3, <2>4
<1>3. CASE count > 0 /\ abs < committed
  <2>1. PICK skip, take :
          /\ skip = From(abs) - OldestIndex
          /\ take = IF count - skip < n THEN count - skip ELSE n
    OBVIOUS
  <2>2. /\ skip \in Nat /\ take \in Nat /\ take <= n /\ count - skip - take \in Nat
        /\ From(abs) \in Nat /\ From(abs) + (count - skip) = committed
        /\ LinesFrom(abs) = [first |-> From(abs), lines |-> Window(skip, count - skip)]
        /\ LinesRange(abs, n) = [first |-> From(abs), lines |-> Window(skip, take)]
    BY <1>0, <1>3, <2>1, ReadersWindow
  <2>3. PICK left \in Nat : left = count - skip - take
    BY <2>2
  <2>4. count - skip = take + left /\ take + left \in Nat
    BY <1>0, <2>2, <2>3
  <2>5. /\ Window(skip, take + left) = Window(skip, take) \o Window(skip + take, left)
        /\ Len(Window(skip, take)) = take /\ Len(Window(skip, take + left)) = take + left
    <3>1. skip \in Nat /\ take \in Nat /\ left \in Nat /\ 0 \in Nat
      BY <2>2, <2>3
    <3>2. Window(skip, take + left) = Window(skip, take) \o Window(skip + take, left)
          /\ Len(Window(skip, take)) = take
      BY <3>1, WindowsMeet
    <3>3. Len(Window(skip, take + left)) = take + left
      BY <2>4, <3>1, WindowsMeet
    <3> QED
      BY <3>2, <3>3
  <2>6. PICK next \in Nat : next = From(abs) + take
    BY <2>2
  <2>7. LinesFrom(next).lines = Window(skip + take, left)
    <3>1. CASE left = 0
      <4>1. next = committed
        BY <1>0, <2>2, <2>4, <2>6, <3>1
      <4>2. next >= committed
        BY <1>0, <4>1
      <4>3. LinesFrom(next).lines = <<>>
        BY <1>1, <4>2
      <4>4. Window(skip + take, 0) = <<>>
        BY DEF Window
      <4> QED
        BY <3>1, <4>3, <4>4
    <3>2. CASE left > 0
      <4>1. next < committed
        BY <1>0, <2>2, <2>4, <2>6, <3>2
      <4>2. From(next) = next /\ From(next) - OldestIndex = skip + take
        BY <1>0, <2>1, <2>2, <2>6 DEF From, OldestIndex
      <4>3. LinesFrom(next).lines = Window(skip + take, count - (skip + take))
        BY <1>0, <1>3, <4>1, <4>2, ReadersWindow
      <4>4. count - (skip + take) = left
        BY <1>0, <2>2, <2>3
      <4> QED
        BY <4>3, <4>4
    <3> QED
      BY <3>1, <3>2
  <2>8. LinesRange(abs, n).first + Len(LinesRange(abs, n).lines) = next
    BY <2>2, <2>5, <2>6
  <2>9. LinesFrom(abs) = [first |-> From(abs), lines |-> Window(skip, take + left)]
    BY <2>2, <2>4
  <2>10. From(abs) + Len(Window(skip, take + left)) = committed
    BY <2>2, <2>4, <2>5
  <2>11. LinesFrom(abs).first + Len(LinesFrom(abs).lines) = committed
    BY <2>9, <2>10
  <2>12. LinesFrom(abs).lines = LinesRange(abs, n).lines \o LinesFrom(next).lines
    BY <2>2, <2>5, <2>7, <2>9
  <2>13. Len(LinesRange(abs, n).lines) <= n /\ LinesRange(abs, n).first = LinesFrom(abs).first
    BY <2>2, <2>5, <2>9
  <2> QED
    BY <2>8, <2>11, <2>12, <2>13
<1>4. (count = 0 \/ abs >= committed) \/ (count > 0 /\ abs < committed)
  BY <1>0
<1> QED
  BY <1>2, <1>3, <1>4

\* A page followed by a replay of what lies above it is the replay from the page's
\* start, for every depth, page size and index: the two ways a client reads history
\* (LinesRange, LinesFrom) never overlap and never leave a gap.
THEOREM PagesAlwaysCompose == Spec => []PagesCompose
<1>1. RingInv => PagesCompose
  BY PagesMeet DEF PagesCompose
<1> QED
  BY <1>1, InitRingInv, RingInvStep, PTL DEF Spec

=============================================================================
