------------------------- MODULE SessionStreamProofs -------------------------
(***************************************************************************)
(* What is proved of SessionStream, and of the LineStore in each tab.      *)
(***************************************************************************)
EXTENDS SessionStream, TLAPS, FiniteSetTheorems, NaturalsInduction,
        WellFoundedInduction, SequenceTheorems

-----------------------------------------------------------------------------
(* Numbers.                                                                *)

LEMMA LargerIs ==
  \A a, b \in Int : /\ Larger(a, b) \in {a, b} /\ Larger(a, b) \in Int
                    /\ a <= Larger(a, b) /\ b <= Larger(a, b)
BY DEF Larger

LEMMA SmallerIs ==
  \A a, b \in Int : /\ Smaller(a, b) \in {a, b} /\ Smaller(a, b) \in Int
                    /\ Smaller(a, b) <= a /\ Smaller(a, b) <= b
BY DEF Smaller

LEMMA Between == \A n \in Int : \A a, b \in 0 .. n :
  Larger(a, b) \in 0 .. n /\ Smaller(a, b) \in 0 .. n
BY DEF Larger, Smaller

\* A set of numbers that is not empty has a least one.
Below == {p \in Nat \X Nat : p[1] < p[2]}

LEMMA BelowIs == /\ IsWellFoundedOn(Below, Nat)
                 /\ \A m, n \in Nat : <<m, n>> \in Below <=> m < n
<1>1. IsWellFoundedOn(Below, Nat)
  BY NatLessThanWellFounded DEF OpToRel, Below
<1>2. \A m, n \in Nat : <<m, n>> \in Below <=> m < n
  BY DEF Below
<1> QED
  BY <1>1, <1>2

LEMMA Least ==
  ASSUME NEW T \in SUBSET Nat, T # {}
  PROVE  \E x \in T : \A y \in T : x <= y
<1>1. PICK x \in T : \A y \in T : ~(<<y, x>> \in Below)
  <2>1. IsWellFoundedOn(Below, Nat)
    BY BelowIs
  <2> QED
    BY <2>1, WFMin
<1>2. ASSUME NEW y \in T
      PROVE  x <= y
  <2>1. x \in Nat /\ y \in Nat
    OBVIOUS
  <2>2. ~(y < x)
    BY <1>1, <2>1, BelowIs
  <2> QED
    BY <2>1, <2>2
<1> QED
  BY <1>2

\* ... and if it is finite a greatest.
LEMMA Greatest ==
  ASSUME NEW S \in SUBSET Nat, S # {}, IsFiniteSet(S)
  PROVE  \E x \in S : \A y \in S : y <= x
<1> DEFINE P(T) == T # {} /\ T \subseteq Nat => \E x \in T : \A y \in T : y <= x
           Count == {n \in Nat : \E T \in SUBSET S : Cardinality(T) = n /\ ~P(T)}
<1>1. SUFFICES ASSUME Count # {} PROVE FALSE
  <2>1. Cardinality(S) \in Nat
    BY FS_CardinalityType
  <2> QED
    BY <2>1
<1>2. PICK n \in Count : \A m \in Count : n <= m
  BY <1>1, Least
<1>3. PICK T \in SUBSET S : Cardinality(T) = n /\ ~P(T)
  BY <1>2
<1>4. PICK t \in T : TRUE
  BY <1>3
<1>5. IsFiniteSet(T) /\ IsFiniteSet(T \ {t})
  BY FS_Subset
<1>6. Cardinality(T \ {t}) = n - 1 /\ n - 1 \in Nat
  <2>1. Cardinality(T \ {t}) = Cardinality(T) - 1
    BY <1>4, <1>5, FS_RemoveElement
  <2>2. Cardinality(T \ {t}) \in Nat
    BY <1>5, FS_CardinalityType
  <2> QED
    BY <2>1, <2>2, <1>3
<1>7. P(T \ {t})
  <2>1. n - 1 \notin Count
    BY <1>2, <1>6
  <2>2. T \ {t} \in SUBSET S
    OBVIOUS
  <2> QED
    BY <2>1, <2>2, <1>6
<1>8. CASE T = {t}
  BY <1>8, <1>3
<1>9. CASE T # {t}
  <2>1. PICK x \in T \ {t} : \A y \in T \ {t} : y <= x
    BY <1>9, <1>7, <1>3, <1>4
  <2>2. x \in Nat /\ t \in Nat
    OBVIOUS
  <2>3. CASE t <= x
    BY <2>1, <2>3, <1>3
  <2>4. CASE x < t
    <3>1. \A y \in T : y <= t
      <4>1. TAKE y \in T
      <4>2. y \in Nat
        OBVIOUS
      <4>3. CASE y = t
        BY <4>3, <2>2
      <4>4. CASE y # t
        BY <4>4, <4>2, <2>1, <2>2, <2>4
      <4> QED
        BY <4>3, <4>4
    <3> QED
      BY <3>1, <1>3, <1>4
  <2> QED
    BY <2>2, <2>3, <2>4
<1> QED
  BY <1>8, <1>9

LEMMA HighestIs ==
  ASSUME NEW S \in SUBSET Nat, IsFiniteSet(S)
  PROVE  /\ Highest(S) \in Int
         /\ S = {} => Highest(S) = -1
         /\ S # {} => Highest(S) \in S
         /\ \A a \in S : a <= Highest(S)
<1>1. CASE S = {}
  BY <1>1 DEF Highest
<1>2. CASE S # {}
  <2>1. \E a \in S : \A b \in S : b <= a
    BY <1>2, Greatest
  <2>2. Highest(S) = CHOOSE a \in S : \A b \in S : b <= a
    BY <1>2 DEF Highest
  <2>3. Highest(S) \in S /\ \A b \in S : b <= Highest(S)
    BY <2>1, <2>2
  <2>4. \A x \in S : x \in Int
    OBVIOUS
  <2>5. Highest(S) \in Int
    BY <2>3, <2>4, Zenon
  <2> QED
    BY <1>2, <2>3, <2>5
<1> QED
  BY <1>1, <1>2

LEMMA LowestIs ==
  ASSUME NEW S \in SUBSET Nat
  PROVE  /\ Lowest(S) \in Int
         /\ S = {} => Lowest(S) = -1
         /\ S # {} => Lowest(S) \in S
         /\ \A a \in S : Lowest(S) <= a
<1>1. CASE S = {}
  BY <1>1 DEF Lowest
<1>2. CASE S # {}
  <2>1. \E a \in S : \A b \in S : a <= b
    BY <1>2, Least
  <2>2. Lowest(S) = CHOOSE a \in S : \A b \in S : a <= b
    BY <1>2 DEF Lowest
  <2>3. Lowest(S) \in S /\ \A b \in S : Lowest(S) <= b
    BY <2>1, <2>2
  <2>4. \A x \in S : x \in Int
    OBVIOUS
  <2>5. Lowest(S) \in Int
    BY <2>3, <2>4, Zenon
  <2> QED
    BY <1>2, <2>3, <2>5
<1> QED
  BY <1>1, <1>2

-----------------------------------------------------------------------------
(* Stores.                                                                 *)

Index    == 0 .. MaxIndex
Base     == 0 .. MaxChunks
Contents == UNION {[S -> Row] : S \in SUBSET Index}
Picture  == [1 .. Height -> Row]

\* The stores there are.
Stores == [lines : Contents, floor : 0 .. Confirmed,
           win : [base : Base, height : {0, Height}], alt : BOOLEAN,
           altRows : Seq(Row), evictedThrough : Int, erasedThrough : Int]

LEMMA Sizes ==
  /\ Height \in Nat /\ Height > 0 /\ Depth \in Nat /\ MaxIndex \in Nat /\ MaxLines \in Nat
  /\ MaxLines > 0 /\ MaxChunks \in Nat /\ MaxChunks + Height <= MaxIndex
  /\ ChunkLines \in Nat /\ ChunkLines > 0 /\ ReplayMax \in Nat /\ ReplayMax > 0
  /\ Depth <= ReplayMax /\ Confirmed \in Nat /\ MaxIndex < Confirmed
BY StoreAssumption, StreamAssumption DEF Confirmed

LEMMA ContentsIs ==
  \A f : f \in Contents <=> /\ f = [a \in DOMAIN f |-> f[a]] /\ DOMAIN f \subseteq Index
                            /\ \A a \in DOMAIN f : f[a] \in Row
<1>1. ASSUME NEW f, f \in Contents
      PROVE  /\ f = [a \in DOMAIN f |-> f[a]] /\ DOMAIN f \subseteq Index
             /\ \A a \in DOMAIN f : f[a] \in Row
  BY <1>1 DEF Contents
<1>2. ASSUME NEW f, f = [a \in DOMAIN f |-> f[a]], DOMAIN f \subseteq Index,
             \A a \in DOMAIN f : f[a] \in Row
      PROVE  f \in Contents
  <2>1. f \in [DOMAIN f -> Row]
    BY <1>2
  <2> QED
    BY <1>2, <2>1 DEF Contents
<1> QED
  BY <1>1, <1>2

LEMMA StoreIs ==
  ASSUME NEW st \in Stores
  PROVE  /\ Held(st) \in SUBSET Nat /\ Held(st) \subseteq Index /\ IsFiniteSet(Held(st))
         /\ \A a \in Held(st) : st.lines[a] \in Row
         /\ st.floor \in Int /\ st.floor >= 0 /\ st.floor <= Confirmed
         /\ st.win \in [base : Base, height : {0, Height}]
         /\ st.win.base \in Int /\ st.win.base >= 0 /\ st.win.height \in Int
         /\ st.win.height \in {0, Height}
         /\ st.alt \in BOOLEAN /\ st.altRows \in Seq(Row)
         /\ st.evictedThrough \in Int /\ st.erasedThrough \in Int
<1>1. st.lines \in Contents
  BY DEF Stores
<1>2. Held(st) \subseteq Index /\ \A a \in Held(st) : st.lines[a] \in Row
  BY <1>1, ContentsIs DEF Held
<1>3. IsFiniteSet(Index)
  BY Sizes, FS_Interval DEF Index
<1>4. IsFiniteSet(Held(st))
  BY <1>2, <1>3, FS_Subset
<1>5. Held(st) \in SUBSET Nat
  BY <1>2, Sizes DEF Index
<1>6. st.win \in [base : Base, height : {0, Height}] /\ st.floor \in 0 .. Confirmed
  BY DEF Stores
<1>7. st.win.base \in Int /\ st.win.base >= 0 /\ st.win.height \in Int
        /\ st.win.height \in {0, Height}
  BY <1>6, Sizes DEF Base
<1>8. st.alt \in BOOLEAN /\ st.altRows \in Seq(Row)
        /\ st.evictedThrough \in Int /\ st.erasedThrough \in Int
  BY DEF Stores
<1> QED
  BY <1>2, <1>4, <1>5, <1>6, <1>7, <1>8, Sizes

\* A store of which only some parts are new.
LEMMA Rewritten ==
  ASSUME NEW st \in Stores
  PROVE  /\ \A f \in Contents : [st EXCEPT !.lines = f] \in Stores
         /\ \A n \in 0 .. Confirmed : [st EXCEPT !.floor = n] \in Stores
         /\ \A n \in Int : [st EXCEPT !.evictedThrough = n] \in Stores
         /\ \A n \in Int : [st EXCEPT !.erasedThrough = n] \in Stores
         /\ \A f \in Contents : LET u == [st EXCEPT !.lines = f] IN
              /\ u.lines = f /\ u.floor = st.floor /\ u.win = st.win /\ u.alt = st.alt
              /\ u.altRows = st.altRows /\ u.evictedThrough = st.evictedThrough
              /\ u.erasedThrough = st.erasedThrough
BY DEF Stores

\* The parts of a store that taking rows in or out leaves alone.
Alike(u, st) == /\ u.floor = st.floor /\ u.win = st.win /\ u.alt = st.alt
                /\ u.altRows = st.altRows

LEMMA ForgetIs ==
  ASSUME NEW st \in Stores, NEW S
  PROVE  /\ Forget(st, S) \in Stores
         /\ Alike(Forget(st, S), st)
         /\ Forget(st, S).evictedThrough = st.evictedThrough
         /\ Forget(st, S).erasedThrough = st.erasedThrough
         /\ Held(Forget(st, S)) = Held(st) \ S
         /\ \A a \in Held(st) \ S : Forget(st, S).lines[a] = st.lines[a]
<1> DEFINE f == [a \in Held(st) \ S |-> st.lines[a]]
<1>1. f \in Contents
  <2>1. DOMAIN f = Held(st) \ S /\ \A a \in Held(st) \ S : f[a] = st.lines[a]
    OBVIOUS
  <2>2. f = [a \in DOMAIN f |-> f[a]]
    OBVIOUS
  <2> QED
    BY <2>1, <2>2, StoreIs, ContentsIs
<1>2. Forget(st, S) = [st EXCEPT !.lines = f]
  BY DEF Forget
<1> HIDE DEF f
<1>3. /\ Forget(st, S) \in Stores
      /\ Alike(Forget(st, S), st)
      /\ Forget(st, S).evictedThrough = st.evictedThrough
      /\ Forget(st, S).erasedThrough = st.erasedThrough
      /\ Forget(st, S).lines = f
  BY <1>1, <1>2, Rewritten DEF Alike
<1> QED
  BY <1>3 DEF f, Held

\* Rows that a store u keeps of a store st: none it did not hold, none changed.
Keeps(u, st) == /\ Held(u) \subseteq Held(st)
                /\ \A a \in Held(u) : u.lines[a] = st.lines[a]

Target(st)  == Bound(st) - EvictionBatch(Bound(st)) + 1
Victims(st) == FirstOf(Evictable(st), Cardinality(Held(st)) - Target(st))

LEMMA BoundIs ==
  ASSUME NEW st \in Stores
  PROVE  /\ Bound(st) \in Int /\ MaxLines <= Bound(st) /\ st.win.height <= Bound(st)
         /\ Bound(st) \in {MaxLines, st.win.height}
<1>1. MaxLines \in Int /\ st.win.height \in Int
  BY StoreIs, Sizes
<1> QED
  BY <1>1, LargerIs DEF Bound

\* What eviction does: nothing, or it forgets some rows outside the window.
LEMMA CapIs ==
  ASSUME NEW st \in Stores
  PROVE  /\ EnforceCap(st) \in Stores
         /\ Alike(EnforceCap(st), st)
         /\ EnforceCap(st).erasedThrough = st.erasedThrough
         /\ Keeps(EnforceCap(st), st)
         /\ Held(st) \cap Window(st) \subseteq Held(EnforceCap(st))
         /\ \/ EnforceCap(st) = st
            \/ /\ Victims(st) \subseteq Evictable(st)
               /\ Cardinality(Held(st)) > Bound(st)
               /\ Held(EnforceCap(st)) = Held(st) \ Victims(st)
               /\ EnforceCap(st).evictedThrough
                    = Larger(st.evictedThrough, Highest(Victims(st)))
<1> DEFINE V == Victims(st)
           r == EnforceCap(st)
<1>1. V \subseteq Evictable(st) /\ Evictable(st) \subseteq Held(st) \ Window(st)
  BY DEF Victims, FirstOf, Evictable
<1>2. CASE Cardinality(Held(st)) <= Bound(st) \/ V = {}
  <2>1. r = st
    BY <1>2 DEF EnforceCap, Victims, Target
  <2> QED
    BY <2>1 DEF Alike, Keeps
<1>3. CASE ~(Cardinality(Held(st)) <= Bound(st) \/ V = {})
  <2> DEFINE kept == Forget(st, V)
             n    == Larger(st.evictedThrough, Highest(V))
  <2>1. r = [kept EXCEPT !.evictedThrough = Larger(@, Highest(V))]
    BY <1>3 DEF EnforceCap, Victims, Target
  <2>2. /\ kept \in Stores /\ Alike(kept, st)
        /\ kept.evictedThrough = st.evictedThrough /\ kept.erasedThrough = st.erasedThrough
        /\ Held(kept) = Held(st) \ V
        /\ \A a \in Held(st) \ V : kept.lines[a] = st.lines[a]
    BY ForgetIs
  <2>3. n \in Int
    <3>1. V \in SUBSET Nat /\ IsFiniteSet(V)
      BY <1>1, StoreIs, FS_Subset
    <3>2. Highest(V) \in Int
      BY <3>1, HighestIs
    <3> QED
      BY <3>2, StoreIs, LargerIs
  <2> HIDE DEF kept, n
  <2>4. r = [kept EXCEPT !.evictedThrough = n]
    BY <2>1, <2>2 DEF n
  <2>5. /\ r \in Stores /\ r.lines = kept.lines /\ r.evictedThrough = n
        /\ r.erasedThrough = kept.erasedThrough /\ Alike(r, kept)
    BY <2>2, <2>3, <2>4 DEF Stores, Alike
  <2>6. Held(r) = Held(st) \ V
    BY <2>2, <2>5 DEF Held
  <2>7. Alike(r, st)
    BY <2>2, <2>5 DEF Alike
  <2>8. Keeps(r, st)
    BY <2>2, <2>5, <2>6 DEF Keeps
  <2>9. Cardinality(Held(st)) > Bound(st)
    <3>1. Cardinality(Held(st)) \in Int
      BY StoreIs, FS_CardinalityType
    <3>2. Bound(st) \in Int
      BY BoundIs
    <3> QED
      BY <1>3, <3>1, <3>2
  <2>10. r.evictedThrough = Larger(st.evictedThrough, Highest(V)) /\ r.erasedThrough = st.erasedThrough
    BY <2>2, <2>5 DEF n
  <2>11. Held(st) \cap Window(st) \subseteq Held(r)
    BY <2>6, <1>1
  <2> QED
    BY <1>1, <2>5, <2>6, <2>7, <2>8, <2>9, <2>10, <2>11
<1> QED
  BY <1>2, <1>3

\* A store with one row written.
Written(st, a, row) ==
  [st EXCEPT !.lines = [b \in Held(st) \cup {a} |-> IF b = a THEN row ELSE st.lines[b]]]

LEMMA WrittenIs ==
  ASSUME NEW st \in Stores, NEW a \in Index, NEW row \in Row
  PROVE  /\ Written(st, a, row) \in Stores
         /\ Alike(Written(st, a, row), st)
         /\ Written(st, a, row).evictedThrough = st.evictedThrough
         /\ Written(st, a, row).erasedThrough = st.erasedThrough
         /\ Held(Written(st, a, row)) = Held(st) \cup {a}
         /\ Written(st, a, row).lines[a] = row
         /\ \A b \in Held(st) : b # a => Written(st, a, row).lines[b] = st.lines[b]
<1> DEFINE f == [b \in Held(st) \cup {a} |-> IF b = a THEN row ELSE st.lines[b]]
<1>1. /\ DOMAIN f = Held(st) \cup {a} /\ f[a] = row
      /\ \A b \in Held(st) : b # a => f[b] = st.lines[b]
  OBVIOUS
<1>2. f = [b \in DOMAIN f |-> f[b]]
  OBVIOUS
<1>3. Written(st, a, row) = [st EXCEPT !.lines = f]
  BY DEF Written
<1> HIDE DEF f
<1>4. f \in Contents
  <2>1. Held(st) \subseteq Index /\ \A b \in Held(st) : st.lines[b] \in Row
    BY StoreIs
  <2>2. \A b \in DOMAIN f : f[b] \in Row
    BY <1>1, <2>1
  <2> QED
    BY <1>1, <1>2, <2>1, <2>2, ContentsIs
<1>5. /\ Written(st, a, row) \in Stores
      /\ Alike(Written(st, a, row), st)
      /\ Written(st, a, row).evictedThrough = st.evictedThrough
      /\ Written(st, a, row).erasedThrough = st.erasedThrough
      /\ Written(st, a, row).lines = f
  BY <1>3, <1>4, Rewritten DEF Alike
<1> QED
  BY <1>1, <1>5 DEF Held

\* applyLine: nothing when the row is refused or there already, or else the row
\* is written and the cap enforced.
LEMMA LineIs ==
  ASSUME NEW st \in Stores, NEW a \in Index, NEW row \in Row
  PROVE  \/ /\ ApplyLine(st, a, row) = st
            /\ ~Admitted(st, a) \/ (a \in Held(st) /\ st.lines[a] = row)
         \/ /\ ApplyLine(st, a, row) = EnforceCap(Written(st, a, row))
            /\ Admitted(st, a)
BY DEF ApplyLine, Written

\* The parts a row applied leaves alone, and what it does to the window.
LEMMA LineKeeps ==
  ASSUME NEW st \in Stores, NEW a \in Index, NEW row \in Row
  PROVE  /\ ApplyLine(st, a, row) \in Stores
         /\ Alike(ApplyLine(st, a, row), st)
         /\ ApplyLine(st, a, row).erasedThrough = st.erasedThrough
         /\ \A b \in Held(st) \cap Window(st) : b # a =>
              /\ b \in Held(ApplyLine(st, a, row))
              /\ ApplyLine(st, a, row).lines[b] = st.lines[b]
         /\ a \in Window(st) =>
              /\ a \in Held(ApplyLine(st, a, row))
              /\ ApplyLine(st, a, row).lines[a] = row
<1> DEFINE r == ApplyLine(st, a, row)
           w == Written(st, a, row)
<1>1. CASE /\ r = st
           /\ ~Admitted(st, a) \/ (a \in Held(st) /\ st.lines[a] = row)
  <2>1. a \in Window(st) => Admitted(st, a)
    BY DEF Admitted
  <2> QED
    BY <1>1, <2>1 DEF Alike
<1>2. CASE r = EnforceCap(w)
  <2>1. /\ w \in Stores /\ Alike(w, st) /\ w.erasedThrough = st.erasedThrough
        /\ Held(w) = Held(st) \cup {a} /\ w.lines[a] = row
        /\ \A b \in Held(st) : b # a => w.lines[b] = st.lines[b]
    BY WrittenIs
  <2>2. Window(w) = Window(st)
    BY <2>1 DEF Window, Bottom, Alike
  <2>3. /\ r \in Stores /\ Alike(r, w) /\ r.erasedThrough = w.erasedThrough /\ Keeps(r, w)
        /\ Held(w) \cap Window(w) \subseteq Held(r)
    BY <1>2, <2>1, CapIs
  <2>4. Alike(r, st)
    BY <2>1, <2>3 DEF Alike
  <2> QED
    BY <2>1, <2>2, <2>3, <2>4 DEF Keeps
<1> QED
  BY <1>1, <1>2, LineIs

\* Rows applied one after another: the stores in between.
Steps(after, st, first, rs, I) ==
  /\ after[0] = st
  /\ \A i \in 1 .. Len(rs) :
       after[i] = IF i \in I THEN ApplyLine(after[i - 1], first + i - 1, rs[i])
                             ELSE after[i - 1]

LEMMA RowsAre ==
  ASSUME NEW st, NEW first, NEW rs, NEW I, Len(rs) \in Nat
  PROVE  \E after : /\ Steps(after, st, first, rs, I)
                    /\ ApplyRows(st, first, rs, I) = after[Len(rs)]
<1> DEFINE Is(g, n) == g = [i \in 0 .. n |->
                              IF i = 0 THEN st
                              ELSE IF i \in I THEN ApplyLine(g[i - 1], first + i - 1, rs[i])
                              ELSE g[i - 1]]
           N    == Len(rs)
           None == {n \in Nat : ~ \E g : Is(g, n)}
<1>1. \E g : Is(g, N)
  <2>1. SUFFICES ASSUME None # {} PROVE FALSE
    BY <2>1
  <2>2. PICK n \in None : \A m \in None : n <= m
    <3>1. None \in SUBSET Nat
      OBVIOUS
    <3> QED
      BY <3>1, <2>1, Least
  <2>3. n # 0
    <3>1. SUFFICES ASSUME n = 0 PROVE FALSE
      OBVIOUS
    <3> DEFINE g == [i \in 0 .. 0 |-> st]
    <3>2. Is(g, 0)
      OBVIOUS
    <3> QED
      BY <3>1, <3>2, <2>2
  <2>4. n - 1 \in Nat /\ n - 1 \notin None
    <3>1. n \in Nat
      OBVIOUS
    <3>2. n - 1 \in Nat /\ ~(n <= n - 1)
      BY <3>1, <2>3
    <3> HIDE DEF None
    <3> QED
      BY <3>2, <2>2
  <2>5. PICK g : Is(g, n - 1)
    BY <2>4
  <2> DEFINE last == IF n \in I THEN ApplyLine(g[n - 1], first + n - 1, rs[n]) ELSE g[n - 1]
             h    == [i \in 0 .. n |-> IF i = n THEN last ELSE g[i]]
  <2>6. \A i \in 0 .. n - 1 : h[i] = g[i]
    BY <2>4
  <2>7. h[n] = last /\ h[n - 1] = g[n - 1]
    BY <2>3, <2>4
  <2>8. \A i \in 0 .. n - 1 :
          g[i] = IF i = 0 THEN st
                 ELSE IF i \in I THEN ApplyLine(g[i - 1], first + i - 1, rs[i]) ELSE g[i - 1]
    BY <2>5
  <2>9. \A i \in 0 .. n :
          h[i] = IF i = 0 THEN st
                 ELSE IF i \in I THEN ApplyLine(h[i - 1], first + i - 1, rs[i]) ELSE h[i - 1]
    <3> TAKE i \in 0 .. n
    <3> HIDE DEF h
    <3>1. CASE i = n
      BY <3>1, <2>7, <2>3, <2>4
    <3>2. CASE i # n
      <4>1. i \in 0 .. n - 1 /\ (i # 0 => i - 1 \in 0 .. n - 1)
        BY <3>2, <2>4
      <4> QED
        BY <4>1, <2>6, <2>8
    <3> QED
      BY <3>1, <3>2
  <2>10. Is(h, n)
    <3>1. DOMAIN h = 0 .. n /\ h = [i \in 0 .. n |-> h[i]]
      OBVIOUS
    <3> HIDE DEF h
    <3> QED
      BY <3>1, <2>9
  <2> QED
    BY <2>10, <2>2
<1>2. ApplyRows(st, first, rs, I) = (CHOOSE g : Is(g, N))[N]
  BY DEF ApplyRows
<1>3. PICK g : g = (CHOOSE f : Is(f, N))
  OBVIOUS
<1>4. Is(g, N)
  BY <1>1, <1>3
<1>5. Steps(g, st, first, rs, I)
  <2>1. \A i \in 0 .. N :
          g[i] = IF i = 0 THEN st
                 ELSE IF i \in I THEN ApplyLine(g[i - 1], first + i - 1, rs[i]) ELSE g[i - 1]
    BY <1>4
  <2>2. g[0] = st
    BY <2>1
  <2>3. \A i \in 1 .. N : i \in 0 .. N /\ i # 0
    OBVIOUS
  <2> QED
    BY <2>1, <2>2, <2>3 DEF Steps
<1> QED
  BY <1>2, <1>3, <1>5

\* What holds at 0 and is passed on by every step to n holds up to n.
LEMMA Ascends ==
  ASSUME NEW S, NEW n \in Nat, 0 \in S, \A i \in 1 .. n : i - 1 \in S => i \in S
  PROVE  \A i \in 0 .. n : i \in S
<1> DEFINE Bad == {i \in Nat : i <= n /\ i \notin S}
<1>1. SUFFICES ASSUME Bad # {} PROVE FALSE
  OBVIOUS
<1>2. PICK i \in Bad : \A j \in Bad : i <= j
  <2>1. Bad \in SUBSET Nat
    OBVIOUS
  <2> QED
    BY <2>1, <1>1, Least
<1>3. i \in Nat /\ i <= n /\ i \notin S /\ i # 0
  OBVIOUS
<1>4. i - 1 \in Nat /\ i - 1 <= n /\ ~(i <= i - 1) /\ i \in 1 .. n
  BY <1>3
<1>5. i - 1 \notin Bad
  BY <1>2, <1>4
<1>6. i - 1 \in S
  BY <1>4, <1>5
<1> QED
  BY <1>3, <1>4, <1>6

LEMMA AlikeIs == /\ \A st : Alike(st, st)
                 /\ \A t, u, v : Alike(t, u) /\ Alike(u, v) => Alike(t, v)
                 /\ \A t, u : Alike(t, u) => Window(t) = Window(u) /\ Bottom(t) = Bottom(u)
BY DEF Alike, Window, Bottom

\* Rows that all have an index, the n-th of them at first + n - 1.
Placed(first, rs, I) ==
  /\ first \in Nat /\ Len(rs) \in Nat /\ I \subseteq 1 .. Len(rs)
  /\ \A i \in I : rs[i] \in Row /\ first + i - 1 \in Index

\* What applying rows to a store st leaves in r: the other rows of the window, and
\* in the window the rows applied.
RowsKept(r, st, first, rs, I) ==
  /\ r \in Stores /\ Alike(r, st) /\ r.erasedThrough = st.erasedThrough
  /\ \A b \in Held(st) \cap Window(st) :
       (\A i \in I : first + i - 1 # b) => b \in Held(r) /\ r.lines[b] = st.lines[b]
  /\ \A i \in I : first + i - 1 \in Window(st) =>
       first + i - 1 \in Held(r) /\ r.lines[first + i - 1] = rs[i]

LEMMA RowsKeep ==
  ASSUME NEW st \in Stores, NEW first, NEW rs, NEW I, Placed(first, rs, I)
  PROVE  RowsKept(ApplyRows(st, first, rs, I), st, first, rs, I)
<1> DEFINE Sofar(r, k) ==
             /\ r \in Stores /\ Alike(r, st) /\ r.erasedThrough = st.erasedThrough
             /\ \A b \in Held(st) \cap Window(st) :
                  (\A i \in I : first + i - 1 # b) => b \in Held(r) /\ r.lines[b] = st.lines[b]
             /\ \A i \in I : i <= k /\ first + i - 1 \in Window(st) =>
                  first + i - 1 \in Held(r) /\ r.lines[first + i - 1] = rs[i]
           N == Len(rs)
<1>1. PICK after : /\ Steps(after, st, first, rs, I)
                   /\ ApplyRows(st, first, rs, I) = after[N]
  <2>1. N \in Nat
    BY DEF Placed
  <2> QED
    BY <2>1, RowsAre
<1> DEFINE S == {k \in 0 .. N : Sofar(after[k], k)}
<1>2. N \in Nat /\ first \in Nat /\ I \subseteq 1 .. N
  BY DEF Placed
<1>3. 0 \in S
  <2>1. Sofar(st, 0)
    BY <1>2, AlikeIs
  <2> HIDE DEF Sofar
  <2>2. after[0] = st
    BY <1>1 DEF Steps
  <2> QED
    BY <2>1, <2>2, <1>2
<1>4. ASSUME NEW k \in 1 .. N, k - 1 \in S
      PROVE  k \in S
  <2> DEFINE p == after[k - 1]
             q == after[k]
             a == first + k - 1
  <2>1. Sofar(p, k - 1) /\ k \in 0 .. N
    BY <1>4, <1>2
  <2>2. q = IF k \in I THEN ApplyLine(p, a, rs[k]) ELSE p
    BY <1>1 DEF Steps
  <2> HIDE DEF p, q
  <2>3. CASE k \notin I
    <3>1. \A i \in I : i <= k => i <= k - 1
      BY <2>3, <1>2
    <3>2. q = p
      BY <2>2, <2>3
    <3>3. Sofar(p, k)
      BY <2>1, <3>1
    <3> HIDE DEF Sofar
    <3> QED
      BY <2>1, <3>2, <3>3 DEF q
  <2>4. CASE k \in I
    <3>1. a \in Index /\ rs[k] \in Row /\ q = ApplyLine(p, a, rs[k])
      BY <2>2, <2>4 DEF Placed
    <3>2. /\ q \in Stores /\ Alike(q, p) /\ q.erasedThrough = p.erasedThrough
          /\ \A b \in Held(p) \cap Window(p) : b # a =>
               b \in Held(q) /\ q.lines[b] = p.lines[b]
          /\ a \in Window(p) => a \in Held(q) /\ q.lines[a] = rs[k]
      BY <3>1, <2>1, LineKeeps
    <3>3. Window(p) = Window(st) /\ Alike(q, st)
      BY <2>1, <3>2, AlikeIs
    <3>4. \A b \in Held(st) \cap Window(st) :
            (\A i \in I : first + i - 1 # b) => b \in Held(q) /\ q.lines[b] = st.lines[b]
      BY <2>1, <2>4, <3>2, <3>3
    <3>5. ASSUME NEW i \in I, i <= k, first + i - 1 \in Window(st)
          PROVE  first + i - 1 \in Held(q) /\ q.lines[first + i - 1] = rs[i]
      <4>1. i \in Nat
        BY <1>2
      <4>2. CASE i = k
        BY <4>2, <3>2, <3>3, <3>5
      <4>3. CASE i # k
        <5>1. i <= k - 1 /\ first + i - 1 # a
          BY <4>1, <4>3, <3>5, <1>2
        <5>2. first + i - 1 \in Held(p) /\ p.lines[first + i - 1] = rs[i]
          BY <5>1, <3>5, <2>1
        <5> QED
          BY <5>1, <5>2, <3>2, <3>3, <3>5
      <4> QED
        BY <4>2, <4>3
    <3>6. Sofar(q, k)
      BY <2>1, <3>2, <3>3, <3>4, <3>5
    <3> HIDE DEF Sofar
    <3> QED
      BY <2>1, <3>6 DEF q
  <2> QED
    BY <2>3, <2>4
<1>5. N \in S
  <2> HIDE DEF S
  <2>1. \A k \in 0 .. N : k \in S
    BY <1>2, <1>3, <1>4, Ascends
  <2> QED
    BY <2>1, <1>2
<1>6. Sofar(after[N], N)
  BY <1>5
<1>7. \A i \in I : i <= N
  BY <1>2
<1> QED
  BY <1>1, <1>6, <1>7 DEF RowsKept

-----------------------------------------------------------------------------
(* Frames.                                                                 *)

AckMsg    == [kind : {"resumeAck"}, epoch : 1 .. MaxBoots]
ScreenMsg == [kind : {"screen"}, base : Base, rows : Picture,
              changed : SUBSET (1 .. Height), alt : BOOLEAN, cleared : BOOLEAN]
ScrollMsg == {m \in [kind : {"scroll"}, first : Nat, lines : Seq(Row)] :
                m.first + Len(m.lines) <= MaxChunks}
Msg       == AckMsg \cup ScreenMsg \cup ScrollMsg

LEMMA PictureIs ==
  ASSUME NEW rs \in Picture
  PROVE  /\ rs \in Seq(Row) /\ Len(rs) = Height /\ rs # <<>>
         /\ \A y \in 1 .. Height : rs[y] \in Row
<1>1. rs \in Seq(Row) /\ Len(rs) = Height
  BY Sizes DEF Picture
<1>2. rs # <<>>
  BY <1>1, Sizes
<1> QED
  BY <1>1, <1>2 DEF Picture

\* The rows ED3 takes.
Erased(st, base) == {a \in Held(st) : a < base}

LEMMA ClearedIs ==
  ASSUME NEW st \in Stores, NEW base \in Base
  PROVE  LET r == ApplyScrollbackCleared(st, base) IN
         /\ r \in Stores /\ r.win = st.win /\ r.alt = st.alt /\ r.altRows = st.altRows
         /\ r.floor = Larger(st.floor, base) /\ r.evictedThrough = st.evictedThrough
         /\ Held(r) = Held(st) \ Erased(st, base) /\ Keeps(r, st)
         /\ Erased(st, base) = {} => r.erasedThrough = st.erasedThrough
         /\ Erased(st, base) # {} =>
              r.erasedThrough = Larger(st.erasedThrough, Highest(Erased(st, base)))
<1> DEFINE E      == Erased(st, base)
           f      == Larger(st.floor, base)
           raised == [st EXCEPT !.floor = f]
           kept   == Forget(raised, E)
           n      == Larger(st.erasedThrough, Highest(E))
           r      == ApplyScrollbackCleared(st, base)
<1>1. f \in 0 .. Confirmed
  <2>1. st.floor \in 0 .. Confirmed /\ base \in 0 .. Confirmed /\ Confirmed \in Int
    BY Sizes DEF Base, Stores
  <2> QED
    BY <2>1, Between
<1> HIDE DEF f
<1>2. /\ raised \in Stores /\ raised.lines = st.lines /\ raised.floor = f
      /\ raised.win = st.win /\ raised.alt = st.alt /\ raised.altRows = st.altRows
      /\ raised.evictedThrough = st.evictedThrough /\ raised.erasedThrough = st.erasedThrough
  BY <1>1 DEF Stores
<1>3. r = IF E = {} THEN raised
          ELSE [kept EXCEPT !.erasedThrough = Larger(@, Highest(E))]
  BY DEF ApplyScrollbackCleared, Erased, f
<1> HIDE DEF raised
<1>4. Held(raised) = Held(st)
  BY <1>2 DEF Held
<1>5. /\ kept \in Stores /\ Alike(kept, raised)
      /\ kept.evictedThrough = st.evictedThrough /\ kept.erasedThrough = st.erasedThrough
      /\ Held(kept) = Held(st) \ E
      /\ \A a \in Held(st) \ E : kept.lines[a] = st.lines[a]
  BY <1>2, <1>4, ForgetIs
<1> HIDE DEF kept
<1>6. CASE E = {}
  <2>1. r = raised
    BY <1>3, <1>6
  <2> QED
    BY <2>1, <1>2, <1>4, <1>6 DEF Keeps, f
<1>7. CASE E # {}
  <2>1. n \in Int
    <3>1. E \in SUBSET Nat /\ IsFiniteSet(E)
      <4>1. E \subseteq Held(st)
        BY DEF Erased
      <4> QED
        BY <4>1, StoreIs, FS_Subset
    <3>2. Highest(E) \in Int
      BY <3>1, HighestIs
    <3> QED
      BY <3>2, StoreIs, LargerIs
  <2> HIDE DEF n
  <2>2. r = [kept EXCEPT !.erasedThrough = n]
    BY <1>3, <1>5, <1>7 DEF n
  <2>3. /\ r \in Stores /\ r.lines = kept.lines /\ r.erasedThrough = n
        /\ r.evictedThrough = kept.evictedThrough /\ Alike(r, kept)
    BY <2>1, <2>2, <1>5 DEF Stores, Alike
  <2>4. Held(r) = Held(st) \ E
    BY <2>3, <1>5 DEF Held
  <2> QED
    BY <2>3, <2>4, <1>2, <1>5, <1>7 DEF Keeps, Alike, n, f
<1> QED
  BY <1>6, <1>7

LEMMA TruncateIs ==
  ASSUME NEW st \in Stores
  PROVE  LET r == TruncateBelowWindow(st) IN
         /\ r \in Stores /\ Alike(r, st) /\ Keeps(r, st)
         /\ r.evictedThrough = st.evictedThrough /\ r.erasedThrough = st.erasedThrough
         /\ Held(r) = IF st.win.height = 0 THEN Held(st)
                      ELSE Held(st) \ {a \in Held(st) : a > Bottom(st)}
<1> DEFINE r == TruncateBelowWindow(st)
           S == {a \in Held(st) : a > Bottom(st)}
<1>1. CASE st.win.height = 0
  BY <1>1 DEF TruncateBelowWindow, Alike, Keeps
<1>2. CASE st.win.height # 0
  <2>1. r = Forget(st, S)
    BY <1>2 DEF TruncateBelowWindow
  <2> HIDE DEF S
  <2>2. /\ r \in Stores /\ Alike(r, st)
        /\ r.evictedThrough = st.evictedThrough /\ r.erasedThrough = st.erasedThrough
        /\ Held(r) = Held(st) \ S
        /\ \A a \in Held(st) \ S : r.lines[a] = st.lines[a]
    BY <2>1, ForgetIs
  <2> QED
    BY <2>2, <1>2 DEF Keeps, S
<1> QED
  BY <1>1, <1>2

\* A main window taken over, before its rows are.
Shaped(st, msg) ==
  MarkUnconfirmedFrom([st EXCEPT !.alt = FALSE, !.altRows = <<>>,
                         !.win = [base |-> msg.base, height |-> Len(msg.rows)]], msg.base)

LEMMA ShapedIs ==
  ASSUME NEW st \in Stores, NEW msg \in ScreenMsg
  PROVE  LET r == Shaped(st, msg) IN
         /\ r \in Stores /\ r.lines = st.lines /\ Held(r) = Held(st)
         /\ r.win = [base |-> msg.base, height |-> Height] /\ ~r.alt /\ r.altRows = <<>>
         /\ r.floor = Smaller(st.floor, msg.base)
         /\ r.evictedThrough = st.evictedThrough /\ r.erasedThrough = st.erasedThrough
         /\ Bottom(r) = msg.base + Height - 1
         /\ Window(r) = msg.base .. msg.base + Height - 1
<1> DEFINE w == [base |-> msg.base, height |-> Height]
           s == [st EXCEPT !.alt = FALSE, !.altRows = <<>>, !.win = w]
           r == Shaped(st, msg)
           f == Smaller(st.floor, msg.base)
<1>1. msg.base \in Base /\ Len(msg.rows) = Height /\ w \in [base : Base, height : {0, Height}]
  <2>1. msg.base \in Base /\ msg.rows \in Picture
    BY DEF ScreenMsg
  <2> QED
    BY <2>1, PictureIs
<1>2. f \in 0 .. Confirmed
  <2>1. st.floor \in 0 .. Confirmed /\ msg.base \in 0 .. Confirmed /\ Confirmed \in Int
    BY <1>1, Sizes DEF Base, Stores
  <2> QED
    BY <2>1, Between
<1>3. r = [s EXCEPT !.floor = Smaller(@, msg.base)]
  BY <1>1 DEF Shaped, MarkUnconfirmedFrom
<1> HIDE DEF f, w
<1>4. /\ s \in Stores /\ s.lines = st.lines /\ s.win = w /\ ~s.alt /\ s.altRows = <<>>
      /\ s.floor = st.floor /\ s.evictedThrough = st.evictedThrough
      /\ s.erasedThrough = st.erasedThrough
  <2>1. <<>> \in Seq(Row)
    OBVIOUS
  <2> QED
    BY <1>1, <2>1 DEF Stores
<1> HIDE DEF s
<1>5. r = [s EXCEPT !.floor = f]
  BY <1>3, <1>4 DEF f
<1>6. /\ r \in Stores /\ r.lines = s.lines /\ r.win = s.win /\ r.alt = s.alt
      /\ r.altRows = s.altRows /\ r.floor = f /\ r.evictedThrough = s.evictedThrough
      /\ r.erasedThrough = s.erasedThrough
  BY <1>2, <1>4, <1>5 DEF Stores
<1>7. r.win = [base |-> msg.base, height |-> Height]
  BY <1>4, <1>6 DEF w
<1>8. Bottom(r) = msg.base + Height - 1 /\ Window(r) = msg.base .. msg.base + Height - 1
  BY <1>7 DEF Bottom, Window
<1>9. Held(r) = Held(st)
  BY <1>4, <1>6 DEF Held
<1>10. r.floor = Smaller(st.floor, msg.base)
  BY <1>6 DEF f
<1> QED
  BY <1>4, <1>6, <1>7, <1>8, <1>9, <1>10

\* What a screen shows: a buffer, where its window sits, and its rows.
Pictures == [mode : {"main", "alt"}, base : Base, rows : Picture]

\* A store shows a picture.  (The alternate screen has no place in history.)
Shows(st, p) ==
  IF p.mode = "alt" THEN st.alt /\ st.altRows = p.rows
  ELSE /\ ~st.alt /\ st.win = [base |-> p.base, height |-> Height]
       /\ \A y \in 1 .. Height :
            p.base + y - 1 \in Held(st) /\ st.lines[p.base + y - 1] = p.rows[y]

\* The picture a message carries.
Carries(m, p) == p.base = m.base /\ p.rows = m.rows /\ (p.mode = "alt" <=> m.alt)

\* A message that may follow a picture: all its rows are new, or the others are
\* those the picture has at the same index.
Fits(p, m) ==
  /\ p.mode = "alt" <=> m.alt
  /\ p.mode = "alt" => p.base = m.base
  /\ \A y \in (1 .. Height) \ m.changed :
       /\ m.base + y - p.base \in 1 .. Height
       /\ p.rows[m.base + y - p.base] = m.rows[y]
Whole(m) == m.changed = 1 .. Height

LEMMA ScreenPlaced ==
  ASSUME NEW m \in ScreenMsg
  PROVE  Placed(m.base, m.rows, m.changed)
<1>1. m.base \in Base /\ m.rows \in Picture /\ m.changed \subseteq 1 .. Height
  BY DEF ScreenMsg
<1>2. Len(m.rows) = Height /\ \A y \in 1 .. Height : m.rows[y] \in Row
  BY <1>1, PictureIs
<1>3. m.base \in Int /\ m.base >= 0 /\ m.base <= MaxChunks
  BY <1>1, Sizes DEF Base
<1>4. ASSUME NEW i \in m.changed
      PROVE  m.rows[i] \in Row /\ m.base + i - 1 \in Index
  <2>1. i \in 1 .. Height
    BY <1>1
  <2> QED
    BY <2>1, <1>2, <1>3, Sizes DEF Index
<1> QED
  BY <1>1, <1>2, <1>3, <1>4, Sizes DEF Placed

LEMMA MainShown ==
  ASSUME NEW st \in Stores, NEW m \in ScreenMsg, NEW p \in Pictures, Carries(m, p), ~m.alt,
         \A y \in (1 .. Height) \ m.changed :
           m.base + y - 1 \in Held(st) /\ st.lines[m.base + y - 1] = m.rows[y]
  PROVE  ApplyMainRows(st, m) \in Stores /\ Shows(ApplyMainRows(st, m), p)
<1> DEFINE s == Shaped(st, m)
           a == ApplyRows(s, m.base, m.rows, m.changed)
           t == TruncateBelowWindow(a)
           r == EnforceCap(t)
<1>1. m.base \in Base /\ m.rows \in Picture /\ m.changed \subseteq 1 .. Height
  BY DEF ScreenMsg
<1>2. /\ s \in Stores /\ s.lines = st.lines /\ Held(s) = Held(st)
      /\ s.win = [base |-> m.base, height |-> Height] /\ ~s.alt
      /\ Bottom(s) = m.base + Height - 1
      /\ Window(s) = m.base .. m.base + Height - 1
  BY ShapedIs
<1>3. ApplyMainRows(st, m) = r
  BY DEF ApplyMainRows, Shaped
<1> HIDE DEF s
<1>4. Placed(m.base, m.rows, m.changed)
  BY ScreenPlaced
<1>5. /\ a \in Stores /\ Alike(a, s)
      /\ \A b \in Held(s) \cap Window(s) :
           (\A i \in m.changed : m.base + i - 1 # b) => b \in Held(a) /\ a.lines[b] = s.lines[b]
      /\ \A i \in m.changed : m.base + i - 1 \in Window(s) =>
           m.base + i - 1 \in Held(a) /\ a.lines[m.base + i - 1] = m.rows[i]
  <2>1. s \in Stores
    BY <1>2
  <2>2. RowsKept(a, s, m.base, m.rows, m.changed)
    BY <2>1, <1>4, RowsKeep, Zenon
  <2> HIDE DEF a
  <2> QED
    BY <2>2 DEF RowsKept
<1> HIDE DEF a
<1>6. /\ t \in Stores /\ Alike(t, a) /\ Keeps(t, a)
      /\ Held(t) = IF a.win.height = 0 THEN Held(a)
                   ELSE Held(a) \ {b \in Held(a) : b > Bottom(a)}
  BY <1>5, TruncateIs
<1> HIDE DEF t
<1>7. /\ r \in Stores /\ Alike(r, t) /\ Keeps(r, t)
      /\ Held(t) \cap Window(t) \subseteq Held(r)
  BY <1>6, CapIs
<1> HIDE DEF r
<1>8. Window(t) = Window(s) /\ Bottom(a) = Bottom(s) /\ Alike(r, s)
  BY <1>5, <1>6, <1>7, AlikeIs
<1>9. ASSUME NEW y \in 1 .. Height
      PROVE  m.base + y - 1 \in Held(r) /\ r.lines[m.base + y - 1] = m.rows[y]
  <2> DEFINE b == m.base + y - 1
  <2>1. b \in Window(s) /\ b \in Int /\ b <= Bottom(s)
    BY <1>1, <1>2, Sizes DEF Base
  <2>2. b \in Held(a) /\ a.lines[b] = m.rows[y]
    <3>1. CASE y \in m.changed
      BY <3>1, <2>1, <1>5
    <3>2. CASE y \notin m.changed
      <4>1. \A i \in m.changed : m.base + i - 1 # b
        BY <3>2, <1>1, Sizes DEF Base
      <4>2. b \in Held(s) /\ s.lines[b] = m.rows[y]
        BY <3>2, <1>2
      <4> QED
        BY <4>1, <4>2, <2>1, <1>5
    <3> QED
      BY <3>1, <3>2
  <2> HIDE DEF b
  <2>3. Bottom(s) \in Int
    BY <1>1, <1>2, Sizes DEF Base
  <2>4. b \in Held(t) /\ t.lines[b] = m.rows[y]
    BY <2>1, <2>2, <2>3, <1>6, <1>8 DEF Keeps
  <2>5. b \in Held(r) /\ r.lines[b] = m.rows[y]
    BY <2>1, <2>4, <1>7, <1>8 DEF Keeps
  <2> QED
    BY <2>5 DEF b
<1>10. r.win = [base |-> m.base, height |-> Height] /\ ~r.alt
  BY <1>2, <1>8 DEF Alike
<1>11. p.mode # "alt" /\ p.base = m.base /\ p.rows = m.rows
  BY DEF Carries
<1>12. Shows(r, p)
  BY <1>9, <1>10, <1>11 DEF Shows
<1> QED
  BY <1>3, <1>7, <1>12

LEMMA AltShown ==
  ASSUME NEW st \in Stores, NEW m \in ScreenMsg, NEW p \in Pictures, Carries(m, p), m.alt,
         \A y \in (1 .. Height) \ m.changed : st.alt /\ st.altRows[y] = m.rows[y],
         m.changed # 1 .. Height => Len(st.altRows) = Height
  PROVE  /\ ApplyAltRows(st, m) \in Stores /\ Shows(ApplyAltRows(st, m), p)
         /\ LET r == ApplyAltRows(st, m) IN
            /\ r.lines = st.lines /\ r.win = st.win /\ r.floor = st.floor /\ r.alt
            /\ r.evictedThrough = st.evictedThrough /\ r.erasedThrough = st.erasedThrough
<1> DEFINE known(y) == IF st.alt /\ y <= Len(st.altRows) THEN st.altRows[y] ELSE 0
           new == [y \in 1 .. Len(m.rows) |-> IF y \in m.changed THEN m.rows[y] ELSE known(y)]
           r   == ApplyAltRows(st, m)
<1>1. m.rows \in Picture /\ m.changed \subseteq 1 .. Height /\ Len(m.rows) = Height
      /\ m.rows \in Seq(Row)
  <2>1. m.rows \in Picture /\ m.changed \subseteq 1 .. Height
    BY DEF ScreenMsg
  <2> QED
    BY <2>1, PictureIs
<1>2. new = m.rows
  <2>1. \A y \in 1 .. Height : (IF y \in m.changed THEN m.rows[y] ELSE known(y)) = m.rows[y]
    BY <1>1, Sizes
  <2>2. m.rows = [y \in 1 .. Height |-> m.rows[y]]
    BY <1>1 DEF Picture
  <2> QED
    BY <1>1, <2>1, <2>2
<1>3. r = [st EXCEPT !.alt = TRUE, !.altRows = new]
  BY DEF ApplyAltRows
<1> HIDE DEF new
<1>4. /\ r \in Stores /\ r.alt /\ r.altRows = m.rows
      /\ r.lines = st.lines /\ r.win = st.win /\ r.floor = st.floor
      /\ r.evictedThrough = st.evictedThrough /\ r.erasedThrough = st.erasedThrough
  BY <1>1, <1>2, <1>3 DEF Stores
<1> HIDE DEF r
<1>5. p.mode = "alt" /\ p.rows = m.rows
  BY DEF Carries
<1>6. Shows(r, p)
  BY <1>4, <1>5 DEF Shows
<1> QED
  BY <1>4, <1>6 DEF r

\* A screen message that fits what the store shows, or carries every row, is shown.
LEMMA ScreenShows ==
  ASSUME NEW st \in Stores, NEW m \in ScreenMsg, NEW p \in Pictures, Carries(m, p),
         Whole(m) \/ \E q \in Pictures : Shows(st, q) /\ Fits(q, m)
  PROVE  ApplyScreen(st, m) \in Stores /\ Shows(ApplyScreen(st, m), p)
<1> DEFINE c == IF m.cleared THEN ApplyScrollbackCleared(st, m.base) ELSE st
<1>1. /\ m.base \in Base /\ m.rows \in Picture /\ m.changed \subseteq 1 .. Height
      /\ m.rows # <<>> /\ m.alt \in BOOLEAN
  <2>1. m.base \in Base /\ m.rows \in Picture /\ m.changed \subseteq 1 .. Height /\ m.alt \in BOOLEAN
    BY DEF ScreenMsg
  <2> QED
    BY <2>1, PictureIs
<1>2. /\ c \in Stores /\ c.win = st.win /\ c.alt = st.alt /\ c.altRows = st.altRows
      /\ \A a \in Held(st) : a >= m.base => a \in Held(c) /\ c.lines[a] = st.lines[a]
  <2>1. CASE m.cleared
    <3> DEFINE d == ApplyScrollbackCleared(st, m.base)
    <3>1. /\ d \in Stores /\ d.win = st.win /\ d.alt = st.alt /\ d.altRows = st.altRows
          /\ Held(d) = Held(st) \ Erased(st, m.base) /\ Keeps(d, st)
      BY <1>1, ClearedIs
    <3> HIDE DEF d
    <3>2. c = d
      BY <2>1 DEF d
    <3>3. \A a \in Held(st) : a >= m.base => a \notin Erased(st, m.base)
      BY <1>1, StoreIs, Sizes DEF Erased, Base
    <3> HIDE DEF c
    <3> QED
      BY <3>1, <3>2, <3>3 DEF Keeps
  <2>2. CASE ~m.cleared
    BY <2>2
  <2> QED
    BY <2>1, <2>2
<1>3. ApplyScreen(st, m) = IF m.alt THEN ApplyAltRows(c, m) ELSE ApplyMainRows(c, m)
  BY <1>1 DEF ApplyScreen
<1> HIDE DEF c
<1>4. CASE m.alt
  <2>1. \A y \in (1 .. Height) \ m.changed : c.alt /\ c.altRows[y] = m.rows[y]
    <3>1. CASE Whole(m)
      BY <3>1 DEF Whole
    <3>2. CASE \E q \in Pictures : Shows(st, q) /\ Fits(q, m)
      <4>1. PICK q \in Pictures : Shows(st, q) /\ Fits(q, m)
        BY <3>2
      <4>2. st.alt /\ st.altRows = q.rows /\ q.base = m.base
        BY <4>1, <1>4 DEF Shows, Fits
      <4>3. \A y \in (1 .. Height) \ m.changed : q.rows[m.base + y - q.base] = m.rows[y]
        BY <4>1 DEF Fits
      <4>4. m.base \in Int /\ \A y \in 1 .. Height : y \in Int /\ m.base + y - m.base = y
        BY <1>1, Sizes DEF Base
      <4> QED
        BY <4>2, <4>3, <4>4, <1>2
    <3> QED
      BY <3>1, <3>2
  <2>2. m.changed # 1 .. Height => Len(c.altRows) = Height
    <3>1. SUFFICES ASSUME m.changed # 1 .. Height PROVE Len(c.altRows) = Height
      OBVIOUS
    <3>2. PICK q \in Pictures : Shows(st, q) /\ Fits(q, m)
      BY <3>1 DEF Whole
    <3>3. st.altRows = q.rows /\ q.rows \in Picture
      BY <3>2, <1>4 DEF Shows, Fits, Pictures
    <3> QED
      BY <3>3, <1>2, PictureIs
  <2>3. ApplyAltRows(c, m) \in Stores /\ Shows(ApplyAltRows(c, m), p)
    BY <2>1, <2>2, <1>2, <1>4, AltShown
  <2> QED
    BY <2>3, <1>3, <1>4
<1>5. CASE ~m.alt
  <2>1. ASSUME NEW y \in (1 .. Height) \ m.changed
        PROVE  m.base + y - 1 \in Held(c) /\ c.lines[m.base + y - 1] = m.rows[y]
    <3>1. PICK q \in Pictures : Shows(st, q) /\ Fits(q, m)
      BY DEF Whole
    <3>2. q.mode # "alt" /\ q.base \in Base
      BY <3>1, <1>5 DEF Fits, Pictures
    <3>3. \A i \in 1 .. Height : q.base + i - 1 \in Held(st) /\ st.lines[q.base + i - 1] = q.rows[i]
      BY <3>1, <3>2 DEF Shows
    <3>4. m.base + y - q.base \in 1 .. Height /\ q.rows[m.base + y - q.base] = m.rows[y]
      BY <3>1 DEF Fits
    <3>5. q.base + (m.base + y - q.base) - 1 = m.base + y - 1 /\ m.base + y - 1 >= m.base
      <4>1. q.base \in Int /\ m.base \in Int /\ y \in Int /\ y >= 1
        BY <3>2, <1>1, Sizes DEF Base
      <4> QED
        BY <4>1
    <3>6. m.base + y - 1 \in Held(st) /\ st.lines[m.base + y - 1] = m.rows[y]
      BY <3>3, <3>4, <3>5
    <3> QED
      BY <3>5, <3>6, <1>2
  <2>2. ApplyMainRows(c, m) \in Stores /\ Shows(ApplyMainRows(c, m), p)
    BY <2>1, <1>2, <1>5, MainShown
  <2> QED
    BY <2>2, <1>3, <1>5
<1> QED
  BY <1>1, <1>4, <1>5

\* confirmRange moves the floor and nothing else.
LEMMA ConfirmIs ==
  ASSUME NEW st \in Stores, NEW first \in Nat, NEW n \in Int, n > 0 => first + n <= MaxChunks
  PROVE  LET r == ConfirmRange(st, first, n) IN
         /\ r \in Stores /\ r.lines = st.lines /\ Held(r) = Held(st) /\ r.win = st.win
         /\ r.alt = st.alt /\ r.altRows = st.altRows
         /\ r.evictedThrough = st.evictedThrough /\ r.erasedThrough = st.erasedThrough
         /\ \/ r.floor = st.floor
            \/ n > 0 /\ first <= st.floor /\ r.floor = Larger(st.floor, first + n)
            \/ /\ n > 0 /\ st.floor < Lowest(Held(st)) /\ Lowest(Held(st)) >= 0
               /\ r.floor = Larger(first + n, Lowest(Held(st)))
<1> DEFINE r == ConfirmRange(st, first, n)
<1>1. ASSUME NEW f \in 0 .. Confirmed
      PROVE  LET u == [st EXCEPT !.floor = f] IN
             /\ u \in Stores /\ u.lines = st.lines /\ Held(u) = Held(st) /\ u.win = st.win
             /\ u.alt = st.alt /\ u.altRows = st.altRows /\ u.floor = f
             /\ u.evictedThrough = st.evictedThrough /\ u.erasedThrough = st.erasedThrough
  BY DEF Stores, Held
<1>2. st.floor \in 0 .. Confirmed /\ Confirmed \in Int
  BY Sizes DEF Stores
<1>3. CASE r = st
  BY <1>3
<1>4. CASE n > 0 /\ first <= st.floor /\ r = [st EXCEPT !.floor = Larger(@, first + n)]
  <2> DEFINE f == Larger(st.floor, first + n)
  <2>1. f \in 0 .. Confirmed
    <3>1. first + n \in 0 .. Confirmed
      BY <1>4, Sizes
    <3> QED
      BY <1>2, <3>1, Between
  <2>2. r = [st EXCEPT !.floor = f]
    BY <1>4
  <2> HIDE DEF f
  <2>3. /\ r \in Stores /\ r.lines = st.lines /\ Held(r) = Held(st) /\ r.win = st.win
        /\ r.alt = st.alt /\ r.altRows = st.altRows /\ r.floor = f
        /\ r.evictedThrough = st.evictedThrough /\ r.erasedThrough = st.erasedThrough
    BY <1>1, <2>1, <2>2
  <2> HIDE DEF r
  <2>4. r.floor = Larger(st.floor, first + n) /\ n > 0 /\ first <= st.floor
    BY <2>3, <1>4 DEF f
  <2> QED
    BY <2>3, <2>4 DEF r
<1>5. CASE /\ n > 0 /\ st.floor < Lowest(Held(st)) /\ Lowest(Held(st)) >= 0
           /\ r = [st EXCEPT !.floor = Larger(first + n, Lowest(Held(st)))]
  <2> DEFINE f == Larger(first + n, Lowest(Held(st)))
  <2>1. f \in 0 .. Confirmed
    <3>1. first + n \in 0 .. Confirmed
      BY <1>5, Sizes
    <3>2. Lowest(Held(st)) \in 0 .. Confirmed
      <4>1. Held(st) # {} /\ Lowest(Held(st)) \in Held(st)
        BY <1>5, StoreIs, LowestIs
      <4> QED
        BY <4>1, StoreIs, Sizes DEF Index
    <3> QED
      BY <1>2, <3>1, <3>2, Between
  <2>2. r = [st EXCEPT !.floor = f]
    BY <1>5
  <2> HIDE DEF f
  <2>3. /\ r \in Stores /\ r.lines = st.lines /\ Held(r) = Held(st) /\ r.win = st.win
        /\ r.alt = st.alt /\ r.altRows = st.altRows /\ r.floor = f
        /\ r.evictedThrough = st.evictedThrough /\ r.erasedThrough = st.erasedThrough
    BY <1>1, <2>1, <2>2
  <2> HIDE DEF r
  <2>4. /\ r.floor = Larger(first + n, Lowest(Held(st))) /\ n > 0
        /\ st.floor < Lowest(Held(st)) /\ Lowest(Held(st)) >= 0
    BY <2>3, <1>5 DEF f
  <2> QED
    BY <2>3, <2>4 DEF r
<1> QED
  BY <1>3, <1>4, <1>5 DEF ConfirmRange

\* How many lines of a scroll message a store takes.
Took(st, m) ==
  Smaller(Len(m.lines),
          IF st.alt /\ st.win.height > 0 THEN st.win.base - m.first ELSE Len(m.lines))

\* The lines taken, the store r with them, and the store u confirmed.
Scrolled(st, m, took, r, u) ==
  /\ took \in Int /\ took <= Len(m.lines) /\ 1 .. took \subseteq 1 .. Len(m.lines)
  /\ m.first \in Nat /\ Len(m.lines) \in Nat /\ m.first + Len(m.lines) <= MaxChunks
  /\ \A i \in 1 .. Len(m.lines) : m.lines[i] \in Row /\ m.first + i - 1 \in Index
  /\ u = ConfirmRange(r, m.first, took)
  /\ RowsKept(r, st, m.first, m.lines, 1 .. took)
  /\ u \in Stores /\ u.lines = r.lines /\ Held(u) = Held(r)
  /\ u.win = st.win /\ u.alt = st.alt /\ u.altRows = st.altRows

LEMMA ScrollIs ==
  ASSUME NEW st \in Stores, NEW m \in ScrollMsg
  PROVE  Scrolled(st, m, Took(st, m),
                  ApplyRows(st, m.first, m.lines, 1 .. Took(st, m)), ApplyScroll(st, m))
<1> DEFINE took == Took(st, m)
           r    == ApplyRows(st, m.first, m.lines, 1 .. took)
           u    == ConfirmRange(r, m.first, took)
<1>1. m.first \in Nat /\ m.lines \in Seq(Row) /\ m.first + Len(m.lines) <= MaxChunks
  BY DEF ScrollMsg
<1>2. took \in Int /\ took <= Len(m.lines)
  <2>1. st.win.base \in Int /\ Len(m.lines) \in Int /\ m.first \in Int
    BY <1>1, StoreIs
  <2> QED
    BY <2>1 DEF Took, Smaller
<1>3. ApplyScroll(st, m) = u
  BY DEF ApplyScroll, Took
<1> HIDE DEF took
<1>4. /\ 1 .. took \subseteq 1 .. Len(m.lines) /\ Len(m.lines) \in Nat
      /\ \A i \in 1 .. Len(m.lines) : m.lines[i] \in Row /\ m.first + i - 1 \in Index
  BY <1>1, <1>2, Sizes DEF Index
<1>5. RowsKept(r, st, m.first, m.lines, 1 .. took)
  <2>1. Placed(m.first, m.lines, 1 .. took)
    BY <1>1, <1>4 DEF Placed
  <2> QED
    BY <2>1, RowsKeep
<1> HIDE DEF r
<1>6. r \in Stores /\ Alike(r, st)
  BY <1>5 DEF RowsKept
<1>7. /\ u \in Stores /\ u.lines = r.lines /\ Held(u) = Held(r) /\ u.win = r.win
      /\ u.alt = r.alt /\ u.altRows = r.altRows
  <2>1. took > 0 => m.first + took <= MaxChunks
    BY <1>1, <1>2, Sizes
  <2> QED
    BY <1>1, <1>2, <1>6, <2>1, ConfirmIs
<1> HIDE DEF u
<1>8. u.win = st.win /\ u.alt = st.alt /\ u.altRows = st.altRows
  BY <1>6, <1>7 DEF Alike
<1>9. m.first \in Nat /\ m.first + Len(m.lines) <= MaxChunks
  BY <1>1
<1> QED
  BY <1>2, <1>3, <1>4, <1>5, <1>7, <1>8, <1>9, Zenon DEF took, r, u, Scrolled

\* Lines below the window leave what is shown alone.
LEMMA ScrollShows ==
  ASSUME NEW st \in Stores, NEW m \in ScrollMsg, NEW p \in Pictures, Shows(st, p),
         p.mode # "alt" => m.first + Len(m.lines) <= p.base
  PROVE  Shows(ApplyScroll(st, m), p)
<1> DEFINE took == Took(st, m)
           r    == ApplyRows(st, m.first, m.lines, 1 .. took)
           u    == ApplyScroll(st, m)
<1>1. /\ took \in Int /\ took <= Len(m.lines) /\ m.first \in Nat /\ Len(m.lines) \in Nat
      /\ RowsKept(r, st, m.first, m.lines, 1 .. took)
      /\ u.lines = r.lines /\ Held(u) = Held(r) /\ u.win = st.win
      /\ u.alt = st.alt /\ u.altRows = st.altRows
  <2>1. Scrolled(st, m, took, r, u)
    BY ScrollIs, Zenon
  <2> HIDE DEF took, r, u
  <2> QED
    BY <2>1 DEF Scrolled
<1> HIDE DEF took, r, u
<1>2. CASE p.mode = "alt"
  <2>1. Shows(u, p)
    BY <1>1, <1>2 DEF Shows
  <2> QED
    BY <2>1 DEF u
<1>3. CASE p.mode # "alt"
  <2>1. p.base \in Int /\ p.base >= 0
    BY Sizes DEF Pictures, Base
  <2>2. ASSUME NEW y \in 1 .. Height
        PROVE  p.base + y - 1 \in Held(u) /\ u.lines[p.base + y - 1] = p.rows[y]
    <3> DEFINE b == p.base + y - 1
    <3>1. b \in Held(st) /\ st.lines[b] = p.rows[y]
      BY <1>3 DEF Shows
    <3>2. b \in Window(st)
      <4>1. st.win = [base |-> p.base, height |-> Height]
        BY <1>3 DEF Shows
      <4>2. Window(st) = p.base .. p.base + Height - 1
        BY <4>1 DEF Window, Bottom
      <4> QED
        BY <4>2, <2>1, Sizes
    <3>3. \A i \in 1 .. took : m.first + i - 1 # b
      BY <1>1, <1>3, <2>1, Sizes
    <3>4. b \in Held(r) /\ r.lines[b] = st.lines[b]
      BY <1>1, <3>1, <3>2, <3>3 DEF RowsKept
    <3> QED
      BY <1>1, <3>1, <3>4
  <2>3. ~u.alt /\ u.win = [base |-> p.base, height |-> Height]
    BY <1>1, <1>3 DEF Shows
  <2>4. Shows(u, p)
    BY <1>3, <2>2, <2>3 DEF Shows
  <2> QED
    BY <2>4 DEF u
<1> QED
  BY <1>2, <1>3

\* Any screen message leaves a store.
LEMMA ScreenTyped ==
  ASSUME NEW st \in Stores, NEW m \in ScreenMsg
  PROVE  ApplyScreen(st, m) \in Stores
<1> DEFINE c == IF m.cleared THEN ApplyScrollbackCleared(st, m.base) ELSE st
<1>1. /\ m.base \in Base /\ m.rows \in Picture /\ m.changed \subseteq 1 .. Height
      /\ m.rows # <<>> /\ Len(m.rows) = Height /\ m.alt \in BOOLEAN
  <2>1. m.base \in Base /\ m.rows \in Picture /\ m.changed \subseteq 1 .. Height /\ m.alt \in BOOLEAN
    BY DEF ScreenMsg
  <2> QED
    BY <2>1, PictureIs
<1>2. c \in Stores
  BY <1>1, ClearedIs
<1>3. ApplyScreen(st, m) = IF m.alt THEN ApplyAltRows(c, m) ELSE ApplyMainRows(c, m)
  BY <1>1 DEF ApplyScreen
<1> HIDE DEF c
<1>4. ApplyAltRows(c, m) \in Stores
  <2> DEFINE known(y) == IF c.alt /\ y <= Len(c.altRows) THEN c.altRows[y] ELSE 0
             new == [y \in 1 .. Len(m.rows) |-> IF y \in m.changed THEN m.rows[y] ELSE known(y)]
  <2>1. c.altRows \in Seq(Row)
    BY <1>2, StoreIs
  <2>2. \A y \in 1 .. Height : (IF y \in m.changed THEN m.rows[y] ELSE known(y)) \in Row
    <3>1. \A y \in 1 .. Height : m.rows[y] \in Row
      BY <1>1, PictureIs
    <3>2. \A y \in 1 .. Height : known(y) \in Row
      BY <2>1, Sizes DEF Row
    <3> HIDE DEF known
    <3> QED
      BY <3>1, <3>2
  <2>3. new \in Seq(Row)
    BY <1>1, <2>2, Sizes
  <2>4. ApplyAltRows(c, m) = [c EXCEPT !.alt = TRUE, !.altRows = new]
    BY DEF ApplyAltRows
  <2> HIDE DEF new
  <2> QED
    BY <1>2, <2>3, <2>4 DEF Stores
<1>5. ApplyMainRows(c, m) \in Stores
  <2> DEFINE s == Shaped(c, m)
             a == ApplyRows(s, m.base, m.rows, m.changed)
  <2>1. s \in Stores
    BY <1>2, ShapedIs
  <2>2. Placed(m.base, m.rows, m.changed)
    BY ScreenPlaced
  <2>3. ApplyMainRows(c, m) = EnforceCap(TruncateBelowWindow(a))
    BY DEF ApplyMainRows, Shaped
  <2> HIDE DEF s
  <2>4. RowsKept(a, s, m.base, m.rows, m.changed)
    BY <2>1, <2>2, RowsKeep, Zenon
  <2> HIDE DEF a
  <2>5. TruncateBelowWindow(a) \in Stores
    BY <2>4, TruncateIs DEF RowsKept
  <2> QED
    BY <2>3, <2>5, CapIs
<1> QED
  BY <1>1, <1>3, <1>4, <1>5

\* A screen message that comes before the resumeAck has only its ED3 applied.
Muted(st, m) == IF m.cleared
                  THEN ApplyScreen(st, [m EXCEPT !.rows = <<>>, !.changed = {}]) ELSE st

LEMMA MutedIs ==
  ASSUME NEW st \in Stores, NEW m \in ScreenMsg
  PROVE  Muted(st, m) = IF m.cleared THEN ApplyScrollbackCleared(st, m.base) ELSE st
<1> DEFINE bare == [m EXCEPT !.rows = <<>>, !.changed = {}]
<1>1. bare.rows = <<>> /\ bare.base = m.base /\ bare.cleared = m.cleared
  BY DEF ScreenMsg
<1>2. Muted(st, m) = IF m.cleared THEN ApplyScreen(st, bare) ELSE st
  BY DEF Muted
<1> HIDE DEF bare
<1> QED
  BY <1>1, <1>2 DEF ApplyScreen

LEMMA MutedTyped ==
  ASSUME NEW st \in Stores, NEW m \in ScreenMsg
  PROVE  Muted(st, m) \in Stores
<1>1. m.base \in Base
  BY DEF ScreenMsg
<1> QED
  BY <1>1, MutedIs, ClearedIs

-----------------------------------------------------------------------------
(* Saved stores.                                                           *)

LEMMA EmptyIs ==
  /\ EmptyStore \in Stores /\ Held(EmptyStore) = {} /\ EmptyStore.floor = Confirmed
  /\ EmptyStore.win.height = 0 /\ ~EmptyStore.alt
  /\ EmptyStore.evictedThrough = -1 /\ EmptyStore.erasedThrough = -1
<1>1. <<>> \in Contents
  <2>1. DOMAIN <<>> = {} /\ <<>> = [a \in {} |-> <<>>[a]]
    OBVIOUS
  <2> QED
    BY <2>1, ContentsIs
<1>2. NoWindow \in [base : Base, height : {0, Height}] /\ NoWindow.height = 0
  BY Sizes DEF NoWindow, Base
<1>3. Confirmed \in 0 .. Confirmed /\ <<>> \in Seq(Row) /\ -1 \in Int
  BY Sizes
<1>4. EmptyStore \in Stores
  BY <1>1, <1>2, <1>3 DEF EmptyStore, Stores
<1> QED
  BY <1>2, <1>4 DEF EmptyStore, Held

\* The rows a snapshot keeps.
Saved(st) ==
  LastOf({a \in Held(st) : a .. Highest(Held(st)) \subseteq Held(st)}, MaxLines)

LEMMA RestoredIs ==
  ASSUME NEW st \in Stores
  PROVE  LET r == FromSnapshot(Snapshot(st)) IN
         /\ r \in Stores /\ Saved(st) \subseteq Held(st)
         /\ Saved(st) = {} => r = EmptyStore
         /\ Saved(st) # {} =>
              /\ Held(r) = Saved(st) /\ Keeps(r, st) /\ r.floor = st.floor
              /\ r.win.height = 0 /\ ~r.alt /\ r.erasedThrough = -1
              /\ r.evictedThrough = Lowest(Saved(st)) - 1
<1> DEFINE S == Saved(st)
           f == [a \in S |-> st.lines[a]]
           snap == Snapshot(st)
           r == FromSnapshot(snap)
<1>1. S \subseteq Held(st)
  BY DEF Saved, LastOf
<1>2. snap = [lines |-> f, floor |-> st.floor]
  BY DEF Snapshot, Saved
<1>3. DOMAIN f = S /\ \A a \in S : f[a] = st.lines[a]
  OBVIOUS
<1>4. f \in Contents
  <2>1. f = [a \in DOMAIN f |-> f[a]]
    OBVIOUS
  <2>2. DOMAIN f \subseteq Index /\ \A a \in DOMAIN f : f[a] \in Row
    BY <1>1, <1>3, StoreIs
  <2> QED
    BY <2>1, <2>2, ContentsIs
<1> HIDE DEF f, snap
<1>5. snap.lines = f /\ snap.floor = st.floor
  BY <1>2
<1>6. CASE S = {}
  <2>1. r = EmptyStore
    BY <1>3, <1>5, <1>6 DEF FromSnapshot
  <2> QED
    BY <2>1, <1>1, <1>6, EmptyIs DEF snap
<1>7. CASE S # {}
  <2> DEFINE n == Lowest(S) - 1
  <2>1. n \in Int
    <3>1. S \in SUBSET Nat
      BY <1>1, StoreIs
    <3>2. Lowest(S) \in Int
      BY <3>1, LowestIs
    <3> QED
      BY <3>2
  <2> HIDE DEF n
  <2>2. r = [EmptyStore EXCEPT !.lines = f, !.floor = st.floor, !.evictedThrough = n]
    BY <1>3, <1>5, <1>7 DEF FromSnapshot, n
  <2>3. st.floor \in 0 .. Confirmed
    BY DEF Stores
  <2>4. /\ r \in Stores /\ r.lines = f /\ r.floor = st.floor /\ r.evictedThrough = n
        /\ r.win = EmptyStore.win /\ r.alt = EmptyStore.alt
        /\ r.erasedThrough = EmptyStore.erasedThrough
    BY <1>4, <2>1, <2>2, <2>3, EmptyIs DEF Stores
  <2> HIDE DEF r
  <2>5. Held(r) = S /\ Keeps(r, st)
    BY <1>1, <1>3, <2>4 DEF Held, Keeps
  <2>6. r.win.height = 0 /\ ~r.alt /\ r.erasedThrough = -1
    BY <2>4, EmptyIs
  <2> HIDE DEF S
  <2>7. /\ r \in Stores /\ S \subseteq Held(st) /\ S # {}
        /\ Held(r) = S /\ Keeps(r, st) /\ r.floor = st.floor
        /\ r.win.height = 0 /\ ~r.alt /\ r.erasedThrough = -1
        /\ r.evictedThrough = Lowest(S) - 1
    BY <1>1, <1>7, <2>4, <2>5, <2>6 DEF n
  <2> QED
    BY <2>7, Zenon DEF S, r, snap
<1> QED
  BY <1>6, <1>7

-----------------------------------------------------------------------------
(* What a queue of messages leads to.  A stage is what can be said of a tab *)
(* before or after a message; R holds the steps <<stage, message, stage>>.   *)

Path(R, S, q, s, t, P) ==
  /\ P[0] = s /\ P[Len(q)] = t
  /\ \A i \in 0 .. Len(q) : P[i] \in S
  /\ \A i \in 1 .. Len(q) : <<P[i - 1], q[i], P[i]>> \in R
Leads(R, S, q, s, t) == \E P : Path(R, S, q, s, t, P)

LEMMA LeadsEmpty ==
  ASSUME NEW R, NEW S
  PROVE  /\ \A s \in S : Leads(R, S, <<>>, s, s)
         /\ \A s, t : Leads(R, S, <<>>, s, t) => s = t /\ s \in S
<1>1. ASSUME NEW s \in S PROVE Leads(R, S, <<>>, s, s)
  <2> DEFINE P == [i \in {0} |-> s]
  <2>1. P[0] = s /\ Len(<<>>) = 0 /\ \A i \in 0 .. 0 : i = 0
    OBVIOUS
  <2> HIDE DEF P
  <2>2. Path(R, S, <<>>, s, s, P)
    BY <2>1 DEF Path
  <2> QED
    BY <2>2 DEF Leads
<1>2. ASSUME NEW s, NEW t, Leads(R, S, <<>>, s, t)
      PROVE  s = t /\ s \in S
  <2>1. PICK P : Path(R, S, <<>>, s, t, P)
    BY <1>2 DEF Leads
  <2>2. Len(<<>>) = 0 /\ 0 \in 0 .. 0
    OBVIOUS
  <2> QED
    BY <2>1, <2>2 DEF Path
<1> QED
  BY <1>1, <1>2

\* The first message takes one step, the others lead on from there.
LEMMA LeadsTail ==
  ASSUME NEW R, NEW S, NEW M, NEW q \in Seq(M), q # <<>>, NEW s, NEW t, Leads(R, S, q, s, t)
  PROVE  \E u \in S : <<s, Head(q), u>> \in R /\ Leads(R, S, Tail(q), u, t)
<1>1. PICK P : Path(R, S, q, s, t, P)
  BY DEF Leads
<1> DEFINE Q == [i \in 0 .. Len(q) - 1 |-> P[i + 1]]
<1>2. /\ Len(q) \in Nat /\ Len(q) >= 1 /\ Len(Tail(q)) = Len(q) - 1 /\ Head(q) = q[1]
      /\ \A i \in 1 .. Len(q) - 1 : Tail(q)[i] = q[i + 1]
  OBVIOUS
<1>3. P[1] \in S /\ <<s, Head(q), P[1]>> \in R
  <2>1. 1 \in 1 .. Len(q) /\ 1 \in 0 .. Len(q) /\ 1 - 1 = 0
    BY <1>2
  <2> QED
    BY <1>1, <1>2, <2>1 DEF Path
<1>4. \A i \in 0 .. Len(q) - 1 : Q[i] = P[i + 1]
  OBVIOUS
<1> HIDE DEF Q
<1>5. Path(R, S, Tail(q), P[1], t, Q)
  <2>1. Q[0] = P[1] /\ Q[Len(q) - 1] = t
    BY <1>1, <1>2, <1>4 DEF Path
  <2>2. \A i \in 0 .. Len(q) - 1 : Q[i] \in S
    BY <1>1, <1>2, <1>4 DEF Path
  <2>3. ASSUME NEW i \in 1 .. Len(q) - 1
        PROVE  <<Q[i - 1], Tail(q)[i], Q[i]>> \in R
    <3>1. i + 1 \in 1 .. Len(q) /\ i - 1 \in 0 .. Len(q) - 1 /\ i \in 0 .. Len(q) - 1
          /\ (i + 1) - 1 = i /\ (i - 1) + 1 = i
      BY <1>2
    <3>2. <<P[i], q[i + 1], P[i + 1]>> \in R
      BY <1>1, <3>1 DEF Path
    <3>3. Q[i - 1] = P[i] /\ Q[i] = P[i + 1] /\ Tail(q)[i] = q[i + 1]
      BY <1>2, <1>4, <3>1
    <3> QED
      BY <3>2, <3>3
  <2> QED
    BY <1>2, <2>1, <2>2, <2>3 DEF Path
<1> QED
  BY <1>3, <1>5 DEF Leads

LEMMA LeadsOn ==
  ASSUME NEW R, NEW S, NEW M, NEW q \in Seq(M), NEW r \in Seq(M), NEW s, NEW t, NEW u,
         Leads(R, S, q, s, t), Leads(R, S, r, t, u)
  PROVE  Leads(R, S, q \o r, s, u)
<1>1. PICK P : Path(R, S, q, s, t, P)
  BY DEF Leads
<1>2. PICK Q : Path(R, S, r, t, u, Q)
  BY DEF Leads
<1> DEFINE m == Len(q)
           n == Len(r)
           W == [i \in 0 .. m + n |-> IF i <= m THEN P[i] ELSE Q[i - m]]
<1>3. /\ m \in Nat /\ n \in Nat /\ Len(q \o r) = m + n
      /\ \A i \in 1 .. m : (q \o r)[i] = q[i]
      /\ \A i \in m + 1 .. m + n : (q \o r)[i] = r[i - m]
  OBVIOUS
<1>4. \A i \in 0 .. m + n : W[i] = IF i <= m THEN P[i] ELSE Q[i - m]
  OBVIOUS
<1> HIDE DEF W
<1>5. P[0] = s /\ P[m] = t /\ Q[0] = t /\ Q[n] = u
  BY <1>1, <1>2 DEF Path
<1> HIDE DEF m, n
<1>6. \A i \in m .. m + n : W[i] = Q[i - m]
  <2> TAKE i \in m .. m + n
  <2>1. CASE i = m
    BY <2>1, <1>3, <1>4, <1>5
  <2>2. CASE i # m
    BY <2>2, <1>3, <1>4
  <2> QED
    BY <2>1, <2>2
<1>7. W[0] = s /\ W[m + n] = u
  BY <1>3, <1>4, <1>5, <1>6
<1>8. \A i \in 0 .. m + n : W[i] \in S
  <2> TAKE i \in 0 .. m + n
  <2>1. CASE i <= m
    BY <2>1, <1>1, <1>3, <1>4 DEF Path, m
  <2>2. CASE ~(i <= m)
    <3>1. i - m \in 0 .. n
      BY <2>2, <1>3
    <3> QED
      BY <2>2, <3>1, <1>2, <1>4 DEF Path, n
  <2> QED
    BY <2>1, <2>2
<1>9. ASSUME NEW i \in 1 .. m + n
      PROVE  <<W[i - 1], (q \o r)[i], W[i]>> \in R
  <2>1. CASE i <= m
    <3>1. i \in 1 .. m /\ i \in 0 .. m + n /\ i - 1 \in 0 .. m + n /\ i - 1 <= m
      BY <2>1, <1>3
    <3>2. <<P[i - 1], q[i], P[i]>> \in R
      BY <3>1, <1>1 DEF Path, m
    <3> QED
      BY <2>1, <3>1, <3>2, <1>3, <1>4
  <2>2. CASE ~(i <= m)
    <3>1. /\ i \in m + 1 .. m + n /\ i \in m .. m + n /\ i - 1 \in m .. m + n
          /\ i - m \in 1 .. n /\ (i - 1) - m = (i - m) - 1
      BY <2>2, <1>3
    <3>2. <<Q[(i - m) - 1], r[i - m], Q[i - m]>> \in R
      BY <3>1, <1>2 DEF Path, n
    <3> QED
      BY <3>1, <3>2, <1>3, <1>6
  <2> QED
    BY <2>1, <2>2
<1>10. Path(R, S, q \o r, s, u, W)
  BY <1>3, <1>7, <1>8, <1>9 DEF Path
<1> QED
  BY <1>10 DEF Leads

LEMMA LeadsOne ==
  ASSUME NEW R, NEW S, NEW m, NEW s \in S, NEW t \in S, <<s, m, t>> \in R
  PROVE  Leads(R, S, <<m>>, s, t)
<1> DEFINE P == [i \in 0 .. 1 |-> IF i = 0 THEN s ELSE t]
<1>1. P[0] = s /\ P[1] = t /\ Len(<<m>>) = 1 /\ <<m>>[1] = m
  OBVIOUS
<1> HIDE DEF P
<1>2. \A i \in 0 .. 1 : P[i] \in S
  BY <1>1
<1>3. \A i \in 1 .. 1 : <<P[i - 1], <<m>>[i], P[i]>> \in R
  <2> TAKE i \in 1 .. 1
  <2>1. i = 1 /\ i - 1 = 0
    OBVIOUS
  <2> QED
    BY <1>1, <2>1
<1>4. Path(R, S, <<m>>, s, t, P)
  BY <1>1, <1>2, <1>3 DEF Path
<1> QED
  BY <1>4 DEF Leads

\* Messages that none of them changes the stage.
LEMMA LeadsNowhere ==
  ASSUME NEW R, NEW S, NEW M, NEW q \in Seq(M), NEW s \in S,
         \A i \in 1 .. Len(q) : <<s, q[i], s>> \in R
  PROVE  Leads(R, S, q, s, s)
<1> DEFINE P == [i \in 0 .. Len(q) |-> s]
<1>1. Len(q) \in Nat /\ \A i \in 0 .. Len(q) : P[i] = s
  OBVIOUS
<1> HIDE DEF P
<1>2. \A i \in 1 .. Len(q) : i \in 0 .. Len(q) /\ i - 1 \in 0 .. Len(q)
  BY <1>1
<1>3. Path(R, S, q, s, s, P)
  BY <1>1, <1>2 DEF Path
<1> QED
  BY <1>3 DEF Leads

-----------------------------------------------------------------------------
(* Lines cut into messages.                                                *)

LEMMA Products == \A i, j, c \in Nat :
  /\ i * c \in Nat /\ (i + 1) * c = i * c + c
  /\ i <= j => i * c <= j * c
<1>1. \A i, c \in Nat : i * c \in Nat /\ (i + 1) * c = i * c + c
  OBVIOUS
<1>2. ASSUME NEW i \in Nat, NEW j \in Nat, NEW c \in Nat, i <= j
      PROVE  i * c <= j * c
  <2>1. PICK d \in Nat : j = i + d
    <3>1. j - i \in Nat /\ j = i + (j - i)
      BY <1>2
    <3> QED
      BY <3>1
  <2>2. j * c = i * c + d * c
    BY <2>1
  <2>3. d * c \in Nat /\ i * c \in Nat
    BY <1>1
  <2> QED
    BY <2>2, <2>3
<1> QED
  BY <1>1, <1>2

Pieces(n) == (n + ChunkLines - 1) \div ChunkLines

LEMMA PiecesIs ==
  ASSUME NEW n \in Nat
  PROVE  /\ Pieces(n) \in Nat
         /\ n = 0 => Pieces(n) = 0
         /\ n > 0 => Pieces(n) > 0
         /\ n <= Pieces(n) * ChunkLines
         /\ Pieces(n) * ChunkLines < n + ChunkLines
<1> DEFINE a == n + ChunkLines - 1
           d == a \div ChunkLines
<1>1. a \in Nat /\ ChunkLines \in Nat /\ ChunkLines > 0
  BY Sizes
<1>2. d \in Int /\ ChunkLines * d <= a /\ a < ChunkLines * d + ChunkLines
  <2>1. \A x, c \in Nat : c > 0 => /\ x \div c \in Int /\ c * (x \div c) <= x
                                   /\ x < c * (x \div c) + c
    OBVIOUS
  <2> HIDE DEF a
  <2> QED
    BY <1>1, <2>1
<1>3. ChunkLines * d = d * ChunkLines
  BY <1>1, <1>2
<1>4. d >= 0
  <2>1. CASE d < 0
    <3>1. PICK e \in Nat : d = -1 - e
      <4>1. -1 - d \in Nat /\ d = -1 - (-1 - d)
        BY <1>2, <2>1
      <4> QED
        BY <4>1
    <3>2. ChunkLines * d = -ChunkLines - ChunkLines * e
      BY <3>1, <1>1
    <3>3. ChunkLines * e \in Nat
      BY <1>1
    <3> HIDE DEF d, a
    <3> QED
      BY <3>2, <3>3, <1>1, <1>2
  <2> HIDE DEF d
  <2> QED
    BY <2>1, <1>2
<1>5. Pieces(n) = d
  BY DEF Pieces
<1> HIDE DEF d
<1>6. d \in Nat /\ d * ChunkLines <= a /\ a < d * ChunkLines + ChunkLines /\ d * ChunkLines \in Int
  BY <1>1, <1>2, <1>3, <1>4
<1>7. n > 0 => d > 0
  <2>1. d = 0 => d * ChunkLines = 0
    BY <1>1
  <2> QED
    BY <2>1, <1>1, <1>6
<1>8. n = 0 => d = 0
  <2>1. SUFFICES ASSUME n = 0, d >= 1 PROVE FALSE
    BY <1>6
  <2>2. 1 * ChunkLines <= d * ChunkLines
    BY <2>1, <1>1, <1>6, Products
  <2>3. 1 * ChunkLines = ChunkLines
    BY <1>1
  <2> QED
    BY <2>1, <2>2, <2>3, <1>1, <1>6
<1> QED
  BY <1>1, <1>5, <1>6, <1>7, <1>8

\* The messages carry the lines from first on, each from where the last ended.
CutInto(cs, first, lines) ==
  /\ cs \in Seq(ScrollMsg)
  /\ Len(lines) = 0 => cs = <<>>
  /\ Len(lines) > 0 => /\ Len(cs) > 0 /\ cs[1].first = first
                       /\ cs[Len(cs)].first + Len(cs[Len(cs)].lines)
                            = first + Len(lines)
  /\ \A k \in 1 .. Len(cs) :
       /\ cs[k].kind = "scroll" /\ cs[k].first >= first
       /\ cs[k].first + Len(cs[k].lines) <= first + Len(lines)
       /\ \A j \in 1 .. Len(cs[k].lines) :
            cs[k].lines[j] = lines[(cs[k].first - first) + j]
  /\ \A k \in 1 .. Len(cs) - 1 : cs[k + 1].first = cs[k].first + Len(cs[k].lines)

LEMMA ChunksAre ==
  ASSUME NEW first \in Nat, NEW lines \in Seq(Row), first + Len(lines) <= MaxChunks
  PROVE  CutInto(Chunks(first, lines), first, lines)
<1> DEFINE n       == Len(lines)
           N       == Pieces(n)
           off(k)  == (k - 1) * ChunkLines
           piece(k) == [kind |-> "scroll", first |-> first + off(k),
                        lines |-> SubSeq(lines, off(k) + 1, Smaller(off(k) + ChunkLines, n))]
           cs      == Chunks(first, lines)
<1>1. n \in Nat /\ N \in Nat /\ ChunkLines \in Nat /\ ChunkLines > 0
        /\ n <= N * ChunkLines /\ N * ChunkLines < n + ChunkLines /\ N * ChunkLines \in Nat
        /\ (n > 0 => N > 0) /\ (n = 0 => N = 0)
  <2>1. n \in Nat
    OBVIOUS
  <2>2. ChunkLines \in Nat /\ ChunkLines > 0
    BY Sizes
  <2> HIDE DEF n
  <2>3. /\ N \in Nat /\ n <= N * ChunkLines /\ N * ChunkLines < n + ChunkLines
        /\ (n > 0 => N > 0) /\ (n = 0 => N = 0)
    BY <2>1, PiecesIs
  <2> HIDE DEF N
  <2>4. N * ChunkLines \in Nat
    BY <2>2, <2>3, Products
  <2> QED
    BY <2>1, <2>2, <2>3, <2>4
<1>2. cs = [k \in 1 .. N |-> piece(k)]
  BY DEF Chunks, Pieces
<1>3. ASSUME NEW k \in 1 .. N
      PROVE  /\ off(k) \in Nat /\ off(k) + ChunkLines = k * ChunkLines /\ off(k) < n
             /\ (k = N => Smaller(off(k) + ChunkLines, n) = n)
             /\ (k # N => Smaller(off(k) + ChunkLines, n) = off(k) + ChunkLines)
             /\ Smaller(off(k) + ChunkLines, n) \in Nat
             /\ Smaller(off(k) + ChunkLines, n) <= n
             /\ off(k) < Smaller(off(k) + ChunkLines, n)
  <2>1. k - 1 \in Nat /\ k \in Nat /\ (k - 1) + 1 = k /\ N - 1 \in Nat /\ (N - 1) + 1 = N
    BY <1>1
  <2>2. off(k) \in Nat /\ off(k) + ChunkLines = k * ChunkLines
    BY <2>1, <1>1, Products
  <2>3. k <= N /\ k * ChunkLines <= N * ChunkLines
    BY <2>1, <1>1, Products
  <2>4. k # N => k * ChunkLines <= (N - 1) * ChunkLines
    <3>1. k # N => k <= N - 1
      BY <2>1
    <3> QED
      BY <3>1, <2>1, <1>1, Products
  <2>5. (N - 1) * ChunkLines + ChunkLines = N * ChunkLines /\ (N - 1) * ChunkLines \in Nat
    BY <2>1, <1>1, Products
  <2> HIDE DEF off, N, n
  <2>6. off(k) < n
    BY <2>2, <2>3, <1>1
  <2>7. k = N => n <= off(k) + ChunkLines
    BY <2>2, <1>1
  <2>8. k # N => off(k) + ChunkLines < n
    BY <2>2, <2>4, <2>5, <1>1
  <2> QED
    BY <2>2, <2>6, <2>7, <2>8, <1>1 DEF Smaller
<1>4. ASSUME NEW k \in 1 .. N
      PROVE  /\ piece(k) \in ScrollMsg /\ piece(k).kind = "scroll"
             /\ piece(k).first = first + off(k)
             /\ piece(k).first + Len(piece(k).lines)
                  = first + Smaller(off(k) + ChunkLines, n)
             /\ \A j \in 1 .. Len(piece(k).lines) : piece(k).lines[j] = lines[off(k) + j]
  <2> DEFINE o == off(k)
             e == Smaller(off(k) + ChunkLines, n)
             sub == SubSeq(lines, o + 1, e)
  <2>1. o \in Nat /\ e \in Nat /\ o < e /\ e <= n
    BY <1>3
  <2> HIDE DEF o, e
  <2>2. sub \in Seq(Row) /\ Len(sub) = e - o /\ \A j \in 1 .. e - o : sub[j] = lines[o + j]
    <3>1. \A i \in o + 1 .. e : lines[i] \in Row
      BY <2>1, <1>1
    <3>2. sub \in Seq(Row)
      BY <2>1, <3>1, <1>1
    <3>3. Len(sub) = e - o
      BY <2>1
    <3>4. \A j \in 1 .. e - o : sub[j] = lines[o + j]
      BY <2>1
    <3> QED
      BY <3>2, <3>3, <3>4
  <2> HIDE DEF sub
  <2>3. first + o \in Nat /\ (first + o) + Len(sub) = first + e /\ first + e <= MaxChunks
    BY <2>1, <2>2, <1>1, Sizes
  <2>4. piece(k) = [kind |-> "scroll", first |-> first + o, lines |-> sub]
    BY DEF o, e, sub
  <2> HIDE DEF piece
  <2>5. piece(k) \in ScrollMsg
    BY <2>2, <2>3, <2>4 DEF ScrollMsg
  <2>6. /\ piece(k).kind = "scroll" /\ piece(k).first = first + o
        /\ piece(k).first + Len(piece(k).lines) = first + e
        /\ \A j \in 1 .. Len(piece(k).lines) : piece(k).lines[j] = lines[o + j]
    BY <2>2, <2>3, <2>4
  <2> QED
    BY <2>5, <2>6 DEF o, e
<1> HIDE DEF piece, N
<1>5. cs \in Seq(ScrollMsg) /\ Len(cs) = N /\ \A k \in 1 .. N : cs[k] = piece(k)
  BY <1>1, <1>2, <1>4
<1> HIDE DEF cs
<1>6. n = 0 => cs = <<>>
  BY <1>1, <1>5
<1>7. off(1) = 0
  BY <1>1
<1>8. ASSUME n > 0
      PROVE  /\ Len(cs) > 0 /\ cs[1].first = first
             /\ cs[Len(cs)].first + Len(cs[Len(cs)].lines) = first + n
  <2>1. 1 \in 1 .. N /\ N \in 1 .. N
    BY <1>1, <1>8
  <2> HIDE DEF off, n
  <2>2. cs[1].first = first + 0
    BY <2>1, <1>4, <1>5, <1>7
  <2>3. cs[N].first + Len(cs[N].lines) = first + n
    BY <2>1, <1>3, <1>4, <1>5
  <2> QED
    BY <2>1, <2>2, <2>3, <1>1, <1>5
<1>9. ASSUME NEW k \in 1 .. Len(cs)
      PROVE  /\ cs[k].kind = "scroll" /\ cs[k].first >= first
             /\ cs[k].first + Len(cs[k].lines) <= first + n
             /\ \A j \in 1 .. Len(cs[k].lines) :
                  cs[k].lines[j] = lines[(cs[k].first - first) + j]
  <2> HIDE DEF off, n
  <2>1. k \in 1 .. N /\ cs[k] = piece(k)
    BY <1>5
  <2>2. /\ off(k) \in Nat /\ Smaller(off(k) + ChunkLines, n) \in Nat
        /\ Smaller(off(k) + ChunkLines, n) <= n
    BY <2>1, <1>3
  <2>3. /\ cs[k].kind = "scroll" /\ cs[k].first = first + off(k)
        /\ cs[k].first + Len(cs[k].lines) = first + Smaller(off(k) + ChunkLines, n)
        /\ \A j \in 1 .. Len(cs[k].lines) : cs[k].lines[j] = lines[off(k) + j]
    BY <2>1, <1>4
  <2>4. cs[k].first - first = off(k) /\ cs[k].first >= first
    BY <2>2, <2>3
  <2>5. cs[k].first + Len(cs[k].lines) <= first + n
    BY <2>2, <2>3, <1>1
  <2> QED
    BY <2>3, <2>4, <2>5
<1>10. ASSUME NEW k \in 1 .. Len(cs) - 1
       PROVE  cs[k + 1].first = cs[k].first + Len(cs[k].lines)
  <2>1. k \in 1 .. N /\ k + 1 \in 1 .. N /\ k # N /\ (k + 1) - 1 = k
    BY <1>1, <1>5
  <2>2. off(k) + ChunkLines = off(k + 1)
    BY <2>1, <1>3
  <2> HIDE DEF off, n
  <2>3. cs[k].first + Len(cs[k].lines) = first + (off(k) + ChunkLines)
    BY <2>1, <1>3, <1>4, <1>5
  <2>4. cs[k + 1].first = first + off(k + 1)
    BY <2>1, <1>4, <1>5
  <2> QED
    BY <2>2, <2>3, <2>4
<1> QED
  BY <1>5, <1>6, <1>8, <1>9, <1>10 DEF CutInto, cs

-----------------------------------------------------------------------------
(* The values of the variables.                                            *)

\* What the child and the handler hold; every index there is stays below the
\* number of chunks written.
HandlerTypes ==
  /\ mode \in {"main", "alt"} /\ rows \in [{"main", "alt"} -> Picture]
  /\ drain \in Seq([row : Row, from : {"main", "alt"}]) /\ written \in Row
  /\ log \in Seq(Row) /\ Len(log) + Len(drain) <= written
  /\ cleared \in 0 .. Len(log)
  /\ cache = NoCache \/ (cache \in [base : Base, rows : Picture] /\ cache.base <= Len(log))
  /\ seen \in {"none", "main", "alt"} /\ pending \in BOOLEAN /\ dirty \in BOOLEAN

Frames == {f \in [kind : {"frame"}, base : Base, rows : Picture,
                  changed : SUBSET (1 .. Height), alt : BOOLEAN, cleared : BOOLEAN,
                  first : Base, lines : Seq(Row)] :
             f.first + Len(f.lines) = f.base /\ f.changed # {}}

\* A frame is dispatched to tabs that are connected, and none of its rows is
\* still to be committed.
PassTypes ==
  /\ frame = NoFrame \/ (frame \in Frames /\ frame.base <= Len(log))
  /\ frame = NoFrame <=> DOMAIN todo = {}
  /\ \A c \in DOMAIN todo : /\ c \in attached /\ link[c] # "down"
                            /\ todo[c] \in Nat /\ todo[c] <= gen[c]

\* Nothing is under way on a lost connection; a resume is asked once, before any
\* resumeAck.
SocketTypes ==
  /\ boot \in 1 .. MaxBoots /\ opened \in 0 .. MaxAttaches
  /\ gen \in [Client -> Nat] /\ attached \subseteq Client
  /\ asked \in [Client -> Int] /\ down \in [Client -> Seq(Msg)]
  /\ link \in [Client -> {"down", "open", "acked"}]
  /\ epoch \in [Client -> 0 .. MaxBoots]
  /\ \A c \in Client :
       /\ link[c] = "down" => down[c] = <<>> /\ asked[c] = NoResume
       /\ asked[c] # NoResume =>
            /\ c \in attached /\ link[c] = "open"
            /\ \A i \in 1 .. Len(down[c]) : down[c][i].kind # "resumeAck"

TabTypes == store \in [Client -> Stores]

Types == HandlerTypes /\ PassTypes /\ SocketTypes /\ TabTypes

LEMMA ShownIs ==
  ASSUME HandlerTypes
  PROVE  Shown \in Picture
BY DEF HandlerTypes, Shown

LEMMA ScrollOutIs ==
  ASSUME HandlerTypes
  PROVE  /\ ScrollOut \in Seq(Row) /\ Len(ScrollOut) \in Nat
         /\ Len(ScrollOut) = 0 \/ Len(ScrollOut) = Len(drain)
         /\ mode = "alt" => ScrollOut = <<>>
         /\ Len(ScrollOut) <= Len(drain)
<1> DEFINE taken == [i \in 1 .. Len(drain) |-> drain[i].row]
<1>1. drain \in Seq([row : Row, from : {"main", "alt"}]) /\ Len(drain) \in Nat
  BY DEF HandlerTypes
<1>2. taken \in Seq(Row) /\ Len(taken) = Len(drain)
  <2> DEFINE D == [row : Row, from : {"main", "alt"}]
  <2>1. \A e \in D : e.row \in Row
    OBVIOUS
  <2>2. drain \in Seq(D)
    BY <1>1
  <2> HIDE DEF D
  <2>3. \A i \in 1 .. Len(drain) : drain[i] \in D
    BY <2>2
  <2>4. \A i \in 1 .. Len(drain) : drain[i].row \in Row
    BY <2>1, <2>3
  <2> QED
    BY <1>1, <2>4
<1>3. <<>> \in Seq(Row) /\ Len(<<>>) = 0
  OBVIOUS
<1> HIDE DEF taken
<1>4. ScrollOut = IF mode = "main" /\ ~Switched THEN taken ELSE <<>>
  BY DEF ScrollOut, taken
<1>5. CASE mode = "main" /\ ~Switched
  BY <1>1, <1>2, <1>4, <1>5
<1>6. CASE ~(mode = "main" /\ ~Switched)
  BY <1>1, <1>3, <1>4, <1>6
<1> QED
  BY <1>5, <1>6

\* History with the lines of the drain that join it.
LEMMA CommittedIs ==
  ASSUME HandlerTypes
  PROVE  /\ log \in Seq(Row) /\ Len(log) \in Base /\ Len(log) \in Nat
         /\ log \o ScrollOut \in Seq(Row)
         /\ Len(log \o ScrollOut) = Len(log) + Len(ScrollOut)
         /\ Len(log \o ScrollOut) \in Base /\ Len(log \o ScrollOut) \in Nat
         /\ Len(log) <= Len(log \o ScrollOut)
         /\ Len(log \o ScrollOut) <= written
         /\ \A i \in 1 .. Len(log) : (log \o ScrollOut)[i] = log[i]
         /\ \A i \in 1 .. Len(ScrollOut) : (log \o ScrollOut)[Len(log) + i] = ScrollOut[i]
<1> DEFINE out == ScrollOut
<1>1. out \in Seq(Row) /\ Len(out) \in Nat /\ Len(out) <= Len(drain)
  BY ScrollOutIs
<1>2. /\ log \in Seq(Row) /\ Len(log) \in Nat /\ Len(drain) \in Nat
      /\ Len(log) + Len(drain) <= written /\ written \in 0 .. MaxChunks
  BY DEF HandlerTypes, Row
<1> HIDE DEF out
<1>3. /\ log \o out \in Seq(Row) /\ Len(log \o out) = Len(log) + Len(out)
      /\ \A i \in 1 .. Len(log) : (log \o out)[i] = log[i]
      /\ \A i \in 1 .. Len(out) : (log \o out)[Len(log) + i] = out[i]
  BY <1>1, <1>2
<1>4. Len(log) \in Base /\ Len(log) + Len(out) \in Base /\ Len(log) + Len(out) <= written
  BY <1>1, <1>2, Sizes DEF Base
<1> QED
  BY <1>1, <1>2, <1>3, <1>4, Sizes DEF out

LEMMA HandlerChunk ==
  ASSUME HandlerTypes, Chunk
  PROVE  /\ Fresh \in Row /\ written' = written + 1 /\ written' \in Row /\ dirty' = TRUE
         /\ UNCHANGED <<pass, sockets, tabs>>
<1>1. written \in 0 .. MaxChunks /\ written < MaxChunks /\ written' = written + 1
  BY DEF HandlerTypes, Chunk, Fresh, Row
<1>2. Fresh \in Row /\ written' \in Row
  BY <1>1, Sizes DEF Fresh, Row
<1> QED
  BY <1>1, <1>2 DEF Chunk

LEMMA HandlerChild ==
  ASSUME HandlerTypes,
         \/ PrintLine \/ EraseScreen \/ EraseSaved \/ EnterAlt \/ ExitAlt
         \/ \E y \in 1 .. Height : Rewrite(y)
  PROVE  HandlerTypes' /\ log' = log /\ UNCHANGED <<pass, sockets, tabs>>
<1>1. Chunk
  BY DEF PrintLine, EraseScreen, EraseSaved, EnterAlt, ExitAlt, Rewrite
<1>2. /\ Fresh \in Row /\ written' = written + 1 /\ written' \in Row /\ dirty' = TRUE
      /\ UNCHANGED <<pass, sockets, tabs>>
  BY <1>1, HandlerChunk
<1>3. /\ mode \in {"main", "alt"} /\ rows \in [{"main", "alt"} -> Picture]
      /\ drain \in Seq([row : Row, from : {"main", "alt"}]) /\ written \in Int
      /\ log \in Seq(Row) /\ Len(log) \in Nat /\ Len(drain) \in Nat
      /\ Len(log) + Len(drain) <= written
      /\ cleared \in 0 .. Len(log)
      /\ cache = NoCache \/ (cache \in [base : Base, rows : Picture] /\ cache.base <= Len(log))
      /\ seen \in {"none", "main", "alt"} /\ pending \in BOOLEAN
  BY DEF HandlerTypes, Row
<1>4. Shown \in Picture /\ Blank \in Picture
  <2>1. Blank \in Picture
    BY Sizes DEF Blank, Picture, Row
  <2> QED
    BY <2>1, ShownIs
<1>5. <<>> \in Seq([row : Row, from : {"main", "alt"}]) /\ Len(<<>>) = 0
  OBVIOUS
<1>6. CASE PrintLine
  <2> DEFINE e == [row |-> Shown[1], from |-> mode]
             p == Append(Tail(Shown), Fresh)
  <2>1. e \in [row : Row, from : {"main", "alt"}]
    <3>1. Shown[1] \in Row
      BY <1>4, Sizes DEF Picture
    <3> QED
      BY <3>1, <1>3
  <2>2. p \in Picture
    <3>1. Shown \in Seq(Row) /\ Len(Shown) = Height /\ Shown # <<>>
      BY <1>4, PictureIs
    <3>2. p \in Seq(Row) /\ Len(p) = Height
      BY <3>1, <1>2, Sizes
    <3> HIDE DEF p
    <3>3. \A y \in 1 .. Height : p[y] \in Row
      BY <3>2
    <3>4. p = [y \in 1 .. Height |-> p[y]]
      BY <3>2
    <3> QED
      BY <3>3, <3>4 DEF Picture
  <2> HIDE DEF e, p
  <2>3. drain' = Append(drain, e) /\ rows' = [rows EXCEPT ![mode] = p]
        /\ UNCHANGED <<mode, handler>>
    BY <1>6 DEF PrintLine, e, p, Shown
  <2>4. drain' \in Seq([row : Row, from : {"main", "alt"}]) /\ Len(drain') = Len(drain) + 1
    BY <2>1, <2>3, <1>3
  <2>5. rows' \in [{"main", "alt"} -> Picture]
    BY <2>2, <2>3, <1>3
  <2>6. Len(log) + Len(drain') <= written'
    BY <2>4, <1>2, <1>3
  <2> QED
    BY <2>3, <2>4, <2>5, <2>6, <1>2, <1>3 DEF HandlerTypes, handler
<1>7. CASE EraseScreen
  <2>1. rows' = [rows EXCEPT ![mode] = Blank] /\ drain' = <<>> /\ UNCHANGED <<mode, handler>>
    BY <1>7 DEF EraseScreen
  <2>2. rows' \in [{"main", "alt"} -> Picture]
    BY <2>1, <1>3, <1>4
  <2> QED
    BY <2>1, <2>2, <1>2, <1>3, <1>5 DEF HandlerTypes, handler
<1>8. CASE EraseSaved
  <2>1. drain' = <<>> /\ cleared' = Len(log) /\ pending' = TRUE
        /\ UNCHANGED <<mode, rows, log, cache, seen>>
    BY <1>8 DEF EraseSaved, Committed
  <2>2. cleared' \in 0 .. Len(log')
    BY <2>1, <1>3
  <2> QED
    BY <2>1, <2>2, <1>2, <1>3, <1>5 DEF HandlerTypes
<1>9. CASE EnterAlt
  <2>1. mode' = "alt" /\ rows' = [rows EXCEPT !["alt"] = Blank] /\ UNCHANGED <<drain, handler>>
    BY <1>9 DEF EnterAlt
  <2>2. rows' \in [{"main", "alt"} -> Picture]
    BY <2>1, <1>3, <1>4
  <2> QED
    BY <2>1, <2>2, <1>2, <1>3 DEF HandlerTypes, handler
<1>10. CASE ExitAlt
  <2>1. mode' = "main" /\ drain' = <<>> /\ UNCHANGED <<rows, handler>>
    BY <1>10 DEF ExitAlt
  <2> QED
    BY <2>1, <1>2, <1>3, <1>5 DEF HandlerTypes, handler
<1>11. ASSUME NEW y \in 1 .. Height, Rewrite(y)
       PROVE  HandlerTypes' /\ log' = log
  <2> DEFINE p == [Shown EXCEPT ![y] = Fresh]
  <2>1. p \in Picture
    BY <1>2, <1>4 DEF Picture
  <2>2. rows' = [rows EXCEPT ![mode] = p] /\ UNCHANGED <<mode, drain, handler>>
    BY <1>11 DEF Rewrite, Shown
  <2> HIDE DEF p
  <2>3. rows' \in [{"main", "alt"} -> Picture]
    BY <2>1, <2>2, <1>3
  <2> QED
    BY <2>2, <2>3, <1>2, <1>3 DEF HandlerTypes, handler
<1> QED
  BY <1>2, <1>6, <1>7, <1>8, <1>9, <1>10, <1>11 DEF PrintLine, EraseScreen, EraseSaved,
     EnterAlt, ExitAlt, handler

-----------------------------------------------------------------------------
(* The frame builder.                                                      *)

\* What a diff leaves out is what the window sent before had at that index.
LEMMA ChangedIs ==
  ASSUME HandlerTypes, NEW base \in Base
  PROVE  /\ Changed(base) \subseteq 1 .. Height
         /\ cache = NoCache \/ seen # mode => Changed(base) = 1 .. Height
         /\ cache # NoCache /\ seen = mode =>
              \A y \in (1 .. Height) \ Changed(base) :
                /\ base + y - cache.base \in 1 .. Height
                /\ cache.rows[base + y - cache.base] = Shown[y]
         /\ Changed(base) = {} => /\ cache # NoCache /\ seen = mode
                                  /\ base = cache.base /\ cache.rows = Shown
<1>1. Changed(base) \subseteq 1 .. Height
  BY DEF Changed
<1>2. base \in Int /\ Height \in Nat /\ Height > 0 /\ Shown \in Picture
  BY Sizes, ShownIs DEF Base
<1>3. cache = NoCache \/ seen # mode => Changed(base) = 1 .. Height
  <2>1. SUFFICES ASSUME cache = NoCache \/ seen # mode PROVE Changed(base) = 1 .. Height
    OBVIOUS
  <2>2. Baseline = NoCache
    BY <2>1 DEF Baseline
  <2>3. Baseline.rows = <<>> /\ Len(<<>>) = 0
    BY <2>2 DEF NoCache
  <2>4. \A i : i \notin 1 .. Len(Baseline.rows)
    BY <2>3
  <2> QED
    BY <2>4 DEF Changed
<1>4. ASSUME cache # NoCache, seen = mode
      PROVE  /\ cache.base \in Int /\ cache.rows \in Picture /\ Len(cache.rows) = Height
             /\ \A y \in (1 .. Height) \ Changed(base) :
                  /\ base + y - cache.base \in 1 .. Height
                  /\ cache.rows[base + y - cache.base] = Shown[y]
  <2>1. cache.base \in Int /\ cache.rows \in Picture
    BY <1>4, Sizes DEF HandlerTypes, Base
  <2>2. Len(cache.rows) = Height
    BY <2>1, PictureIs
  <2>3. Baseline = cache
    BY <1>4 DEF Baseline
  <2>4. ASSUME NEW y \in (1 .. Height) \ Changed(base)
        PROVE  /\ base + y - cache.base \in 1 .. Height
               /\ cache.rows[base + y - cache.base] = Shown[y]
    <3>1. ~(base + y - Baseline.base \notin 1 .. Len(Baseline.rows)
            \/ Baseline.rows[base + y - Baseline.base] # Shown[y])
      BY <2>4 DEF Changed
    <3> QED
      BY <3>1, <2>2, <2>3
  <2> QED
    BY <2>1, <2>2, <2>4
<1>5. ASSUME Changed(base) = {}
      PROVE  cache # NoCache /\ seen = mode /\ base = cache.base /\ cache.rows = Shown
  <2>1. 1 \in 1 .. Height /\ Height \in 1 .. Height
    BY <1>2
  <2>2. cache # NoCache /\ seen = mode
    BY <1>3, <1>5, <2>1
  <2>3. \A y \in 1 .. Height : /\ base + y - cache.base \in 1 .. Height
                               /\ cache.rows[base + y - cache.base] = Shown[y]
    BY <1>4, <1>5, <2>2
  <2>4. base + 1 - cache.base \in 1 .. Height /\ base + Height - cache.base \in 1 .. Height
    BY <2>1, <2>3
  <2>5. cache.base \in Int /\ cache.rows \in Picture
    BY <1>4, <2>2
  <2>6. base = cache.base
    BY <2>4, <2>5, <1>2
  <2>7. \A y \in 1 .. Height : cache.rows[y] = Shown[y]
    <3> TAKE y \in 1 .. Height
    <3>1. base + y - cache.base = y
      BY <2>6, <1>2
    <3> QED
      BY <3>1, <2>3
  <2>8. cache.rows = Shown
    BY <2>5, <2>7, <1>2 DEF Picture
  <2> QED
    BY <2>2, <2>6, <2>8
<1> QED
  BY <1>1, <1>3, <1>4, <1>5

\* The tabs a frame is written to.
Reached == {c \in attached : link[c] # "down"}

\* What a frame f is made of.
Built(f) ==
  /\ f \in Frames /\ f # NoFrame /\ f.base = Len(log) + Len(ScrollOut) /\ f.rows = Shown
  /\ Changed(f.base) \subseteq f.changed
  /\ f.alt <=> mode = "alt"
  /\ f.first = Len(log) /\ f.lines = ScrollOut

LEMMA BuildIs ==
  ASSUME HandlerTypes, BuildFrame
  PROVE  /\ dirty' = FALSE /\ seen' = mode /\ drain' = <<>> /\ attached # {}
         /\ frame = NoFrame
         /\ log' = log \o ScrollOut /\ Len(log') = Len(log) + Len(ScrollOut)
         /\ cache' = [base |-> Len(log'), rows |-> Shown] /\ pending' \in BOOLEAN
         /\ UNCHANGED <<mode, rows, written, cleared, sockets, tabs>>
         /\ \/ /\ UNCHANGED pass
               /\ \/ Reached = {}
                  \/ Changed(Len(log')) = {} /\ log' = log
            \/ /\ Built(frame')
               /\ todo' = [c \in Reached |-> gen[c]] /\ Reached # {}
<1> DEFINE base    == Len(log) + Len(ScrollOut)
           changed == Changed(base)
           some    == changed # {} \/ ScrollOut # <<>>
<1>1. /\ log' = log \o ScrollOut /\ Len(log') = base /\ base \in Base /\ Len(log) \in Base
      /\ log \in Seq(Row) /\ ScrollOut \in Seq(Row) /\ Shown \in Picture
      /\ Len(ScrollOut) \in Nat /\ Len(log) \in Nat
  BY CommittedIs, ScrollOutIs, ShownIs DEF BuildFrame
<1>2. changed = {} => ScrollOut = <<>>
  <2>1. SUFFICES ASSUME changed = {} PROVE ScrollOut = <<>>
    OBVIOUS
  <2>2. cache # NoCache /\ base = cache.base
    BY <2>1, <1>1, ChangedIs
  <2>3. cache.base <= Len(log)
    BY <2>2 DEF HandlerTypes
  <2>4. Len(ScrollOut) = 0
    BY <2>2, <2>3, <1>1
  <2> QED
    BY <2>4, <1>1
<1>3. PICK carries \in BOOLEAN : carries <=> (pending /\ some)
  OBVIOUS
<1>4. PICK alt \in BOOLEAN : alt <=> mode = "alt"
  OBVIOUS
<1>5. pending' \in BOOLEAN
  BY DEF BuildFrame
<1> DEFINE new == IF carries THEN changed \cup {Height} ELSE changed
           f   == [kind |-> "frame", base |-> base, rows |-> Shown, changed |-> new,
                   alt |-> alt, cleared |-> carries, first |-> Len(log), lines |-> ScrollOut]
<1>6. IF (changed = {} /\ ScrollOut = <<>>) \/ Reached = {}
        THEN UNCHANGED pass
        ELSE /\ frame' = f
             /\ todo' = [c \in Reached |-> gen[c]]
  <2>1. (alt = (mode = "alt")) /\ (carries = (pending /\ some))
    BY <1>3, <1>4
  <2> QED
    BY <2>1, Zenon DEF BuildFrame, Reached, Committed
<1>7. CASE (changed = {} /\ ScrollOut = <<>>) \/ Reached = {}
  <2>1. ScrollOut = <<>> => log' = log
    BY <1>1
  <2> QED
    BY <2>1, <1>1, <1>5, <1>6, <1>7 DEF BuildFrame, Committed
<1>8. CASE ~((changed = {} /\ ScrollOut = <<>>) \/ Reached = {})
  <2>1. frame' = f /\ todo' = [c \in Reached |-> gen[c]] /\ Reached # {}
    BY <1>6, <1>8
  <2>2. new \subseteq 1 .. Height /\ changed \subseteq new /\ new # {}
    BY <1>1, <1>2, <1>8, ChangedIs, Sizes
  <2> HIDE DEF new
  <2>3. f \in Frames
    BY <1>1, <2>2 DEF Frames
  <2>4. f # NoFrame
    BY DEF NoFrame
  <2>5. Built(f)
    BY <2>2, <2>3, <2>4, <1>4 DEF Built
  <2> QED
    BY <2>1, <2>5, <1>1, <1>5 DEF BuildFrame, Committed
<1> QED
  BY <1>7, <1>8

\* What a tab is written of a frame.
Sent(c) == IF todo[c] = gen[c] THEN <<Screen(frame)>> \o Chunks(frame.first, frame.lines)
                               ELSE Chunks(frame.first, frame.lines)

LEMMA LinesAre ==
  ASSUME NEW first \in Nat, NEW lines \in Seq(Row), first + Len(lines) <= MaxChunks
  PROVE  LET cs == Chunks(first, lines) IN
         /\ cs \in Seq(Msg) /\ Len(cs) \in Nat
         /\ \A k \in 1 .. Len(cs) :
              /\ cs[k] \in ScrollMsg /\ cs[k].kind = "scroll"
              /\ cs[k].first >= first
              /\ cs[k].first + Len(cs[k].lines) <= first + Len(lines)
<1> DEFINE cs == Chunks(first, lines)
<1>1. /\ cs \in Seq(ScrollMsg)
      /\ \A k \in 1 .. Len(cs) :
           /\ cs[k].kind = "scroll" /\ cs[k].first >= first
           /\ cs[k].first + Len(cs[k].lines) <= first + Len(lines)
  <2>1. CutInto(cs, first, lines)
    BY ChunksAre
  <2> HIDE DEF cs
  <2> QED
    BY <2>1 DEF CutInto
<1> HIDE DEF cs
<1>2. Len(cs) \in Nat /\ \A k \in 1 .. Len(cs) : cs[k] \in ScrollMsg
  BY <1>1
<1>3. cs \in Seq(Msg)
  BY <1>1, <1>2 DEF Msg
<1> QED
  BY <1>1, <1>2, <1>3 DEF cs

LEMMA FrameIs ==
  ASSUME NEW f \in Frames
  PROVE  LET m == Screen(f) IN
         /\ m \in ScreenMsg /\ m \in Msg /\ m.kind = "screen" /\ m.base = f.base
         /\ m.rows = f.rows /\ m.changed = f.changed /\ m.alt = f.alt
         /\ f.first \in Nat /\ f.lines \in Seq(Row) /\ f.base \in Base /\ f.base \in Nat
         /\ f.first + Len(f.lines) = f.base /\ f.base <= MaxChunks
<1>1. Screen(f) \in ScreenMsg
  BY DEF Screen, Frames, ScreenMsg
<1>2. /\ Screen(f).kind = "screen" /\ Screen(f).base = f.base /\ Screen(f).rows = f.rows
      /\ Screen(f).changed = f.changed /\ Screen(f).alt = f.alt
  BY DEF Screen
<1>3. /\ f.first \in Nat /\ f.lines \in Seq(Row) /\ f.base \in Base /\ f.base \in Nat
      /\ f.first + Len(f.lines) = f.base /\ f.base <= MaxChunks
  BY Sizes DEF Frames, Base
<1> QED
  BY <1>1, <1>2, <1>3 DEF Msg

LEMMA SentIs ==
  ASSUME frame \in Frames, NEW c
  PROVE  /\ Payloads(frame, todo[c] = gen[c]) = Sent(c)
         /\ Sent(c) \in Seq(Msg)
         /\ \A i \in 1 .. Len(Sent(c)) : Sent(c)[i].kind # "resumeAck"
<1> DEFINE cs == Chunks(frame.first, frame.lines)
<1>1. /\ cs \in Seq(Msg) /\ Len(cs) \in Nat
      /\ \A k \in 1 .. Len(cs) : cs[k].kind = "scroll"
  BY FrameIs, LinesAre
<1>2. Screen(frame) \in Msg /\ Screen(frame).kind = "screen" /\ frame.changed # {}
  BY FrameIs DEF Frames
<1> HIDE DEF cs
<1>3. CASE todo[c] = gen[c]
  <2>1. Payloads(frame, todo[c] = gen[c]) = <<Screen(frame)>> \o cs
    BY <1>2, <1>3 DEF Payloads, cs
  <2>2. Sent(c) = <<Screen(frame)>> \o cs
    BY <1>3 DEF Sent, cs
  <2> DEFINE s == <<Screen(frame)>> \o cs
  <2>3. s \in Seq(Msg) /\ \A i \in 1 .. Len(s) : s[i].kind # "resumeAck"
    BY <1>1, <1>2
  <2> QED
    BY <2>1, <2>2, <2>3
<1>4. CASE todo[c] # gen[c]
  <2>1. Payloads(frame, todo[c] = gen[c]) = <<>> \o cs
    BY <1>2, <1>4 DEF Payloads, cs
  <2>2. Sent(c) = cs
    BY <1>4 DEF Sent, cs
  <2>3. <<>> \o cs = cs
    BY <1>1
  <2> QED
    BY <2>1, <2>2, <2>3, <1>1
<1> QED
  BY <1>3, <1>4

\* A tab that is done with leaves the rest of the dispatch as it was.
LEMMA ServedIs ==
  ASSUME PassTypes, NEW c \in DOMAIN todo, Served(c)
  PROVE  /\ frame \in Frames /\ DOMAIN todo' = DOMAIN todo \ {c}
         /\ \A d \in DOMAIN todo \ {c} : todo'[d] = todo[d] /\ frame' = frame
         /\ frame' = frame \/ frame' = NoFrame
         /\ frame' = NoFrame <=> DOMAIN todo' = {}
<1> DEFINE left == [d \in DOMAIN todo \ {c} |-> todo[d]]
<1>1. DOMAIN left = DOMAIN todo \ {c} /\ \A d \in DOMAIN todo \ {c} : left[d] = todo[d]
  OBVIOUS
<1>2. frame # NoFrame /\ frame \in Frames
  BY DEF PassTypes
<1>3. IF DOMAIN left = {} THEN frame' = NoFrame /\ todo' = <<>>
                          ELSE frame' = frame /\ todo' = left
  BY DEF Served
<1> HIDE DEF left
<1>4. DOMAIN <<>> = {}
  OBVIOUS
<1>5. CASE DOMAIN left = {}
  BY <1>1, <1>2, <1>3, <1>4, <1>5
<1>6. CASE DOMAIN left # {}
  BY <1>1, <1>2, <1>3, <1>6
<1> QED
  BY <1>5, <1>6

\* A dispatch under way is not disturbed by history that grows.
LEMMA PassKept ==
  ASSUME PassTypes, UNCHANGED pass, Len(log) \in Int, Len(log') \in Int,
         Len(log) <= Len(log'),
         \A c \in DOMAIN todo : c \in attached' /\ link'[c] # "down" /\ gen'[c] \in Nat
                                /\ gen[c] \in Nat /\ gen[c] <= gen'[c]
  PROVE  PassTypes'
<1>1. frame' = frame /\ todo' = todo
  BY DEF pass
<1>2. frame' = NoFrame \/ (frame' \in Frames /\ frame'.base <= Len(log'))
  <2>1. CASE frame = NoFrame
    BY <1>1, <2>1
  <2>2. CASE frame \in Frames /\ frame.base <= Len(log)
    <3>1. frame.base \in Int
      BY <2>2, FrameIs
    <3> QED
      BY <1>1, <2>2, <3>1
  <2> QED
    BY <2>1, <2>2 DEF PassTypes
<1>3. \A c \in DOMAIN todo' : /\ c \in attached' /\ link'[c] # "down"
                              /\ todo'[c] \in Nat /\ todo'[c] <= gen'[c]
  BY <1>1 DEF PassTypes
<1> QED
  BY <1>1, <1>2, <1>3 DEF PassTypes

\* What a resume replays, and how the batch starts.
Lines    == log \o ScrollOut
Oldest   == Larger(cleared, Len(Lines) - Depth)
First(c) == Larger(ReplayStart(asked[c], Len(Lines)), Oldest)
Ack      == [kind |-> "resumeAck", epoch |-> boot]
Replay(c) == IF First(c) >= Len(Lines) THEN <<>>
             ELSE Chunks(First(c), SubSeq(Lines, First(c) + 1, Len(Lines)))

\* The window of a batch: all of the screen.
FullScreen(w) == /\ w \in ScreenMsg /\ w.base = Len(Lines) /\ w.rows = Shown /\ Whole(w)
                 /\ w.alt <=> mode = "alt"
                 /\ ~w.cleared

LEMMA ReplayIs ==
  ASSUME HandlerTypes, NEW c, asked[c] \in Int
  PROVE  /\ First(c) \in Nat /\ Oldest \in Nat /\ First(c) >= Oldest
         /\ First(c) >= asked[c] + 1 /\ First(c) >= Len(Lines) - ReplayMax
         /\ First(c) \in {asked[c] + 1, Len(Lines) - ReplayMax, Oldest}
         /\ Replay(c) \in Seq(Msg) /\ Len(Replay(c)) \in Nat
         /\ \A k \in 1 .. Len(Replay(c)) :
              LET m == Replay(c)[k] IN
              /\ m \in ScrollMsg /\ m.kind = "scroll" /\ m.first >= First(c)
              /\ m.first + Len(m.lines) <= Len(Lines)
<1> DEFINE n == Len(Lines)
           f == First(c)
           sub == SubSeq(Lines, f + 1, n)
<1>1. Lines \in Seq(Row) /\ n \in Nat /\ n <= MaxChunks /\ n \in Base
  <2>1. Lines \in Seq(Row) /\ n \in Nat /\ n \in Base
    BY CommittedIs DEF Lines
  <2> QED
    BY <2>1, Sizes DEF Base
<1>2. cleared \in Int /\ cleared >= 0 /\ Depth \in Int /\ ReplayMax \in Int
  BY Sizes DEF HandlerTypes
<1> HIDE DEF n
<1>3. Oldest \in Int /\ Oldest >= cleared /\ Oldest >= n - Depth
  <2>1. n - Depth \in Int
    BY <1>1, <1>2
  <2> QED
    BY <1>1, <1>2, <2>1, LargerIs DEF Oldest, n
<1>4. /\ f \in Int /\ f >= Oldest /\ f >= asked[c] + 1 /\ f >= n - ReplayMax
      /\ f \in {asked[c] + 1, n - ReplayMax, Oldest}
  <2> DEFINE rs == ReplayStart(asked[c], n)
  <2>1. asked[c] + 1 \in Int /\ n - ReplayMax \in Int
    BY <1>1, <1>2
  <2>2. rs \in {asked[c] + 1, n - ReplayMax} /\ rs \in Int /\ rs >= asked[c] + 1
        /\ rs >= n - ReplayMax
    BY <2>1, LargerIs DEF ReplayStart
  <2> HIDE DEF rs
  <2>3. f = Larger(rs, Oldest)
    BY DEF First, rs, n
  <2>4. f \in {rs, Oldest} /\ f \in Int /\ f >= rs /\ f >= Oldest
    BY <1>3, <2>2, <2>3, LargerIs
  <2> HIDE DEF f
  <2> QED
    BY <2>1, <2>2, <2>4, <1>3
<1> HIDE DEF f
<1>5. f \in Nat /\ Oldest \in Nat
  BY <1>2, <1>3, <1>4
<1>6. CASE f >= n
  <2>1. Replay(c) = <<>> /\ Len(<<>>) = 0 /\ <<>> \in Seq(Msg)
    BY <1>6 DEF Replay, f, n
  <2> QED
    BY <2>1, <1>3, <1>4, <1>5 DEF f, n
<1>7. CASE ~(f >= n)
  <2>1. sub \in Seq(Row) /\ Len(sub) = n - f
    <3>1. \A i \in f + 1 .. n : Lines[i] \in Row
      BY <1>1, <1>5 DEF n
    <3> QED
      BY <3>1, <1>1, <1>5, <1>7
  <2>2. Replay(c) = Chunks(f, sub)
    BY <1>7 DEF Replay, f, n
  <2> HIDE DEF sub
  <2>3. f + Len(sub) = n
    BY <2>1, <1>1, <1>5
  <2> DEFINE cs == Chunks(f, sub)
  <2>4. f + Len(sub) <= MaxChunks
    BY <2>3, <1>1
  <2>5. /\ cs \in Seq(Msg) /\ Len(cs) \in Nat
        /\ \A k \in 1 .. Len(cs) :
              /\ cs[k] \in ScrollMsg /\ cs[k].kind = "scroll"
              /\ cs[k].first >= f
              /\ cs[k].first + Len(cs[k].lines) <= f + Len(sub)
    BY <2>1, <2>4, <1>5, LinesAre
  <2>6. Replay(c) = cs
    BY <2>2
  <2> HIDE DEF cs
  <2> QED
    BY <2>3, <2>5, <2>6, <1>3, <1>4, <1>5 DEF f, n
<1> QED
  BY <1>6, <1>7

LEMMA ResumeIs ==
  ASSUME Types, NEW c \in Client, Resume(c)
  PROVE  /\ asked[c] # NoResume /\ c \in attached /\ link[c] = "open"
         /\ log' = Lines /\ drain' = <<>> /\ cache' = NoCache /\ dirty' = TRUE
         /\ gen' = [gen EXCEPT ![c] = @ + 1] /\ asked' = [asked EXCEPT ![c] = NoResume]
         /\ UNCHANGED <<mode, rows, written, cleared, seen, pending, pass, boot, opened,
                        attached, tabs>>
         /\ Ack \in Msg
         /\ \E w \in ScreenMsg : \E rest \in Seq(Msg) :
              /\ FullScreen(w)
              /\ mode = "main" => rest = <<w>> \o Replay(c)
              /\ mode = "alt" => rest = Replay(c) \o <<w>>
              /\ down' = [down EXCEPT ![c] = @ \o (<<Ack>> \o rest)]
<1>1. mode \in {"main", "alt"} /\ asked[c] \in Int /\ boot \in 1 .. MaxBoots
  BY DEF Types, HandlerTypes, SocketTypes
<1>2. PICK alt \in BOOLEAN : alt <=> mode = "alt"
  OBVIOUS
<1> DEFINE w == [kind |-> "screen", base |-> Len(Lines), rows |-> Shown,
                 changed |-> 1 .. Height, alt |-> alt, cleared |-> FALSE]
           rest == IF mode = "main" THEN <<w>> \o Replay(c) ELSE Replay(c) \o <<w>>
<1>3. Len(Lines) \in Base /\ Shown \in Picture
  BY CommittedIs, ShownIs DEF Types, Lines
<1>4. w \in ScreenMsg
  BY <1>3 DEF ScreenMsg
<1>5. FullScreen(w)
  BY <1>2, <1>4 DEF FullScreen, Whole
<1>6. down' = [down EXCEPT ![c] = @ \o (<<Ack>> \o rest)]
  <2>1. alt = (mode = "alt")
    BY <1>2
  <2>2. down' = [down EXCEPT ![c] = @ \o ResumeBatch(Ack, w, Replay(c))]
    BY <2>1, Zenon DEF Resume, Ack, Replay, First, Oldest, Lines
  <2> QED
    BY <2>2, Zenon DEF ResumeBatch
<1>7. Ack \in Msg
  BY <1>1 DEF Ack, Msg, AckMsg
<1> HIDE DEF w
<1>8. rest \in Seq(Msg)
  <2>1. Replay(c) \in Seq(Msg) /\ w \in Msg
    BY <1>1, <1>4, ReplayIs DEF Types, Msg
  <2> QED
    BY <2>1
<1>9. /\ asked[c] # NoResume /\ c \in attached
      /\ log' = Lines /\ drain' = <<>> /\ cache' = NoCache /\ dirty' = TRUE
      /\ gen' = [gen EXCEPT ![c] = @ + 1] /\ asked' = [asked EXCEPT ![c] = NoResume]
      /\ UNCHANGED <<mode, rows, written, cleared, seen, pending, pass, boot, opened,
                     attached, tabs>>
  BY DEF Resume, Lines
<1>10. link[c] = "open"
  BY <1>9 DEF Types, SocketTypes
<1> QED
  BY <1>1, <1>4, <1>5, <1>6, <1>7, <1>8, <1>9, <1>10

-----------------------------------------------------------------------------
(* Every step keeps the types.                                             *)

LEMMA SocketsKept ==
  ASSUME SocketTypes, UNCHANGED <<sockets, link, epoch>>
  PROVE  SocketTypes'
BY DEF SocketTypes, sockets

LEMMA LogIs ==
  ASSUME Types
  PROVE  /\ Len(log) \in Int /\ Len(Lines) \in Int /\ Len(log) <= Len(Lines)
         /\ \A c \in DOMAIN todo : c \in Client /\ c \in attached /\ link[c] # "down"
                                   /\ gen[c] \in Nat
<1>1. Len(log) \in Int /\ Len(Lines) \in Int /\ Len(log) <= Len(Lines)
  BY CommittedIs DEF Types, Lines
<1>2. \A c \in DOMAIN todo : c \in attached /\ link[c] # "down"
  BY DEF Types, PassTypes
<1>3. attached \subseteq Client /\ gen \in [Client -> Nat]
  BY DEF Types, SocketTypes
<1> QED
  BY <1>1, <1>2, <1>3

LEMMA TypesChild ==
  ASSUME Types,
         \/ PrintLine \/ EraseScreen \/ EraseSaved \/ EnterAlt \/ ExitAlt
         \/ \E y \in 1 .. Height : Rewrite(y)
  PROVE  Types'
<1>1. HandlerTypes' /\ log' = log /\ UNCHANGED <<pass, sockets, tabs>>
  BY HandlerChild DEF Types
<1>2. PassTypes'
  BY <1>1, LogIs, PassKept DEF Types, sockets, tabs
<1>3. SocketTypes' /\ TabTypes'
  BY <1>1, SocketsKept DEF Types, TabTypes, tabs
<1> QED
  BY <1>1, <1>2, <1>3 DEF Types

LEMMA TypesSuspended ==
  ASSUME Types, Suspended
  PROVE  Types'
<1>1. /\ log' = Lines /\ drain' = <<>> /\ dirty' = FALSE
      /\ UNCHANGED <<mode, rows, written, cleared, cache, seen, pending, pass, sockets, tabs>>
  BY DEF Suspended, Lines
<1>2. HandlerTypes'
  <2>1. /\ Lines \in Seq(Row) /\ Len(Lines) <= written /\ Len(log) <= Len(Lines)
        /\ Len(Lines) \in Nat /\ Len(log) \in Nat
    BY CommittedIs DEF Types, Lines
  <2>2. drain' \in Seq([row : Row, from : {"main", "alt"}]) /\ Len(drain') = 0
    BY <1>1
  <2>3. Len(log') + Len(drain') <= written'
    <3>1. written \in Int
      BY DEF Types, HandlerTypes, Row
    <3> QED
      BY <1>1, <2>1, <2>2, <3>1
  <2>4. cleared' \in 0 .. Len(log')
    BY <1>1, <2>1 DEF Types, HandlerTypes
  <2>5. cache' = NoCache \/ (cache' \in [base : Base, rows : Picture] /\ cache'.base <= Len(log'))
    <3>1. cache = NoCache \/ (cache \in [base : Base, rows : Picture] /\ cache.base <= Len(log)
                              /\ cache.base \in Int)
      BY DEF Types, HandlerTypes, Base
    <3> QED
      BY <3>1, <1>1, <2>1
  <2> QED
    BY <1>1, <2>1, <2>2, <2>3, <2>4, <2>5 DEF Types, HandlerTypes
<1>3. PassTypes'
  BY <1>1, LogIs, PassKept DEF Types, sockets, tabs
<1>4. SocketTypes' /\ TabTypes'
  BY <1>1, SocketsKept DEF Types, TabTypes, tabs
<1> QED
  BY <1>2, <1>3, <1>4 DEF Types

LEMMA TypesBuild ==
  ASSUME Types, BuildFrame
  PROVE  Types'
<1>1. /\ dirty' = FALSE /\ seen' = mode /\ drain' = <<>> /\ frame = NoFrame
      /\ log' = Lines /\ Len(log') = Len(log) + Len(ScrollOut)
      /\ cache' = [base |-> Len(log'), rows |-> Shown] /\ pending' \in BOOLEAN
      /\ UNCHANGED <<mode, rows, written, cleared, sockets, tabs>>
      /\ \/ UNCHANGED pass
         \/ Built(frame') /\ todo' = [c \in Reached |-> gen[c]] /\ Reached # {}
  BY BuildIs DEF Types, Lines
<1>2. /\ Lines \in Seq(Row) /\ Len(Lines) <= written /\ Len(log) <= Len(Lines)
      /\ Len(Lines) \in Nat /\ Len(log) \in Nat /\ Len(Lines) \in Base
  BY CommittedIs DEF Types, Lines
<1>3. HandlerTypes'
  <2>1. drain' \in Seq([row : Row, from : {"main", "alt"}]) /\ Len(drain') = 0
    BY <1>1
  <2>2. Len(log') + Len(drain') <= written'
    <3>1. written \in Int
      BY DEF Types, HandlerTypes, Row
    <3> QED
      BY <1>1, <1>2, <2>1, <3>1
  <2>3. cleared' \in 0 .. Len(log')
    BY <1>1, <1>2 DEF Types, HandlerTypes
  <2>4. cache' \in [base : Base, rows : Picture] /\ cache'.base <= Len(log')
    <3>1. Shown \in Picture
      BY ShownIs DEF Types
    <3> QED
      BY <1>1, <1>2, <3>1
  <2> QED
    BY <1>1, <1>2, <2>1, <2>2, <2>3, <2>4 DEF Types, HandlerTypes
<1>4. PassTypes'
  <2>1. CASE UNCHANGED pass
    BY <1>1, <1>2, <2>1, LogIs, PassKept DEF Types, sockets, tabs
  <2>2. CASE Built(frame') /\ todo' = [c \in Reached |-> gen[c]] /\ Reached # {}
    <3>1. frame' \in Frames /\ frame' # NoFrame /\ frame'.base = Len(log')
      BY <1>1, <2>2 DEF Built
    <3>2. DOMAIN todo' = Reached /\ \A c \in Reached : todo'[c] = gen[c]
      BY <2>2
    <3>3. \A c \in Reached : /\ c \in attached' /\ link'[c] # "down"
                             /\ gen'[c] = gen[c] /\ gen[c] \in Nat
      BY <1>1 DEF Reached, sockets, tabs, Types, SocketTypes
    <3>4. Len(log') <= Len(log')
      BY <1>1, <1>2
    <3>5. \A c \in DOMAIN todo' : /\ c \in attached' /\ link'[c] # "down"
                                  /\ todo'[c] \in Nat /\ todo'[c] <= gen'[c]
      BY <3>2, <3>3
    <3>6. frame' = NoFrame <=> DOMAIN todo' = {}
      BY <3>1, <3>2, <2>2
    <3>7. frame' \in Frames /\ frame'.base <= Len(log')
      BY <3>1, <3>4
    <3> QED
      BY <3>5, <3>6, <3>7 DEF PassTypes
  <2> QED
    BY <1>1, <2>1, <2>2
<1>5. SocketTypes' /\ TabTypes'
  BY <1>1, SocketsKept DEF Types, TabTypes, tabs
<1> QED
  BY <1>3, <1>4, <1>5 DEF Types

LEMMA TypesWrite ==
  ASSUME Types, NEW c \in Client, WritePayloads(c)
  PROVE  Types'
<1>1. /\ c \in DOMAIN todo /\ Served(c)
      /\ UNCHANGED <<screen, handler, dirty, boot, opened, gen, attached, asked, tabs>>
  BY DEF WritePayloads
<1>2. /\ frame \in Frames /\ DOMAIN todo' = DOMAIN todo \ {c}
      /\ \A d \in DOMAIN todo \ {c} : todo'[d] = todo[d] /\ frame' = frame
      /\ frame' = frame \/ frame' = NoFrame
      /\ frame' = NoFrame <=> DOMAIN todo' = {}
  BY <1>1, ServedIs DEF Types
<1>3. /\ down' = [down EXCEPT ![c] = @ \o Sent(c)] /\ Sent(c) \in Seq(Msg)
      /\ \A i \in 1 .. Len(Sent(c)) : Sent(c)[i].kind # "resumeAck"
  BY <1>2, SentIs DEF WritePayloads
<1>4. HandlerTypes' /\ TabTypes'
  BY <1>1 DEF Types, HandlerTypes, TabTypes, screen, handler, tabs
<1>5. PassTypes'
  <2>1. frame # NoFrame => frame.base <= Len(log)
    BY DEF Types, PassTypes
  <2>2. frame' = NoFrame \/ (frame' \in Frames /\ frame'.base <= Len(log'))
    BY <1>1, <1>2, <2>1 DEF handler
  <2>3. \A d \in DOMAIN todo : /\ d \in attached /\ link[d] # "down"
                               /\ todo[d] \in Nat /\ todo[d] <= gen[d]
    BY DEF Types, PassTypes
  <2>4. \A d \in DOMAIN todo' : /\ d \in attached' /\ link'[d] # "down"
                                /\ todo'[d] \in Nat /\ todo'[d] <= gen'[d]
    BY <1>1, <1>2, <2>3 DEF tabs
  <2> QED
    BY <1>2, <2>2, <2>4 DEF PassTypes
<1>6. SocketTypes'
  <2>1. /\ down \in [Client -> Seq(Msg)] /\ link[c] # "down"
        /\ \A d \in Client :
             /\ link[d] = "down" => down[d] = <<>> /\ asked[d] = NoResume
             /\ asked[d] # NoResume =>
                  /\ d \in attached /\ link[d] = "open"
                  /\ \A i \in 1 .. Len(down[d]) : down[d][i].kind # "resumeAck"
    BY <1>1 DEF Types, SocketTypes, PassTypes
  <2> DEFINE q == down[c] \o Sent(c)
  <2>2. q \in Seq(Msg) /\ (asked[c] # NoResume => \A i \in 1 .. Len(q) : q[i].kind # "resumeAck")
    <3>1. down[c] \in Seq(Msg)
      BY <2>1
    <3> QED
      BY <3>1, <2>1, <1>3
  <2>3. down' = [down EXCEPT ![c] = q]
    BY <1>3
  <2> HIDE DEF q
  <2>4. down' \in [Client -> Seq(Msg)]
    BY <2>1, <2>2, <2>3
  <2>5. ASSUME NEW d \in Client
        PROVE  /\ link[d] = "down" => down'[d] = <<>> /\ asked[d] = NoResume
               /\ asked[d] # NoResume =>
                    /\ d \in attached /\ link[d] = "open"
                    /\ \A i \in 1 .. Len(down'[d]) : down'[d][i].kind # "resumeAck"
    <3>1. CASE d = c
      BY <3>1, <2>1, <2>2, <2>3
    <3>2. CASE d # c
      <4>1. down'[d] = down[d]
        BY <3>2, <2>1, <2>3
      <4> QED
        BY <4>1, <2>1
    <3> QED
      BY <3>1, <3>2
  <2> QED
    BY <1>1, <2>4, <2>5 DEF Types, SocketTypes, tabs
<1> QED
  BY <1>4, <1>5, <1>6 DEF Types

\* A claim is an index or -1: never the mark for "no resume".
LEMMA BoundaryIs ==
  ASSUME NEW st \in Stores
  PROVE  /\ ReplayBoundary(st) \in Int /\ ReplayBoundary(st) >= -1
         /\ ReplayBoundary(st) \in {Highest(Held(st)), st.floor - 1}
         /\ ReplayBoundary(st) <= Highest(Held(st)) /\ ReplayBoundary(st) < st.floor
<1>1. st.floor \in Int /\ st.floor >= 0 /\ Held(st) \in SUBSET Nat /\ IsFiniteSet(Held(st))
  BY StoreIs
<1>2. Highest(Held(st)) \in Int /\ Highest(Held(st)) >= -1
  <2>1. /\ Highest(Held(st)) \in Int
        /\ Held(st) = {} => Highest(Held(st)) = -1
        /\ Held(st) # {} => Highest(Held(st)) \in Held(st)
    BY <1>1, HighestIs
  <2> QED
    BY <1>1, <2>1
<1> DEFINE h == Highest(Held(st))
           f == st.floor - 1
<1>3. h \in Int /\ f \in Int /\ h >= -1 /\ f >= -1 /\ f < st.floor
  BY <1>1, <1>2
<1>4. ReplayBoundary(st) = Smaller(h, f)
  BY DEF ReplayBoundary
<1> HIDE DEF h, f
<1>5. ReplayBoundary(st) \in {h, f} /\ ReplayBoundary(st) <= h /\ ReplayBoundary(st) <= f
  BY <1>3, <1>4, SmallerIs
<1>6. ReplayBoundary(st) \in Int /\ ReplayBoundary(st) >= -1 /\ ReplayBoundary(st) < st.floor
  BY <1>1, <1>3, <1>5
<1> QED
  BY <1>5, <1>6 DEF h, f

LEMMA TypesAttach ==
  ASSUME Types, NEW c \in Client, Attach(c)
  PROVE  Types'
<1>1. /\ link[c] = "down" /\ opened < MaxAttaches /\ opened' = opened + 1
      /\ link' = [link EXCEPT ![c] = "open"]
      /\ asked' = [asked EXCEPT ![c] = ReplayBoundary(store[c])]
      /\ attached' = attached \cup {c} /\ gen' = [gen EXCEPT ![c] = 0]
      /\ cache' = NoCache /\ dirty' = TRUE
      /\ UNCHANGED <<screen, log, cleared, seen, pending, pass, boot, down, epoch, store>>
  BY DEF Attach
<1>2. ReplayBoundary(store[c]) \in Int
  <2>1. store[c] \in Stores
    BY DEF Types, TabTypes
  <2> QED
    BY <2>1, BoundaryIs
<1>3. HandlerTypes' /\ TabTypes'
  BY <1>1 DEF Types, HandlerTypes, TabTypes, screen
<1>4. SocketTypes'
  <2>1. /\ gen \in [Client -> Nat] /\ asked \in [Client -> Int]
        /\ link \in [Client -> {"down", "open", "acked"}] /\ attached \subseteq Client
        /\ down \in [Client -> Seq(Msg)]
        /\ \A d \in Client :
             /\ link[d] = "down" => down[d] = <<>> /\ asked[d] = NoResume
             /\ asked[d] # NoResume =>
                  /\ d \in attached /\ link[d] = "open"
                  /\ \A i \in 1 .. Len(down[d]) : down[d][i].kind # "resumeAck"
    BY DEF Types, SocketTypes
  <2>2. /\ gen' \in [Client -> Nat] /\ asked' \in [Client -> Int]
        /\ link' \in [Client -> {"down", "open", "acked"}]
        /\ attached' \subseteq Client /\ opened' \in 0 .. MaxAttaches
    <3>1. opened' \in 0 .. MaxAttaches
      BY <1>1, StreamAssumption DEF Types, SocketTypes
    <3> QED
      BY <1>1, <1>2, <2>1, <3>1
  <2>3. ASSUME NEW d \in Client
        PROVE  /\ link'[d] = "down" => down[d] = <<>> /\ asked'[d] = NoResume
               /\ asked'[d] # NoResume =>
                    /\ d \in attached' /\ link'[d] = "open"
                    /\ \A i \in 1 .. Len(down[d]) : down[d][i].kind # "resumeAck"
    <3>1. CASE d = c
      <4>1. down[c] = <<>> /\ link'[c] = "open" /\ c \in attached' /\ Len(<<>>) = 0
        BY <1>1, <2>1
      <4> QED
        BY <3>1, <4>1
    <3>2. CASE d # c
      <4>1. link'[d] = link[d] /\ asked'[d] = asked[d] /\ (d \in attached => d \in attached')
        BY <3>2, <1>1, <2>1
      <4> QED
        BY <4>1, <2>1
    <3> QED
      BY <3>1, <3>2
  <2>4. down' = down /\ boot' = boot /\ epoch' = epoch
    BY <1>1
  <2> QED
    BY <2>2, <2>3, <2>4 DEF Types, SocketTypes
<1>5. PassTypes'
  <2>1. ASSUME NEW d \in DOMAIN todo
        PROVE  d \in attached' /\ link'[d] # "down" /\ gen'[d] \in Nat
               /\ gen[d] \in Nat /\ gen[d] <= gen'[d]
    <3>1. d \in Client /\ d \in attached /\ link[d] # "down" /\ gen[d] \in Nat
      BY LogIs
    <3>2. d # c /\ link'[d] = link[d] /\ gen'[d] = gen[d]
      BY <3>1, <1>1 DEF Types, SocketTypes
    <3> QED
      BY <3>1, <3>2, <1>1
  <2>2. Len(log) \in Int /\ log' = log
    BY <1>1, LogIs
  <2> QED
    BY <1>1, <2>1, <2>2, PassKept DEF Types
<1> QED
  BY <1>3, <1>4, <1>5 DEF Types

LEMMA TypesResume ==
  ASSUME Types, NEW c \in Client, Resume(c)
  PROVE  Types'
<1>1. /\ asked[c] # NoResume /\ c \in attached /\ link[c] = "open"
      /\ log' = Lines /\ drain' = <<>> /\ cache' = NoCache /\ dirty' = TRUE
      /\ gen' = [gen EXCEPT ![c] = @ + 1] /\ asked' = [asked EXCEPT ![c] = NoResume]
      /\ UNCHANGED <<mode, rows, written, cleared, seen, pending, pass, boot, opened,
                     attached, tabs>>
  BY ResumeIs
<1>2. PICK w \in ScreenMsg, rest \in Seq(Msg) :
        Ack \in Msg /\ down' = [down EXCEPT ![c] = @ \o (<<Ack>> \o rest)]
  BY ResumeIs
<1>3. HandlerTypes'
  <2>1. /\ Lines \in Seq(Row) /\ Len(Lines) <= written /\ Len(log) <= Len(Lines)
        /\ Len(Lines) \in Nat /\ Len(log) \in Nat
    BY CommittedIs DEF Types, Lines
  <2>2. drain' \in Seq([row : Row, from : {"main", "alt"}]) /\ Len(drain') = 0
    BY <1>1
  <2>3. Len(log') + Len(drain') <= written'
    <3>1. written \in Int
      BY DEF Types, HandlerTypes, Row
    <3> QED
      BY <1>1, <2>1, <2>2, <3>1
  <2>4. cleared' \in 0 .. Len(log')
    BY <1>1, <2>1 DEF Types, HandlerTypes
  <2> QED
    BY <1>1, <2>1, <2>2, <2>3, <2>4 DEF Types, HandlerTypes
<1>4. gen \in [Client -> Nat] /\ asked \in [Client -> Int] /\ down \in [Client -> Seq(Msg)]
      /\ \A d \in Client :
             /\ link[d] = "down" => down[d] = <<>> /\ asked[d] = NoResume
             /\ asked[d] # NoResume =>
                  /\ d \in attached /\ link[d] = "open"
                  /\ \A i \in 1 .. Len(down[d]) : down[d][i].kind # "resumeAck"
  BY DEF Types, SocketTypes
<1>5. PassTypes'
  <2>1. ASSUME NEW d \in DOMAIN todo
        PROVE  d \in attached' /\ link'[d] # "down" /\ gen'[d] \in Nat
               /\ gen[d] \in Nat /\ gen[d] <= gen'[d]
    <3>1. d \in Client /\ d \in attached /\ link[d] # "down" /\ gen[d] \in Nat
      BY LogIs
    <3>2. gen'[d] = gen[d] \/ gen'[d] = gen[d] + 1
      BY <3>1, <1>1, <1>4
    <3> QED
      BY <3>1, <3>2, <1>1 DEF tabs
  <2>2. Len(log) \in Int /\ Len(log') \in Int /\ Len(log) <= Len(log')
    BY <1>1, LogIs
  <2> QED
    BY <1>1, <2>1, <2>2, PassKept DEF Types
<1>6. SocketTypes'
  <2> DEFINE q == down[c] \o (<<Ack>> \o rest)
  <2>1. q \in Seq(Msg)
    BY <1>2, <1>4
  <2>2. down' = [down EXCEPT ![c] = q]
    BY <1>2
  <2> HIDE DEF q
  <2>3. /\ down' \in [Client -> Seq(Msg)] /\ gen' \in [Client -> Nat]
        /\ asked' \in [Client -> Int]
    BY <1>1, <1>4, <2>1, <2>2 DEF NoResume
  <2>4. ASSUME NEW d \in Client
        PROVE  /\ link[d] = "down" => down'[d] = <<>> /\ asked'[d] = NoResume
               /\ asked'[d] # NoResume =>
                    /\ d \in attached /\ link[d] = "open"
                    /\ \A i \in 1 .. Len(down'[d]) : down'[d][i].kind # "resumeAck"
    <3>1. CASE d = c
      BY <3>1, <1>1, <1>4
    <3>2. CASE d # c
      <4>1. down'[d] = down[d] /\ asked'[d] = asked[d]
        BY <3>2, <1>1, <1>4, <2>2
      <4> QED
        BY <4>1, <1>4
    <3> QED
      BY <3>1, <3>2
  <2> QED
    BY <1>1, <2>3, <2>4 DEF Types, SocketTypes, tabs
<1>7. TabTypes'
  BY <1>1 DEF Types, TabTypes, tabs
<1> QED
  BY <1>3, <1>5, <1>6, <1>7 DEF Types

LEMMA TypesDetach ==
  ASSUME Types, NEW c \in Client, Detach(c)
  PROVE  Types'
<1>1. /\ link[c] # "down" /\ link' = [link EXCEPT ![c] = "down"]
      /\ down' = [down EXCEPT ![c] = <<>>]
      /\ asked' = [asked EXCEPT ![c] = NoResume] /\ gen' = [gen EXCEPT ![c] = 0]
      /\ IF c \in DOMAIN todo THEN Served(c) ELSE UNCHANGED pass
      /\ UNCHANGED <<screen, handler, dirty, boot, opened, attached, epoch, store>>
  BY DEF Detach
<1>2. HandlerTypes' /\ TabTypes'
  BY <1>1 DEF Types, HandlerTypes, TabTypes, screen, handler
<1>3. /\ gen \in [Client -> Nat] /\ asked \in [Client -> Int] /\ down \in [Client -> Seq(Msg)]
      /\ link \in [Client -> {"down", "open", "acked"}]
      /\ \A d \in Client :
             /\ link[d] = "down" => down[d] = <<>> /\ asked[d] = NoResume
             /\ asked[d] # NoResume =>
                  /\ d \in attached /\ link[d] = "open"
                  /\ \A i \in 1 .. Len(down[d]) : down[d][i].kind # "resumeAck"
  BY DEF Types, SocketTypes
<1>4. SocketTypes'
  <2>1. <<>> \in Seq(Msg) /\ NoResume \in Int
    BY DEF NoResume
  <2>2. /\ down' \in [Client -> Seq(Msg)] /\ gen' \in [Client -> Nat]
        /\ asked' \in [Client -> Int] /\ link' \in [Client -> {"down", "open", "acked"}]
    BY <1>1, <1>3, <2>1
  <2>3. ASSUME NEW d \in Client
        PROVE  /\ link'[d] = "down" => down'[d] = <<>> /\ asked'[d] = NoResume
               /\ asked'[d] # NoResume =>
                    /\ d \in attached /\ link'[d] = "open"
                    /\ \A i \in 1 .. Len(down'[d]) : down'[d][i].kind # "resumeAck"
    <3>1. CASE d = c
      BY <3>1, <1>1, <1>3
    <3>2. CASE d # c
      <4>1. down'[d] = down[d] /\ asked'[d] = asked[d] /\ link'[d] = link[d]
        BY <3>2, <1>1, <1>3
      <4> QED
        BY <4>1, <1>3
    <3> QED
      BY <3>1, <3>2
  <2> QED
    BY <1>1, <2>2, <2>3 DEF Types, SocketTypes
<1>5. PassTypes'
  <2>1. \A d \in DOMAIN todo : /\ d \in Client /\ d \in attached /\ link[d] # "down"
                               /\ todo[d] \in Nat /\ todo[d] <= gen[d]
    BY LogIs DEF Types, PassTypes
  <2>2. \A d \in Client \ {c} : link'[d] = link[d] /\ gen'[d] = gen[d]
    BY <1>1, <1>3
  <2>3. log' = log /\ attached' = attached
    BY <1>1 DEF handler
  <2>4. CASE c \in DOMAIN todo
    <3>1. /\ frame \in Frames /\ DOMAIN todo' = DOMAIN todo \ {c}
          /\ \A d \in DOMAIN todo \ {c} : todo'[d] = todo[d] /\ frame' = frame
          /\ frame' = frame \/ frame' = NoFrame
          /\ frame' = NoFrame <=> DOMAIN todo' = {}
      BY <1>1, <2>4, ServedIs DEF Types
    <3>2. frame' = NoFrame \/ (frame' \in Frames /\ frame'.base <= Len(log'))
      BY <2>3, <3>1 DEF Types, PassTypes
    <3>3. \A d \in DOMAIN todo' : /\ d \in attached' /\ link'[d] # "down"
                                  /\ todo'[d] \in Nat /\ todo'[d] <= gen'[d]
      BY <2>1, <2>2, <2>3, <3>1
    <3> QED
      BY <3>1, <3>2, <3>3 DEF PassTypes
  <2>5. CASE c \notin DOMAIN todo
    <3>1. frame' = frame /\ todo' = todo
      BY <1>1, <2>5 DEF pass
    <3>2. \A d \in DOMAIN todo' : /\ d \in attached' /\ link'[d] # "down"
                                  /\ todo'[d] \in Nat /\ todo'[d] <= gen'[d]
      BY <2>1, <2>2, <2>3, <2>5, <3>1
    <3> QED
      BY <2>3, <3>1, <3>2 DEF Types, PassTypes
  <2> QED
    BY <2>4, <2>5
<1> QED
  BY <1>2, <1>4, <1>5 DEF Types

LEMMA TypesReap ==
  ASSUME Types, NEW c \in Client, Reap(c)
  PROVE  Types'
<1>1. /\ link[c] = "down" /\ attached' = attached \ {c}
      /\ UNCHANGED <<screen, handler, dirty, pass, boot, opened, gen, asked, down, tabs>>
  BY DEF Reap
<1>2. HandlerTypes' /\ TabTypes'
  BY <1>1 DEF Types, HandlerTypes, TabTypes, screen, handler, tabs
<1>3. SocketTypes'
  BY <1>1 DEF Types, SocketTypes, tabs
<1>4. PassTypes'
  <2>1. \A d \in DOMAIN todo : d \in attached' /\ link'[d] # "down" /\ gen'[d] \in Nat
                               /\ gen[d] \in Nat /\ gen[d] <= gen'[d]
    BY <1>1, LogIs DEF tabs
  <2>2. log' = log /\ Len(log) \in Int
    BY <1>1, LogIs DEF handler
  <2> QED
    BY <1>1, <2>1, <2>2, PassKept DEF Types
<1> QED
  BY <1>2, <1>3, <1>4 DEF Types

LEMMA TypesRestart ==
  ASSUME Types, Restart
  PROVE  Types'
<1>1. /\ boot < MaxBoots /\ boot' = boot + 1
      /\ mode' = "main" /\ rows' = [m \in {"main", "alt"} |-> Blank] /\ drain' = <<>>
      /\ log' = <<>> /\ cleared' = 0 /\ cache' = NoCache /\ seen' = "none"
      /\ pending' = FALSE /\ dirty' = FALSE /\ frame' = NoFrame /\ todo' = <<>>
      /\ attached' = {}
      /\ gen' = [c \in Client |-> 0] /\ asked' = [c \in Client |-> NoResume]
      /\ UNCHANGED <<written, opened, down, tabs>>
  BY DEF Restart
<1>2. HandlerTypes'
  <2>1. Blank \in Picture
    BY Sizes DEF Blank, Picture, Row
  <2>2. rows' \in [{"main", "alt"} -> Picture]
    BY <1>1, <2>1
  <2>3. /\ log' \in Seq(Row) /\ Len(log') = 0 /\ Len(drain') = 0
        /\ drain' \in Seq([row : Row, from : {"main", "alt"}])
    BY <1>1
  <2>4. written' \in Row /\ written' >= 0
    BY <1>1 DEF Types, HandlerTypes, Row
  <2>5. Len(log') + Len(drain') <= written' /\ cleared' \in 0 .. Len(log')
    BY <1>1, <2>3, <2>4
  <2> QED
    BY <1>1, <2>2, <2>3, <2>4, <2>5 DEF HandlerTypes
<1>3. PassTypes'
  <2>1. DOMAIN <<>> = {}
    OBVIOUS
  <2> QED
    BY <1>1, <2>1 DEF PassTypes
<1>4. SocketTypes'
  <2>1. boot' \in 1 .. MaxBoots
    BY <1>1, StreamAssumption DEF Types, SocketTypes
  <2> QED
    BY <1>1, <2>1 DEF Types, SocketTypes, tabs, NoResume
<1>5. TabTypes'
  BY <1>1 DEF Types, TabTypes, tabs
<1> QED
  BY <1>2, <1>3, <1>4, <1>5 DEF Types

\* A message that has reached its tab.
LEMMA ArrivingIs ==
  ASSUME Types, NEW c \in Client, NEW kind, Arriving(c, kind)
  PROVE  /\ link[c] # "down" /\ down[c] \in Seq(Msg) /\ down[c] # <<>>
         /\ Head(down[c]) \in Msg /\ Tail(down[c]) \in Seq(Msg)
         /\ kind = "resumeAck" => Head(down[c]) \in AckMsg
         /\ kind = "screen" => Head(down[c]) \in ScreenMsg
         /\ kind = "scroll" => Head(down[c]) \in ScrollMsg
         /\ Len(down[c]) \in Nat /\ Len(down[c]) >= 1 /\ Head(down[c]) = down[c][1]
         /\ Len(Tail(down[c])) = Len(down[c]) - 1
         /\ \A i \in 1 .. Len(down[c]) - 1 : Tail(down[c])[i] = down[c][i + 1]
         /\ store[c] \in Stores
<1>1. link[c] # "down" /\ down[c] \in Seq(Msg) /\ down[c] # <<>> /\ Head(down[c]).kind = kind
  BY DEF Arriving, Types, SocketTypes
<1>2. /\ Head(down[c]) \in Msg /\ Tail(down[c]) \in Seq(Msg)
      /\ Len(down[c]) \in Nat /\ Len(down[c]) >= 1 /\ Head(down[c]) = down[c][1]
      /\ Len(Tail(down[c])) = Len(down[c]) - 1
      /\ \A i \in 1 .. Len(down[c]) - 1 : Tail(down[c])[i] = down[c][i + 1]
  BY <1>1
<1>3. \A m \in Msg : /\ m.kind = "resumeAck" => m \in AckMsg
                     /\ m.kind = "screen" => m \in ScreenMsg
                     /\ m.kind = "scroll" => m \in ScrollMsg
  BY DEF Msg, AckMsg, ScreenMsg, ScrollMsg
<1>4. store[c] \in Stores
  BY DEF Types, TabTypes
<1> QED
  BY <1>1, <1>2, <1>3, <1>4

LEMMA TypesReceived ==
  ASSUME Types, NEW c \in Client, NEW kind, Arriving(c, kind), Consume(c), UNCHANGED AtTab,
         NEW st \in Stores, Apply(c, st), epoch' \in [Client -> 0 .. MaxBoots],
         \/ link' = link
         \/ link' = [link EXCEPT ![c] = "acked"] /\ kind = "resumeAck"
  PROVE  Types'
<1>1. UNCHANGED <<screen, handler, dirty, pass, boot, opened, gen, attached, asked>>
  BY DEF AtTab
<1>2. store' = [store EXCEPT ![c] = st] /\ down' = [down EXCEPT ![c] = Tail(@)]
  BY DEF Apply, Consume
<1>3. HandlerTypes'
  BY <1>1 DEF Types, HandlerTypes, screen, handler
<1>4. TabTypes'
  BY <1>2 DEF Types, TabTypes
<1>5. /\ down \in [Client -> Seq(Msg)] /\ link \in [Client -> {"down", "open", "acked"}]
      /\ link[c] # "down"
      /\ \A d \in Client :
             /\ link[d] = "down" => down[d] = <<>> /\ asked[d] = NoResume
             /\ asked[d] # NoResume =>
                  /\ d \in attached /\ link[d] = "open"
                  /\ \A i \in 1 .. Len(down[d]) : down[d][i].kind # "resumeAck"
  BY ArrivingIs DEF Types, SocketTypes
<1>6. /\ down[c] # <<>> /\ Tail(down[c]) \in Seq(Msg) /\ Len(down[c]) \in Nat
      /\ Len(down[c]) >= 1 /\ Head(down[c]) = down[c][1]
      /\ Len(Tail(down[c])) = Len(down[c]) - 1
      /\ \A i \in 1 .. Len(down[c]) - 1 : Tail(down[c])[i] = down[c][i + 1]
      /\ Head(down[c]).kind = kind
  BY ArrivingIs DEF Arriving
<1>7. /\ link' \in [Client -> {"down", "open", "acked"}]
      /\ \A d \in Client : /\ link'[d] = "down" <=> link[d] = "down"
                           /\ asked[d] # NoResume => link'[d] = link[d]
  <2>1. CASE link' = link
    BY <2>1, <1>5
  <2>2. CASE link' = [link EXCEPT ![c] = "acked"] /\ kind = "resumeAck"
    <3>1. asked[c] = NoResume
      <4>1. 1 \in 1 .. Len(down[c]) /\ down[c][1].kind = "resumeAck"
        BY <2>2, <1>6
      <4> QED
        BY <4>1, <1>5
    <3> QED
      BY <3>1, <2>2, <1>5
  <2> QED
    BY <2>1, <2>2
<1>8. SocketTypes'
  <2>1. down' \in [Client -> Seq(Msg)]
    BY <1>2, <1>5, <1>6
  <2>2. ASSUME NEW d \in Client
        PROVE  /\ link'[d] = "down" => down'[d] = <<>> /\ asked[d] = NoResume
               /\ asked[d] # NoResume =>
                    /\ d \in attached /\ link'[d] = "open"
                    /\ \A i \in 1 .. Len(down'[d]) : down'[d][i].kind # "resumeAck"
    <3>1. CASE d = c
      <4>1. down'[d] = Tail(down[c])
        BY <3>1, <1>2, <1>5
      <4>2. \A i \in 1 .. Len(Tail(down[c])) :
              i + 1 \in 1 .. Len(down[c]) /\ Tail(down[c])[i] = down[c][i + 1]
        BY <1>6
      <4>3. asked[c] # NoResume =>
              \A i \in 1 .. Len(Tail(down[c])) : Tail(down[c])[i].kind # "resumeAck"
        BY <4>2, <1>5
      <4> QED
        BY <3>1, <4>1, <4>3, <1>5, <1>7
    <3>2. CASE d # c
      <4>1. down'[d] = down[d]
        BY <3>2, <1>2, <1>5
      <4> QED
        BY <4>1, <1>5, <1>7
    <3> QED
      BY <3>1, <3>2
  <2> QED
    BY <1>1, <1>7, <2>1, <2>2 DEF Types, SocketTypes
<1>9. PassTypes'
  <2>1. \A d \in DOMAIN todo : d \in attached' /\ link'[d] # "down" /\ gen'[d] \in Nat
                               /\ gen[d] \in Nat /\ gen[d] <= gen'[d]
    <3> TAKE d \in DOMAIN todo
    <3>1. d \in Client /\ d \in attached /\ link[d] # "down" /\ gen[d] \in Nat
      BY LogIs
    <3> QED
      BY <3>1, <1>1, <1>7
  <2>2. log' = log /\ Len(log) \in Int
    BY <1>1, LogIs DEF handler
  <2> QED
    BY <1>1, <2>1, <2>2, PassKept DEF Types
<1> QED
  BY <1>3, <1>4, <1>8, <1>9 DEF Types

\* What a tab makes of a screen and of lines.
AtScreen(c, m) == IF link[c] = "acked" THEN ApplyScreen(store[c], m) ELSE Muted(store[c], m)
AtScroll(c, m) == IF link[c] = "acked" THEN ApplyScroll(store[c], m) ELSE store[c]

LEMMA ScreenReceived ==
  ASSUME NEW c, RecvScreen(c)
  PROVE  /\ Arriving(c, "screen") /\ Consume(c) /\ Apply(c, AtScreen(c, Head(down[c])))
         /\ UNCHANGED <<AtTab, link, epoch>>
<1>1. Apply(c, AtScreen(c, Head(down[c])))
  <2>1. CASE link[c] = "acked"
    BY <2>1 DEF RecvScreen, AtScreen
  <2>2. CASE link[c] # "acked" /\ Head(down[c]).cleared
    BY <2>2 DEF RecvScreen, AtScreen, Muted
  <2>3. CASE link[c] # "acked" /\ ~Head(down[c]).cleared
    BY <2>3 DEF RecvScreen, AtScreen, Muted
  <2> QED
    BY <2>1, <2>2, <2>3
<1> QED
  BY <1>1 DEF RecvScreen

LEMMA TypesRecv ==
  ASSUME Types, NEW c \in Client, RecvResumeAck(c) \/ RecvScreen(c) \/ RecvScroll(c)
  PROVE  Types'
<1>1. epoch \in [Client -> 0 .. MaxBoots]
  BY DEF Types, SocketTypes
<1>2. CASE RecvResumeAck(c)
  <2> DEFINE e  == Head(down[c]).epoch
             st == Resumed(store[c], epoch[c], e)
  <2>1. /\ Arriving(c, "resumeAck") /\ Consume(c) /\ UNCHANGED AtTab /\ Apply(c, st)
        /\ link' = [link EXCEPT ![c] = "acked"] /\ epoch' = [epoch EXCEPT ![c] = e]
    BY <1>2 DEF RecvResumeAck
  <2>2. Head(down[c]) \in AckMsg /\ store[c] \in Stores
    BY <2>1, ArrivingIs
  <2>3. e \in 0 .. MaxBoots
    BY <2>2, StreamAssumption DEF AckMsg
  <2>4. st \in Stores
    BY <2>2, EmptyIs DEF Resumed
  <2> HIDE DEF st, e
  <2>5. epoch' \in [Client -> 0 .. MaxBoots]
    BY <2>1, <2>3, <1>1
  <2> QED
    BY <2>1, <2>4, <2>5, TypesReceived
<1>3. CASE RecvScreen(c)
  <2> DEFINE st == AtScreen(c, Head(down[c]))
  <2>1. /\ Arriving(c, "screen") /\ Consume(c) /\ Apply(c, st)
        /\ UNCHANGED AtTab /\ link' = link /\ epoch' = epoch
    BY <1>3, ScreenReceived
  <2>2. Head(down[c]) \in ScreenMsg /\ store[c] \in Stores
    BY <2>1, ArrivingIs
  <2>3. st \in Stores
    BY <2>2, ScreenTyped, MutedTyped DEF AtScreen
  <2> HIDE DEF st
  <2> QED
    BY <2>1, <2>3, <1>1, TypesReceived
<1>4. CASE RecvScroll(c)
  <2> DEFINE st == AtScroll(c, Head(down[c]))
  <2>1. /\ Arriving(c, "scroll") /\ Consume(c) /\ Apply(c, st)
        /\ UNCHANGED AtTab /\ link' = link /\ epoch' = epoch
    BY <1>4 DEF RecvScroll, AtScroll
  <2>2. Head(down[c]) \in ScrollMsg /\ store[c] \in Stores
    BY <2>1, ArrivingIs
  <2>3. st \in Stores
    <3>1. ApplyScroll(store[c], Head(down[c])) \in Stores
      BY <2>2, ScrollIs DEF Scrolled
    <3> QED
      BY <3>1, <2>2 DEF AtScroll
  <2> HIDE DEF st
  <2> QED
    BY <2>1, <2>3, <1>1, TypesReceived
<1> QED
  BY <1>2, <1>3, <1>4

LEMMA TypesReload ==
  ASSUME Types, NEW c \in Client, Reload(c)
  PROVE  Types'
<1>1. /\ UNCHANGED <<AtTab, down, link>>
      /\ UNCHANGED <<screen, handler, dirty, pass, boot, opened, gen, attached, asked>>
  BY DEF Reload, AtTab
<1>2. store \in [Client -> Stores] /\ epoch \in [Client -> 0 .. MaxBoots]
  BY DEF Types, TabTypes, SocketTypes
<1>3. store' \in [Client -> Stores] /\ epoch' \in [Client -> 0 .. MaxBoots]
  <2>1. CASE Apply(c, EmptyStore) /\ epoch' = [epoch EXCEPT ![c] = 0]
    <3>1. store' \in [Client -> Stores]
      BY <2>1, <1>2, EmptyIs DEF Apply
    <3>2. 0 \in 0 .. MaxBoots
      BY StreamAssumption
    <3> QED
      BY <2>1, <3>1, <3>2, <1>2
  <2>2. CASE Apply(c, FromSnapshot(Snapshot(store[c]))) /\ UNCHANGED epoch
    <3> DEFINE st == FromSnapshot(Snapshot(store[c]))
    <3>1. st \in Stores
      BY <1>2, RestoredIs
    <3> HIDE DEF st
    <3>2. store' = [store EXCEPT ![c] = st]
      BY <2>2 DEF Apply, st
    <3> QED
      BY <2>2, <3>1, <3>2, <1>2
  <2> QED
    BY <2>1, <2>2 DEF Reload
<1>4. HandlerTypes' /\ TabTypes' /\ SocketTypes'
  BY <1>1, <1>3 DEF Types, HandlerTypes, TabTypes, SocketTypes, screen, handler
<1>5. PassTypes'
  <2>1. \A d \in DOMAIN todo : d \in attached' /\ link'[d] # "down" /\ gen'[d] \in Nat
                               /\ gen[d] \in Nat /\ gen[d] <= gen'[d]
    BY <1>1, LogIs
  <2>2. log' = log /\ Len(log) \in Int
    BY <1>1, LogIs DEF handler
  <2> QED
    BY <1>1, <2>1, <2>2, PassKept DEF Types
<1> QED
  BY <1>4, <1>5 DEF Types

LEMMA TypesInit == Init => Types
<1> SUFFICES ASSUME Init PROVE Types
  OBVIOUS
<1>1. HandlerTypes
  <2>1. Blank \in Picture /\ 0 \in Row
    BY Sizes DEF Blank, Picture, Row
  <2>2. rows \in [{"main", "alt"} -> Picture]
    BY <2>1 DEF Init
  <2>3. /\ log \in Seq(Row) /\ Len(log) = 0 /\ Len(drain) = 0
        /\ drain \in Seq([row : Row, from : {"main", "alt"}])
    BY DEF Init
  <2>4. Len(log) + Len(drain) <= written /\ cleared \in 0 .. Len(log)
    BY <2>3 DEF Init
  <2> QED
    BY <2>1, <2>2, <2>3, <2>4 DEF Init, HandlerTypes
<1>2. PassTypes
  <2>1. DOMAIN <<>> = {}
    OBVIOUS
  <2> QED
    BY <2>1 DEF Init, PassTypes
<1>3. SocketTypes
  <2>1. 1 \in 1 .. MaxBoots /\ 0 \in 0 .. MaxBoots /\ 0 \in 0 .. MaxAttaches
    BY StreamAssumption
  <2>2. <<>> \in Seq(Msg) /\ NoResume \in Int
    BY DEF NoResume
  <2> QED
    BY <2>1, <2>2 DEF Init, SocketTypes
<1>4. TabTypes
  BY EmptyIs DEF Init, TabTypes
<1> QED
  BY <1>1, <1>2, <1>3, <1>4 DEF Types

LEMMA TypesNext == Types /\ [Next]_vars => Types'
<1> SUFFICES ASSUME Types, [Next]_vars PROVE Types'
  OBVIOUS
<1>1. CASE \/ PrintLine \/ EraseScreen \/ EraseSaved \/ EnterAlt \/ ExitAlt
           \/ \E y \in 1 .. Height : Rewrite(y)
  BY <1>1, TypesChild
<1>2. CASE Suspended
  BY <1>2, TypesSuspended
<1>3. CASE BuildFrame
  BY <1>3, TypesBuild
<1>4. CASE Restart
  BY <1>4, TypesRestart
<1>5. ASSUME NEW c \in Client,
             \/ WritePayloads(c) \/ Attach(c) \/ Resume(c) \/ Detach(c) \/ Reap(c)
             \/ Reload(c)
             \/ RecvResumeAck(c) \/ RecvScreen(c) \/ RecvScroll(c)
      PROVE  Types'
  BY <1>5, TypesWrite, TypesAttach, TypesResume, TypesDetach, TypesReap, TypesReload, TypesRecv
<1>6. CASE UNCHANGED vars
  <2>1. UNCHANGED <<screen, handler, dirty, pass, sockets, tabs>>
    BY <1>6 DEF vars
  <2>2. HandlerTypes' /\ TabTypes'
    BY <2>1 DEF Types, HandlerTypes, TabTypes, screen, handler, tabs
  <2>3. SocketTypes'
    BY <2>1, SocketsKept DEF Types, tabs
  <2>4. PassTypes'
    BY <2>1, LogIs, PassKept DEF Types, sockets, tabs, handler
  <2> QED
    BY <2>2, <2>3, <2>4 DEF Types
<1> QED
  BY <1>1, <1>2, <1>3, <1>4, <1>5, <1>6 DEF Next

LEMMA TypesEnough == Types => TypeOK
<1> SUFFICES ASSUME Types PROVE TypeOK
  OBVIOUS
<1>1. cache.base \in Nat /\ cache.rows \in Seq(Row)
  <2>1. CASE cache = NoCache
    BY <2>1 DEF NoCache
  <2>2. CASE cache \in [base : Base, rows : Picture]
    <3>1. cache.base \in Nat /\ cache.rows \in Picture
      BY <2>2, Sizes DEF Base
    <3> QED
      BY <3>1, PictureIs
  <2> QED
    BY <2>1, <2>2 DEF Types, HandlerTypes
<1>2. frame = NoFrame \/ frame \in Frame
  <2>1. Frames \subseteq Frame
    BY Sizes DEF Frames, Frame, Picture, Base
  <2> QED
    BY <2>1 DEF Types, PassTypes
<1>3. DOMAIN todo \subseteq Client /\ (frame = NoFrame <=> DOMAIN todo = {})
  BY LogIs DEF Types, PassTypes
<1>4. \A c \in Client :
        /\ Held(store[c]) \subseteq Nat /\ store[c].floor \in 0 .. Confirmed
        /\ \A a \in Held(store[c]) : store[c].lines[a] \in Row
  <2> TAKE c \in Client
  <2>1. store[c] \in Stores
    BY DEF Types, TabTypes
  <2>2. store[c].floor \in 0 .. Confirmed
    BY <2>1 DEF Stores
  <2> QED
    BY <2>1, <2>2, StoreIs
<1> QED
  BY <1>1, <1>2, <1>3, <1>4
     DEF TypeOK, Types, HandlerTypes, SocketTypes, Committed, Picture

\* Every variable stays in its type: in particular each index stays below the
\* number of chunks the child wrote, each message and each store is one of those
\* the code can build, and a frame is dispatched to connected tabs only.
THEOREM Typed == Spec => []TypeOK
<1>1. Spec => []Types
  BY TypesInit, TypesNext, PTL DEF Spec
<1> QED
  BY <1>1, TypesEnough, PTL

-----------------------------------------------------------------------------
(* What a tab shows.  Before the resumeAck a tab is mute; after it, it shows *)
(* nothing that can be told of, until the window of the batch arrives.       *)

Stages == [mode : {"mute", "none"}, base : Base, rows : Picture] \cup Pictures

\* The steps from stage to stage: a screen message that does not carry every row
\* fits the picture it finds, and lines lie below a main window.
ScreenStep(s, m, t) ==
  CASE m.kind = "resumeAck" -> s.mode = "mute" /\ t.mode = "none"
    [] m.kind = "scroll"    -> /\ t = s
                               /\ s.mode = "main" => m.first + Len(m.lines) <= s.base
    [] OTHER -> IF s.mode = "mute" THEN t = s
                ELSE /\ t \in Pictures /\ Carries(m, t)
                     /\ Whole(m) \/ (s \in Pictures /\ Fits(s, m))
ScreenSteps == {x \in Stages \X Msg \X Stages : ScreenStep(x[1], x[2], x[3])}

LEMMA ScreenStepIs ==
  \A s, t \in Stages : \A m \in Msg :
    <<s, m, t>> \in ScreenSteps <=> ScreenStep(s, m, t)
BY DEF ScreenSteps

\* What is under way to a tab: its queue, and what it will be written of the
\* frame being dispatched.
Pipeline(c) == down[c] \o (IF c \in DOMAIN todo THEN Sent(c) ELSE <<>>)

\* Where a tab stands.
Stands(c, s) == IF link[c] = "open" THEN s.mode = "mute"
                ELSE s.mode = "none" \/ (s \in Pictures /\ Shows(store[c], s))

\* What it will show in the end is what the builder takes for granted.
Expected(t) == /\ t \in Pictures
               /\ cache # NoCache => t.base = cache.base /\ t.rows = cache.rows /\ t.mode = seen

Follows(c) == \E s, t \in Stages :
                /\ Leads(ScreenSteps, Stages, Pipeline(c), s, t)
                /\ Stands(c, s) /\ Expected(t)

Following == \A c \in attached : link[c] # "down" /\ asked[c] = NoResume => Follows(c)

\* While anyone is attached, the cache is the screen unless a flush is due; and
\* nothing is committed below an alternate screen.
Synced == /\ attached # {} /\ ~dirty => /\ cache # NoCache /\ seen = mode
                                        /\ cache.base = Len(log) /\ cache.rows = Shown
          /\ cache # NoCache /\ seen = "alt" => cache.base = Len(log)

ScreenInv == Types /\ Synced /\ Following

LEMMA PipelineIs ==
  ASSUME Types, NEW c \in Client
  PROVE  /\ Pipeline(c) \in Seq(Msg) /\ down[c] \in Seq(Msg)
         /\ c \notin DOMAIN todo => Pipeline(c) = down[c]
         /\ c \in DOMAIN todo => Pipeline(c) = down[c] \o Sent(c) /\ Sent(c) \in Seq(Msg)
         /\ frame = NoFrame => Pipeline(c) = down[c]
<1>1. down[c] \in Seq(Msg)
  BY DEF Types, SocketTypes
<1>2. CASE c \notin DOMAIN todo
  <2>1. down[c] \o <<>> = down[c]
    BY <1>1
  <2> QED
    BY <1>1, <1>2, <2>1 DEF Pipeline
<1>3. CASE c \in DOMAIN todo
  <2>1. frame \in Frames /\ frame # NoFrame
    BY <1>3 DEF Types, PassTypes
  <2>2. Sent(c) \in Seq(Msg)
    BY <2>1, SentIs
  <2> QED
    BY <1>1, <1>3, <2>1, <2>2 DEF Pipeline
<1> QED
  BY <1>2, <1>3

\* A tab of which nothing changes keeps following, as long as the builder expects
\* no more of it.
LEMMA FollowsKept ==
  ASSUME NEW c, Follows(c), Pipeline(c)' = Pipeline(c), link'[c] = link[c],
         store'[c] = store[c], cache' = NoCache \/ UNCHANGED <<cache, seen>>
  PROVE  Follows(c)'
<1>1. PICK s \in Stages, t \in Stages :
        /\ Leads(ScreenSteps, Stages, Pipeline(c), s, t)
        /\ Stands(c, s) /\ Expected(t)
  BY DEF Follows
<1>2. Leads(ScreenSteps, Stages, Pipeline(c)', s, t)
  BY <1>1
<1>3. Stands(c, s)'
  BY <1>1 DEF Stands
<1>4. Expected(t)'
  BY <1>1 DEF Expected
<1> QED
  BY <1>2, <1>3, <1>4 DEF Follows

LEMMA StagesAre ==
  /\ Pictures \subseteq Stages
  /\ \A s \in Stages : /\ s.mode \in {"mute", "none", "main", "alt"} /\ s.base \in Int
                       /\ s.mode \in {"main", "alt"} <=> s \in Pictures
<1>1. Pictures \subseteq Stages
  BY DEF Stages
<1>2. ASSUME NEW s \in Stages
      PROVE  /\ s.mode \in {"mute", "none", "main", "alt"} /\ s.base \in Int
             /\ s.mode \in {"main", "alt"} <=> s \in Pictures
  <2>1. CASE s \in [mode : {"mute", "none"}, base : Base, rows : Picture]
    <3>1. s.mode \in {"mute", "none"} /\ s.base \in Base
      BY <2>1
    <3>2. s \notin Pictures
      BY <3>1 DEF Pictures
    <3> QED
      BY <3>1, <3>2, Sizes DEF Base
  <2>2. CASE s \in Pictures
    <3>1. s.mode \in {"main", "alt"} /\ s.base \in Base
      BY <2>2 DEF Pictures
    <3> QED
      BY <2>2, <3>1, Sizes DEF Base
  <2> QED
    BY <2>1, <2>2 DEF Stages
<1> QED
  BY <1>1, <1>2

\* Lines that lie below the window change nothing.
LEMMA LinesLead ==
  ASSUME NEW q \in Seq(Msg), NEW s \in Stages,
         \A k \in 1 .. Len(q) : /\ q[k].kind = "scroll"
                                /\ s.mode = "main" => q[k].first + Len(q[k].lines) <= s.base
  PROVE  Leads(ScreenSteps, Stages, q, s, s)
<1>1. ASSUME NEW i \in 1 .. Len(q)
      PROVE  <<s, q[i], s>> \in ScreenSteps
  <2>1. q[i] \in Msg
    OBVIOUS
  <2>2. ScreenStep(s, q[i], s)
    BY DEF ScreenStep
  <2> QED
    BY <2>1, <2>2, ScreenStepIs
<1> QED
  BY <1>1, LeadsNowhere

\* A screen message leads to the picture it carries.
LEMMA ScreenLeads ==
  ASSUME NEW m \in ScreenMsg, NEW s \in Stages, NEW t \in Pictures, s.mode # "mute",
         Carries(m, t), Whole(m) \/ (s \in Pictures /\ Fits(s, m))
  PROVE  Leads(ScreenSteps, Stages, <<m>>, s, t)
<1>1. m \in Msg /\ m.kind = "screen"
  BY DEF Msg, ScreenMsg
<1>2. t \in Stages
  BY StagesAre
<1>3. ScreenStep(s, m, t)
  BY <1>1 DEF ScreenStep
<1>4. <<s, m, t>> \in ScreenSteps
  BY <1>1, <1>2, <1>3, ScreenStepIs
<1> QED
  BY <1>2, <1>4, LeadsOne

LEMMA FrameLeads ==
  ASSUME NEW f \in Frames, NEW s \in Stages, NEW t \in Pictures, s.mode # "mute",
         Carries(Screen(f), t), Whole(Screen(f)) \/ (s \in Pictures /\ Fits(s, Screen(f)))
  PROVE  Leads(ScreenSteps, Stages, <<Screen(f)>> \o Chunks(f.first, f.lines), s, t)
<1> DEFINE m  == Screen(f)
           cs == Chunks(f.first, f.lines)
<1>1. /\ m \in ScreenMsg /\ m \in Msg /\ m.base = f.base
      /\ f.first \in Nat /\ f.lines \in Seq(Row) /\ f.first + Len(f.lines) = f.base
      /\ f.base <= MaxChunks
  BY FrameIs
<1>2. /\ cs \in Seq(Msg)
      /\ \A k \in 1 .. Len(cs) :
              /\ cs[k].kind = "scroll"
              /\ cs[k].first + Len(cs[k].lines) <= f.first + Len(f.lines)
  <2>1. f.first + Len(f.lines) <= MaxChunks
    BY <1>1
  <2> QED
    BY <1>1, <2>1, LinesAre
<1>3. Leads(ScreenSteps, Stages, <<m>>, s, t)
  BY <1>1, ScreenLeads
<1> HIDE DEF m, cs
<1>4. t \in Stages /\ t.base = f.base
  <2>1. t.base = m.base
    BY DEF Carries, m
  <2> QED
    BY <1>1, <2>1, StagesAre
<1>5. Leads(ScreenSteps, Stages, cs, t, t)
  <2>1. \A k \in 1 .. Len(cs) : /\ cs[k].kind = "scroll"
                                /\ t.mode = "main" => cs[k].first + Len(cs[k].lines) <= t.base
    BY <1>1, <1>2, <1>4
  <2> QED
    BY <1>2, <1>4, <2>1, LinesLead
<1>6. <<m>> \in Seq(Msg)
  BY <1>1
<1>7. Leads(ScreenSteps, Stages, <<m>> \o cs, s, t)
  BY <1>2, <1>3, <1>5, <1>6, LeadsOn
<1> QED
  BY <1>7 DEF m, cs

LEMMA PipelineKept ==
  ASSUME NEW c, down'[c] = down[c], gen'[c] = gen[c],
         c \in DOMAIN todo <=> c \in DOMAIN todo',
         c \in DOMAIN todo => todo'[c] = todo[c] /\ frame' = frame
  PROVE  Pipeline(c)' = Pipeline(c)
<1>1. CASE c \in DOMAIN todo
  <2>1. Sent(c)' = Sent(c)
    BY <1>1 DEF Sent, Screen, Chunks
  <2> QED
    BY <1>1, <2>1 DEF Pipeline
<1>2. CASE c \notin DOMAIN todo
  BY <1>2 DEF Pipeline
<1> QED
  BY <1>1, <1>2

LEMMA ScreenChild ==
  ASSUME ScreenInv,
         \/ PrintLine \/ EraseScreen \/ EraseSaved \/ EnterAlt \/ ExitAlt
         \/ \E y \in 1 .. Height : Rewrite(y)
  PROVE  Synced' /\ Following'
<1>1. dirty' = TRUE /\ log' = log /\ UNCHANGED <<pass, sockets, tabs, cache, seen>>
  <2>1. Chunk
    BY DEF PrintLine, EraseScreen, EraseSaved, EnterAlt, ExitAlt, Rewrite
  <2>2. log' = log /\ UNCHANGED <<cache, seen>>
    BY DEF PrintLine, EraseScreen, EraseSaved, EnterAlt, ExitAlt, Rewrite, handler
  <2> QED
    BY <2>1, <2>2 DEF Chunk
<1>2. Synced'
  BY <1>1 DEF ScreenInv, Synced
<1>3. ASSUME NEW c \in attached', link'[c] # "down", asked'[c] = NoResume
      PROVE  Follows(c)'
  <2>1. Follows(c)
    BY <1>1, <1>3 DEF ScreenInv, Following, sockets, tabs
  <2>2. Pipeline(c)' = Pipeline(c)
    BY <1>1, PipelineKept DEF sockets, pass
  <2> QED
    BY <1>1, <2>1, <2>2, FollowsKept DEF tabs
<1> QED
  BY <1>2, <1>3 DEF Following

LEMMA ScreenSuspended ==
  ASSUME ScreenInv, Suspended
  PROVE  Synced' /\ Following'
<1>1. /\ attached' = {} /\ log' = Lines
      /\ UNCHANGED <<cache, seen>> /\ attached = {}
  BY DEF Suspended, sockets, Lines
<1>2. cache' # NoCache /\ seen' = "alt" => cache'.base = Len(log')
  <2>1. SUFFICES ASSUME cache # NoCache, seen = "alt" PROVE cache.base = Len(Lines)
    BY <1>1
  <2>2. ScrollOut = <<>>
    BY <2>1 DEF ScrollOut, Switched
  <2>3. Lines = log
    BY <2>2, CommittedIs DEF ScreenInv, Types, Lines
  <2> QED
    BY <2>1, <2>3 DEF ScreenInv, Synced
<1> QED
  BY <1>1, <1>2 DEF Synced, Following

LEMMA ScreenBuild ==
  ASSUME ScreenInv, BuildFrame
  PROVE  Synced' /\ Following'
<1>1. /\ dirty' = FALSE /\ seen' = mode /\ frame = NoFrame /\ log' = Lines
      /\ Len(log') = Len(log) + Len(ScrollOut)
      /\ cache' = [base |-> Len(log'), rows |-> Shown]
      /\ UNCHANGED <<mode, rows, sockets, tabs>>
      /\ \/ UNCHANGED pass /\ (Reached = {} \/ (Changed(Len(log')) = {} /\ log' = log))
         \/ Built(frame') /\ todo' = [c \in Reached |-> gen[c]]
  BY BuildIs DEF ScreenInv, Types, Lines
<1>2. HandlerTypes /\ Len(log') \in Base /\ Shown \in Picture /\ Shown' = Shown
  <2>1. HandlerTypes /\ Shown \in Picture
    BY ShownIs DEF ScreenInv, Types
  <2>2. Len(log') \in Base
    BY <2>1, <1>1, CommittedIs DEF Lines
  <2> QED
    BY <1>1, <2>1, <2>2 DEF Shown
<1>3. cache' # NoCache /\ cache'.base = Len(log') /\ cache'.rows = Shown
  <2>1. Shown # <<>>
    BY <1>2, PictureIs
  <2> QED
    BY <1>1, <2>1 DEF NoCache
<1>4. Synced'
  BY <1>1, <1>2, <1>3 DEF Synced
<1>5. ASSUME NEW c \in attached', link'[c] # "down", asked'[c] = NoResume
      PROVE  Follows(c)'
  <2>1. /\ c \in attached /\ c \in Client /\ link[c] # "down" /\ c \in Reached
        /\ link'[c] = link[c] /\ store'[c] = store[c] /\ down'[c] = down[c] /\ gen'[c] = gen[c]
    BY <1>1, <1>5 DEF sockets, tabs, ScreenInv, Types, SocketTypes, Reached
  <2>2. Follows(c)
    BY <1>1, <1>5, <2>1 DEF ScreenInv, Following, sockets
  <2>3. PICK s \in Stages, t \in Stages :
          /\ Leads(ScreenSteps, Stages, Pipeline(c), s, t)
          /\ Stands(c, s) /\ Expected(t)
    BY <2>2 DEF Follows
  <2>4. Stands(c, s)'
    BY <2>1, <2>3 DEF Stands
  <2>5. Pipeline(c) = down[c] /\ down[c] \in Seq(Msg)
    BY <1>1, <2>1, PipelineIs DEF ScreenInv
  <2>6. CASE UNCHANGED pass /\ (Reached = {} \/ (Changed(Len(log')) = {} /\ log' = log))
    <3>1. Changed(Len(log')) = {}
      BY <2>1, <2>6
    <3>2. cache # NoCache /\ seen = mode /\ Len(log') = cache.base /\ cache.rows = Shown
      BY <3>1, <1>2, ChangedIs
    <3>3. Expected(t)'
      BY <3>2, <2>3, <1>1, <1>3 DEF Expected
    <3>4. Pipeline(c)' = Pipeline(c)
      BY <2>1, <2>6, PipelineKept DEF pass
    <3>5. Leads(ScreenSteps, Stages, Pipeline(c)', s, t)
      BY <2>3, <3>4
    <3> QED
      BY <2>4, <3>3, <3>5 DEF Follows
  <2>7. CASE Built(frame') /\ todo' = [d \in Reached |-> gen[d]]
    <3>0. PICK f : f = frame'
      OBVIOUS
    <3> DEFINE q == <<Screen(f)>> \o Chunks(f.first, f.lines)
    <3>1. /\ f \in Frames /\ f.base = Len(log') /\ f.rows = Shown
          /\ Changed(f.base) \subseteq f.changed
          /\ f.alt <=> mode = "alt"
      BY <3>0, <1>1, <2>7 DEF Built
    <3>2. f.base \in Base /\ mode \in {"main", "alt"}
      BY <1>2, <3>1 DEF HandlerTypes
    <3>3. PICK u \in Pictures : u.mode = mode /\ u.base = f.base /\ u.rows = Shown
      <4> DEFINE v == [mode |-> mode, base |-> f.base, rows |-> Shown]
      <4>1. v \in Pictures /\ v.mode = mode /\ v.base = f.base /\ v.rows = Shown
        BY <3>2, <1>2 DEF Pictures
      <4> QED
        BY <4>1
    <3>4. /\ Screen(f) \in ScreenMsg /\ Screen(f).base = f.base /\ Screen(f).rows = Shown
          /\ Screen(f).changed = f.changed /\ Screen(f).alt = f.alt /\ Screen(f) \in Msg
      BY <3>1, FrameIs
    <3>5. Carries(Screen(f), u)
      BY <3>1, <3>3, <3>4 DEF Carries
    <3>6. t \in Pictures /\ t.mode # "mute"
      BY <2>3 DEF Expected, Pictures
    <3>7. Whole(Screen(f)) \/ Fits(t, Screen(f))
      <4>1. CASE cache = NoCache \/ seen # mode
        <5>1. Changed(f.base) = 1 .. Height
          BY <4>1, <3>2, <1>2, ChangedIs
        <5>2. f.changed \subseteq 1 .. Height
          BY <3>1 DEF Frames
        <5> QED
          BY <5>1, <5>2, <3>1, <3>4 DEF Whole
      <4>2. CASE cache # NoCache /\ seen = mode
        <5>1. t.base = cache.base /\ t.rows = cache.rows /\ t.mode = mode
          BY <4>2, <2>3 DEF Expected
        <5>2. \A y \in (1 .. Height) \ f.changed :
                /\ f.base + y - t.base \in 1 .. Height
                /\ t.rows[f.base + y - t.base] = Shown[y]
          BY <4>2, <5>1, <3>1, <3>2, <1>2, ChangedIs
        <5>3. t.mode = "alt" => t.base = f.base
          <6>1. SUFFICES ASSUME t.mode = "alt" PROVE t.base = f.base
            OBVIOUS
          <6>2. ScrollOut = <<>>
            BY <6>1, <5>1, <1>2, ScrollOutIs
          <6>3. Lines = log
            BY <6>2, <1>2, CommittedIs DEF Lines
          <6>4. cache.base = Len(log)
            BY <4>2, <5>1, <6>1 DEF ScreenInv, Synced
          <6> QED
            BY <5>1, <6>3, <6>4, <3>1, <1>1
        <5> QED
          BY <5>1, <5>2, <5>3, <3>1, <3>4 DEF Fits
      <4> QED
        BY <4>1, <4>2
    <3>8. Leads(ScreenSteps, Stages, q, t, u)
      <4>1. t \in Stages
        OBVIOUS
      <4> QED
        BY <4>1, <3>1, <3>3, <3>5, <3>6, <3>7, FrameLeads
    <3>9. q \in Seq(Msg) /\ Pipeline(c)' = down[c] \o q
      <4>1. DOMAIN todo' = Reached /\ todo'[c] = gen[c]
        BY <2>1, <2>7
      <4>2. Sent(c)' = q
        BY <3>0, <4>1, <2>1 DEF Sent, q
      <4>3. Pipeline(c)' = down[c] \o q
        BY <4>1, <4>2, <2>1 DEF Pipeline
      <4>4. Chunks(f.first, f.lines) \in Seq(Msg)
        <5>1. f.first \in Nat /\ f.lines \in Seq(Row) /\ f.first + Len(f.lines) <= MaxChunks
          <6>1. /\ f.first \in Nat /\ f.lines \in Seq(Row) /\ f.first + Len(f.lines) = f.base
                /\ f.base <= MaxChunks
            BY <3>1, FrameIs
          <6> QED
            BY <6>1
        <5> QED
          BY <5>1, LinesAre
      <4> QED
        BY <4>3, <4>4, <3>4
    <3> HIDE DEF q
    <3>10. Leads(ScreenSteps, Stages, Pipeline(c)', s, u)
      <4>1. Leads(ScreenSteps, Stages, down[c] \o q, s, u)
        BY <2>3, <2>5, <3>8, <3>9, LeadsOn
      <4> QED
        BY <4>1, <3>9
    <3>11. Expected(u)'
      BY <3>1, <3>3, <1>1, <1>3 DEF Expected
    <3>12. u \in Stages
      BY <3>3, StagesAre
    <3> QED
      BY <2>4, <3>10, <3>11, <3>12 DEF Follows
  <2> QED
    BY <1>1, <2>6, <2>7
<1> QED
  BY <1>4, <1>5 DEF Following

LEMMA ScreenWrite ==
  ASSUME ScreenInv, NEW c \in Client, WritePayloads(c)
  PROVE  Synced' /\ Following'
<1>1. /\ c \in DOMAIN todo /\ Served(c)
      /\ UNCHANGED <<screen, handler, dirty, boot, opened, gen, attached, asked, tabs>>
  BY DEF WritePayloads
<1>2. /\ frame \in Frames /\ DOMAIN todo' = DOMAIN todo \ {c}
      /\ \A d \in DOMAIN todo \ {c} : todo'[d] = todo[d] /\ frame' = frame
  BY <1>1, ServedIs DEF ScreenInv, Types
<1>3. down' = [down EXCEPT ![c] = @ \o Sent(c)]
  BY <1>2, SentIs DEF WritePayloads
<1>4. Synced'
  BY <1>1 DEF ScreenInv, Synced, Shown, handler, screen
<1>5. ASSUME NEW d \in attached', link'[d] # "down", asked'[d] = NoResume
      PROVE  Follows(d)'
  <2>1. Follows(d) /\ d \in Client
    BY <1>1, <1>5 DEF ScreenInv, Following, tabs, Types, SocketTypes
  <2>2. Pipeline(d)' = Pipeline(d)
    <3>1. down \in [Client -> Seq(Msg)]
      BY DEF ScreenInv, Types, SocketTypes
    <3>2. CASE d = c
      <4>1. Pipeline(c) = down[c] \o Sent(c) /\ down[c] \o Sent(c) \in Seq(Msg)
        BY <1>1, PipelineIs DEF ScreenInv
      <4>2. down'[c] = down[c] \o Sent(c) /\ c \notin DOMAIN todo'
        BY <1>2, <1>3, <3>1
      <4>3. Pipeline(c)' = down'[c] \o <<>>
        BY <4>2 DEF Pipeline
      <4> QED
        BY <3>2, <4>1, <4>2, <4>3
    <3>3. CASE d # c
      <4>1. down'[d] = down[d] /\ gen'[d] = gen[d]
        BY <1>1, <1>3, <2>1, <3>1, <3>3
      <4>2. d \in DOMAIN todo <=> d \in DOMAIN todo'
        BY <1>2, <3>3
      <4>3. d \in DOMAIN todo => todo'[d] = todo[d] /\ frame' = frame
        BY <1>2, <3>3
      <4> QED
        BY <4>1, <4>2, <4>3, PipelineKept
    <3> QED
      BY <3>2, <3>3
  <2> QED
    BY <1>1, <2>1, <2>2, FollowsKept DEF handler, tabs
<1> QED
  BY <1>4, <1>5 DEF Following

LEMMA ScreenAttach ==
  ASSUME ScreenInv, NEW c \in Client, Attach(c)
  PROVE  Synced' /\ Following'
<1>1. /\ link[c] = "down" /\ link' = [link EXCEPT ![c] = "open"]
      /\ asked' = [asked EXCEPT ![c] = ReplayBoundary(store[c])]
      /\ attached' = attached \cup {c} /\ gen' = [gen EXCEPT ![c] = 0]
      /\ cache' = NoCache /\ dirty' = TRUE
      /\ UNCHANGED <<screen, log, seen, pass, down, store>>
  BY DEF Attach
<1>2. Synced'
  BY <1>1 DEF Synced
<1>3. ASSUME NEW d \in attached', link'[d] # "down", asked'[d] = NoResume
      PROVE  Follows(d)'
  <2>1. d \in Client /\ gen \in [Client -> Nat] /\ asked \in [Client -> Int]
        /\ link \in [Client -> {"down", "open", "acked"}] /\ attached \subseteq Client
    BY <1>1, <1>3 DEF ScreenInv, Types, SocketTypes
  <2>2. d # c
    <3>1. store[c] \in Stores
      BY DEF ScreenInv, Types, TabTypes
    <3>2. ReplayBoundary(store[c]) # NoResume
      BY <3>1, BoundaryIs DEF NoResume
    <3> QED
      BY <3>2, <1>1, <1>3, <2>1
  <2>3. d \in attached /\ link'[d] = link[d] /\ asked'[d] = asked[d] /\ gen'[d] = gen[d]
    BY <1>1, <2>1, <2>2
  <2>4. Follows(d)
    BY <1>3, <2>3 DEF ScreenInv, Following
  <2>5. Pipeline(d)' = Pipeline(d)
    BY <1>1, <2>3, PipelineKept DEF pass
  <2> QED
    BY <1>1, <2>3, <2>4, <2>5, FollowsKept
<1> QED
  BY <1>2, <1>3 DEF Following

LEMMA ScreenDetach ==
  ASSUME ScreenInv, NEW c \in Client, Detach(c)
  PROVE  Synced' /\ Following'
<1>1. /\ link' = [link EXCEPT ![c] = "down"] /\ down' = [down EXCEPT ![c] = <<>>]
      /\ asked' = [asked EXCEPT ![c] = NoResume] /\ gen' = [gen EXCEPT ![c] = 0]
      /\ IF c \in DOMAIN todo THEN Served(c) ELSE UNCHANGED pass
      /\ UNCHANGED <<screen, handler, dirty, attached, store>>
  BY DEF Detach
<1>2. Synced'
  BY <1>1 DEF ScreenInv, Synced, Shown, handler, screen
<1>3. ASSUME NEW d \in attached', link'[d] # "down", asked'[d] = NoResume
      PROVE  Follows(d)'
  <2>1. d \in Client /\ gen \in [Client -> Nat] /\ asked \in [Client -> Int]
        /\ link \in [Client -> {"down", "open", "acked"}] /\ down \in [Client -> Seq(Msg)]
    BY <1>1, <1>3 DEF ScreenInv, Types, SocketTypes
  <2>2. d # c
    BY <1>1, <1>3, <2>1
  <2>3. /\ d \in attached /\ link'[d] = link[d] /\ asked'[d] = asked[d] /\ gen'[d] = gen[d]
        /\ down'[d] = down[d]
    BY <1>1, <1>3, <2>1, <2>2
  <2>4. Follows(d)
    BY <1>3, <2>3 DEF ScreenInv, Following
  <2>5. Pipeline(d)' = Pipeline(d)
    <3>1. CASE c \in DOMAIN todo
      <4>1. /\ DOMAIN todo' = DOMAIN todo \ {c}
            /\ \A e \in DOMAIN todo \ {c} : todo'[e] = todo[e] /\ frame' = frame
        BY <1>1, <3>1, ServedIs DEF ScreenInv, Types
      <4>2. d \in DOMAIN todo <=> d \in DOMAIN todo'
        BY <4>1, <2>2
      <4>3. d \in DOMAIN todo => todo'[d] = todo[d] /\ frame' = frame
        BY <4>1, <2>2
      <4> QED
        BY <2>3, <4>2, <4>3, PipelineKept
    <3>2. CASE c \notin DOMAIN todo
      BY <1>1, <2>3, <3>2, PipelineKept DEF pass
    <3> QED
      BY <3>1, <3>2
  <2> QED
    BY <1>1, <2>3, <2>4, <2>5, FollowsKept DEF handler
<1> QED
  BY <1>2, <1>3 DEF Following

LEMMA ScreenReap ==
  ASSUME ScreenInv, NEW c \in Client, Reap(c)
  PROVE  Synced' /\ Following'
<1>1. /\ attached' = attached \ {c}
      /\ UNCHANGED <<screen, handler, dirty, pass, gen, asked, down, tabs>>
  BY DEF Reap
<1>2. Synced'
  BY <1>1 DEF ScreenInv, Synced, Shown, handler, screen
<1>3. ASSUME NEW d \in attached', link'[d] # "down", asked'[d] = NoResume
      PROVE  Follows(d)'
  <2>1. Follows(d)
    BY <1>1, <1>3 DEF ScreenInv, Following, tabs
  <2>2. Pipeline(d)' = Pipeline(d)
    BY <1>1, PipelineKept DEF pass
  <2> QED
    BY <1>1, <2>1, <2>2, FollowsKept DEF handler, tabs
<1> QED
  BY <1>2, <1>3 DEF Following

LEMMA ScreenRestart ==
  ASSUME Restart
  PROVE  Synced' /\ Following'
<1>1. attached' = {} /\ cache' = NoCache
  BY DEF Restart
<1> QED
  BY <1>1 DEF Synced, Following

\* Before the resumeAck a tab stays mute.
LEMMA MuteLeads ==
  ASSUME NEW q \in Seq(Msg), \A i \in 1 .. Len(q) : q[i].kind # "resumeAck",
         NEW s \in Stages, s.mode = "mute"
  PROVE  Leads(ScreenSteps, Stages, q, s, s)
<1>1. ASSUME NEW i \in 1 .. Len(q)
      PROVE  <<s, q[i], s>> \in ScreenSteps
  <2>1. q[i] \in Msg /\ q[i].kind # "resumeAck"
    OBVIOUS
  <2>2. ScreenStep(s, q[i], s)
    BY <2>1 DEF ScreenStep
  <2> QED
    BY <2>1, <2>2, ScreenStepIs
<1> QED
  BY <1>1, LeadsNowhere

\* What is left of a frame built before a resume: its lines.
Stale(c) == IF c \in DOMAIN todo THEN Chunks(frame.first, frame.lines) ELSE <<>>

LEMMA ResumedPipeline ==
  ASSUME Types, NEW c \in Client, Resume(c), NEW q \in Seq(Msg),
         down' = [down EXCEPT ![c] = @ \o q]
  PROVE  /\ Pipeline(c)' = (down[c] \o q) \o Stale(c)
         /\ Stale(c) \in Seq(Msg)
         /\ \A k \in 1 .. Len(Stale(c)) :
              /\ Stale(c)[k] \in ScrollMsg /\ Stale(c)[k].kind = "scroll"
              /\ Stale(c)[k].first >= frame.first
              /\ Stale(c)[k].first + Len(Stale(c)[k].lines) <= frame.base
              /\ Stale(c)[k].first + Len(Stale(c)[k].lines) <= Len(log)
              /\ frame \in Frames /\ frame.base <= Len(log)
<1>1. gen' = [gen EXCEPT ![c] = @ + 1] /\ frame' = frame /\ todo' = todo
  BY ResumeIs DEF pass
<1>2. gen \in [Client -> Nat] /\ down \in [Client -> Seq(Msg)]
  BY DEF Types, SocketTypes
<1>3. down'[c] = down[c] \o q /\ down[c] \in Seq(Msg) /\ down[c] \o q \in Seq(Msg)
  BY <1>2
<1>4. CASE c \in DOMAIN todo
  <2>1. todo[c] \in Nat /\ todo[c] <= gen[c] /\ frame \in Frames /\ frame.base <= Len(log)
    BY <1>4 DEF Types, PassTypes
  <2>2. todo'[c] # gen'[c]
    BY <1>1, <1>2, <2>1
  <2>3. Pipeline(c)' = (down[c] \o q) \o Stale(c)
    <3>1. Sent(c)' = Chunks(frame.first, frame.lines)
      BY <1>1, <2>2 DEF Sent, Chunks
    <3> QED
      BY <1>1, <1>3, <1>4, <3>1 DEF Pipeline, Stale
  <2>4. /\ frame.first \in Nat /\ frame.lines \in Seq(Row) /\ frame.base \in Nat
        /\ frame.first + Len(frame.lines) = frame.base /\ frame.base <= MaxChunks
    BY <2>1, FrameIs
  <2> DEFINE cs == Chunks(frame.first, frame.lines)
  <2>5. frame.first + Len(frame.lines) <= MaxChunks
    BY <2>4
  <2>6. /\ cs \in Seq(Msg) /\ Len(cs) \in Nat
        /\ \A k \in 1 .. Len(cs) :
              /\ cs[k] \in ScrollMsg /\ cs[k].kind = "scroll"
              /\ cs[k].first >= frame.first
              /\ cs[k].first + Len(cs[k].lines) <= frame.first + Len(frame.lines)
    BY <2>4, <2>5, LinesAre
  <2>7. Stale(c) = cs
    BY <1>4 DEF Stale
  <2> HIDE DEF cs
  <2>8. Len(log) \in Int
    BY LogIs
  <2>9. ASSUME NEW k \in 1 .. Len(cs)
        PROVE  cs[k].first + Len(cs[k].lines) <= frame.base
               /\ cs[k].first + Len(cs[k].lines) <= Len(log)
    <3>1. cs[k].first + Len(cs[k].lines) \in Int
      <4>1. cs[k] \in ScrollMsg
        BY <2>6
      <4>2. cs[k].first \in Nat /\ Len(cs[k].lines) \in Nat
        BY <4>1 DEF ScrollMsg
      <4> QED
        BY <4>2
    <3> QED
      BY <2>1, <2>4, <2>6, <2>8, <3>1
  <2> QED
    BY <2>1, <2>3, <2>6, <2>7, <2>9
<1>5. CASE c \notin DOMAIN todo
  <2>1. Stale(c) = <<>> /\ Len(<<>>) = 0
    BY <1>5 DEF Stale
  <2>2. Pipeline(c)' = (down[c] \o q) \o <<>>
    BY <1>1, <1>3, <1>5 DEF Pipeline
  <2> QED
    BY <2>1, <2>2
<1> QED
  BY <1>4, <1>5

LEMMA ScreenResume ==
  ASSUME ScreenInv, NEW c \in Client, Resume(c)
  PROVE  Synced' /\ Following'
<1>1. /\ asked[c] # NoResume /\ c \in attached /\ link[c] = "open"
      /\ log' = Lines /\ cache' = NoCache /\ dirty' = TRUE
      /\ gen' = [gen EXCEPT ![c] = @ + 1] /\ asked' = [asked EXCEPT ![c] = NoResume]
      /\ UNCHANGED <<mode, rows, seen, pass, attached, tabs>>
      /\ Ack \in Msg
  BY ResumeIs DEF ScreenInv
<1>2. PICK w \in ScreenMsg, rest \in Seq(Msg) :
        /\ FullScreen(w)
        /\ mode = "main" => rest = <<w>> \o Replay(c)
        /\ mode = "alt" => rest = Replay(c) \o <<w>>
        /\ down' = [down EXCEPT ![c] = @ \o (<<Ack>> \o rest)]
  BY ResumeIs DEF ScreenInv
<1>3. Synced'
  BY <1>1 DEF Synced
<1>4. /\ gen \in [Client -> Nat] /\ asked \in [Client -> Int] /\ down \in [Client -> Seq(Msg)]
      /\ \A i \in 1 .. Len(down[c]) : down[c][i].kind # "resumeAck"
      /\ HandlerTypes /\ mode \in {"main", "alt"} /\ Len(Lines) \in Base /\ Shown \in Picture
      /\ asked[c] \in Int /\ Len(Lines) \in Int
  <2>1. HandlerTypes
    BY DEF ScreenInv, Types
  <2>2. Len(Lines) \in Base /\ Shown \in Picture /\ Len(Lines) \in Int
    BY <2>1, CommittedIs, ShownIs DEF Lines
  <2> QED
    BY <1>1, <2>1, <2>2 DEF ScreenInv, Types, SocketTypes, HandlerTypes
<1>5. Follows(c)'
  <2> DEFINE s0 == [mode |-> "mute", base |-> Len(Lines), rows |-> Shown]
             s1 == [mode |-> "none", base |-> Len(Lines), rows |-> Shown]
             u  == [mode |-> mode, base |-> Len(Lines), rows |-> Shown]
  <2>1. PICK a \in Stages, b \in Stages, t \in Pictures :
          /\ a.mode = "mute" /\ b.mode = "none"
          /\ t.mode = mode /\ t.base = Len(Lines) /\ t.rows = Shown
    <3>1. s0 \in Stages /\ s1 \in Stages
      BY <1>4 DEF Stages
    <3>2. u \in Pictures
      BY <1>4 DEF Pictures
    <3>3. s0.mode = "mute" /\ s1.mode = "none"
          /\ u.mode = mode /\ u.base = Len(Lines) /\ u.rows = Shown
      OBVIOUS
    <3> HIDE DEF s0, s1, u
    <3> QED
      BY <3>1, <3>2, <3>3
  <2>2. t \in Stages
    BY StagesAre
  <2>3. Leads(ScreenSteps, Stages, down[c], a, a)
    BY <1>4, <2>1, MuteLeads
  <2>4. Leads(ScreenSteps, Stages, <<Ack>>, a, b)
    <3>1. ScreenStep(a, Ack, b)
      BY <2>1 DEF ScreenStep, Ack
    <3>2. <<a, Ack, b>> \in ScreenSteps
      BY <1>1, <3>1, ScreenStepIs
    <3> QED
      BY <3>2, LeadsOne
  <2>5. Leads(ScreenSteps, Stages, <<w>>, b, t)
    <3>1. Carries(w, t) /\ Whole(w)
      BY <1>2, <1>4, <2>1 DEF Carries, FullScreen
    <3>2. b.mode # "mute"
      BY <2>1
    <3> QED
      BY <2>1, <3>1, <3>2, ScreenLeads
  <2> DEFINE r == Replay(c)
  <2>6. /\ r \in Seq(Msg)
        /\ \A k \in 1 .. Len(r) : r[k].kind = "scroll" /\ r[k].first + Len(r[k].lines) <= Len(Lines)
    BY <1>4, ReplayIs
  <2> HIDE DEF r
  <2>7. /\ Leads(ScreenSteps, Stages, r, b, b)
        /\ Leads(ScreenSteps, Stages, r, t, t)
    BY <2>1, <2>2, <2>6, LinesLead
  <2>8. Leads(ScreenSteps, Stages, rest, b, t)
    <3>1. w \in Msg /\ <<w>> \in Seq(Msg)
      BY DEF Msg
    <3>2. CASE mode = "main"
      <4>1. Leads(ScreenSteps, Stages, <<w>> \o r, b, t)
        BY <2>5, <2>6, <2>7, <3>1, LeadsOn
      <4> QED
        BY <3>2, <4>1, <1>2 DEF r
    <3>3. CASE mode = "alt"
      <4>1. Leads(ScreenSteps, Stages, r \o <<w>>, b, t)
        BY <2>5, <2>6, <2>7, <3>1, LeadsOn
      <4> QED
        BY <3>3, <4>1, <1>2 DEF r
    <3> QED
      BY <1>4, <3>2, <3>3
  <2> DEFINE q == <<Ack>> \o rest
  <2>9. q \in Seq(Msg) /\ Leads(ScreenSteps, Stages, q, a, t)
    <3>1. <<Ack>> \in Seq(Msg) /\ q \in Seq(Msg)
      BY <1>1
    <3> QED
      BY <2>4, <2>8, <3>1, LeadsOn
  <2>10. down' = [down EXCEPT ![c] = @ \o q]
    BY <1>2
  <2> HIDE DEF q
  <2>11. /\ Pipeline(c)' = (down[c] \o q) \o Stale(c) /\ Stale(c) \in Seq(Msg)
         /\ \A k \in 1 .. Len(Stale(c)) :
              /\ Stale(c)[k] \in ScrollMsg /\ Stale(c)[k].kind = "scroll"
              /\ Stale(c)[k].first + Len(Stale(c)[k].lines) <= Len(log)
    BY <2>9, <2>10, ResumedPipeline DEF ScreenInv
  <2>12. Leads(ScreenSteps, Stages, Stale(c), t, t)
    <3>1. Len(log) \in Int /\ Len(log) <= Len(Lines)
      BY LogIs DEF ScreenInv
    <3>2. ASSUME NEW k \in 1 .. Len(Stale(c))
          PROVE  Stale(c)[k].first + Len(Stale(c)[k].lines) <= t.base
      <4>1. Stale(c)[k].first \in Nat /\ Len(Stale(c)[k].lines) \in Nat
        BY <2>11 DEF ScrollMsg
      <4>2. Stale(c)[k].first + Len(Stale(c)[k].lines) <= Len(log)
        BY <2>11
      <4> QED
        BY <4>1, <4>2, <3>1, <2>1, <1>4
    <3> QED
      BY <2>2, <2>11, <3>2, LinesLead
  <2>13. Leads(ScreenSteps, Stages, Pipeline(c)', a, t)
    <3>1. Leads(ScreenSteps, Stages, down[c] \o q, a, t)
      BY <2>3, <2>9, <1>4, LeadsOn
    <3>2. down[c] \o q \in Seq(Msg)
      BY <2>9, <1>4
    <3> QED
      BY <2>11, <2>12, <3>1, <3>2, LeadsOn
  <2>14. Stands(c, a)' /\ Expected(t)'
    BY <1>1, <2>1 DEF Stands, Expected, tabs
  <2> QED
    BY <2>2, <2>13, <2>14 DEF Follows
<1>6. ASSUME NEW d \in attached', d # c, link'[d] # "down", asked'[d] = NoResume
      PROVE  Follows(d)'
  <2>1. /\ d \in attached /\ d \in Client /\ link'[d] = link[d] /\ asked'[d] = asked[d]
        /\ gen'[d] = gen[d] /\ down'[d] = down[d] /\ store'[d] = store[d]
    BY <1>1, <1>2, <1>4, <1>6 DEF ScreenInv, Types, SocketTypes, tabs
  <2>2. Follows(d)
    BY <1>6, <2>1 DEF ScreenInv, Following
  <2>3. Pipeline(d)' = Pipeline(d)
    BY <1>1, <2>1, PipelineKept DEF pass
  <2> QED
    BY <1>1, <2>1, <2>2, <2>3, FollowsKept
<1> QED
  BY <1>3, <1>5, <1>6 DEF Following

\* Taking a message off the queue takes the first step.
LEMMA PipelineTail ==
  ASSUME Types, NEW c \in Client, NEW kind, Arriving(c, kind), Consume(c), UNCHANGED AtTab
  PROVE  /\ Pipeline(c) \in Seq(Msg) /\ Pipeline(c) # <<>>
         /\ Head(Pipeline(c)) = Head(down[c]) /\ Tail(Pipeline(c)) = Pipeline(c)'
<1>1. down[c] \in Seq(Msg) /\ down[c] # <<>>
  BY ArrivingIs
<1>2. UNCHANGED <<pass, gen>> /\ down'[c] = Tail(down[c])
  <2>1. down \in [Client -> Seq(Msg)]
    BY DEF Types, SocketTypes
  <2> QED
    BY <2>1 DEF AtTab, Consume
<1> DEFINE X == IF c \in DOMAIN todo THEN Sent(c) ELSE <<>>
<1>3. X' = X
  <2>1. frame' = frame /\ todo' = todo /\ gen' = gen
    BY <1>2 DEF pass
  <2> QED
    BY <2>1 DEF Sent, Screen, Chunks
<1>4. X \in Seq(Msg)
  <2>1. c \in DOMAIN todo => Sent(c) \in Seq(Msg)
    BY PipelineIs
  <2> QED
    BY <2>1
<1>5. Pipeline(c) = down[c] \o X /\ Pipeline(c)' = Tail(down[c]) \o X
  BY <1>2, <1>3 DEF Pipeline
<1> HIDE DEF X
<1>6. /\ down[c] \o X \in Seq(Msg) /\ down[c] \o X # <<>>
      /\ Head(down[c] \o X) = Head(down[c]) /\ Tail(down[c] \o X) = Tail(down[c]) \o X
  <2> DEFINE q == down[c]
  <2>1. q \in Seq(Msg) /\ q # <<>>
    BY <1>1
  <2> HIDE DEF q
  <2>2. Len(q) \in Nat /\ Len(q) >= 1 /\ Len(X) \in Nat /\ Len(q \o X) = Len(q) + Len(X)
    BY <2>1, <1>4
  <2>3. q \o X \in Seq(Msg) /\ q \o X # <<>> /\ Head(q \o X) = Head(q)
    BY <2>1, <2>2, <1>4
  <2>4. Tail(q \o X) = Tail(q) \o X
    <3>1. Tail(q) \in Seq(Msg) /\ Len(Tail(q)) = Len(q) - 1
      BY <2>1, <2>2
    <3>2. /\ Tail(q \o X) \in Seq(Msg) /\ Len(Tail(q \o X)) = Len(q) + Len(X) - 1
          /\ Tail(q) \o X \in Seq(Msg) /\ Len(Tail(q) \o X) = Len(q) + Len(X) - 1
      BY <2>2, <2>3, <3>1, <1>4
    <3>3. ASSUME NEW i \in 1 .. Len(q) + Len(X) - 1
          PROVE  Tail(q \o X)[i] = (Tail(q) \o X)[i]
      <4>1. Tail(q \o X)[i] = (q \o X)[i + 1]
        BY <2>2, <2>3
      <4>2. CASE i <= Len(q) - 1
        BY <4>1, <4>2, <2>1, <2>2, <3>1, <1>4
      <4>3. CASE i > Len(q) - 1
        BY <4>1, <4>3, <2>1, <2>2, <3>1, <1>4
      <4> QED
        BY <4>2, <4>3, <2>2
    <3> DEFINE A == Tail(q \o X)
               B == Tail(q) \o X
    <3>4. A \in Seq(Msg) /\ B \in Seq(Msg) /\ Len(A) = Len(B) /\ \A i \in 1 .. Len(A) : A[i] = B[i]
      BY <3>2, <3>3
    <3> HIDE DEF A, B
    <3>5. A = B
      BY <3>4
    <3> QED
      BY <3>5 DEF A, B
  <2> QED
    BY <2>3, <2>4 DEF q
<1> QED
  BY <1>5, <1>6

LEMMA ScreenFollowed ==
  ASSUME ScreenInv, NEW c \in Client, NEW kind, Arriving(c, kind), Consume(c), UNCHANGED AtTab,
         NEW st, Apply(c, st), \A d \in Client : d # c => link'[d] = link[d],
         \A s, u \in Stages : Stands(c, s) /\ ScreenStep(s, Head(down[c]), u) => Stands(c, u)'
  PROVE  Synced' /\ Following'
<1>1. /\ UNCHANGED <<screen, handler, dirty, pass, gen, attached, asked>>
      /\ store' = [store EXCEPT ![c] = st] /\ down' = [down EXCEPT ![c] = Tail(@)]
  BY DEF AtTab, Apply, Consume
<1>2. Synced'
  BY <1>1 DEF ScreenInv, Synced, Shown, handler, screen
<1>3. ASSUME c \in attached', link'[c] # "down", asked'[c] = NoResume
      PROVE  Follows(c)'
  <2>1. Follows(c)
    <3>1. link[c] # "down"
      BY DEF Arriving
    <3> QED
      BY <1>1, <1>3, <3>1 DEF ScreenInv, Following
  <2>2. PICK s \in Stages, t \in Stages :
          /\ Leads(ScreenSteps, Stages, Pipeline(c), s, t)
          /\ Stands(c, s) /\ Expected(t)
    BY <2>1 DEF Follows
  <2> DEFINE q == Pipeline(c)
  <2>3. q \in Seq(Msg) /\ q # <<>> /\ Head(q) = Head(down[c]) /\ Tail(q) = Pipeline(c)'
    BY PipelineTail DEF ScreenInv
  <2>4. Leads(ScreenSteps, Stages, q, s, t)
    BY <2>2
  <2> HIDE DEF q
  <2>5. PICK u \in Stages : <<s, Head(q), u>> \in ScreenSteps
                            /\ Leads(ScreenSteps, Stages, Tail(q), u, t)
    BY <2>3, <2>4, LeadsTail
  <2>6. ScreenStep(s, Head(down[c]), u)
    <3>1. Head(q) \in Msg
      BY <2>3
    <3>2. ScreenStep(s, Head(q), u)
      BY <2>5, <3>1, ScreenStepIs
    <3> QED
      BY <2>3, <3>2
  <2>7. Stands(c, u)'
    BY <2>2, <2>6
  <2>8. Expected(t)'
    BY <1>1, <2>2 DEF Expected, handler
  <2>9. Leads(ScreenSteps, Stages, Pipeline(c)', u, t)
    BY <2>3, <2>5
  <2> QED
    BY <2>7, <2>8, <2>9 DEF Follows
<1>4. ASSUME NEW d \in attached', d # c, link'[d] # "down", asked'[d] = NoResume
      PROVE  Follows(d)'
  <2>1. /\ d \in attached /\ d \in Client /\ link'[d] = link[d] /\ asked'[d] = asked[d]
        /\ gen'[d] = gen[d] /\ down'[d] = down[d] /\ store'[d] = store[d]
    BY <1>1, <1>4 DEF ScreenInv, Types, SocketTypes, TabTypes
  <2>2. Follows(d)
    BY <1>4, <2>1 DEF ScreenInv, Following
  <2>3. Pipeline(d)' = Pipeline(d)
    BY <1>1, <2>1, PipelineKept DEF pass
  <2> QED
    BY <1>1, <2>1, <2>2, <2>3, FollowsKept DEF handler
<1> QED
  BY <1>2, <1>3, <1>4 DEF Following

LEMMA ScreenRecv ==
  ASSUME ScreenInv, NEW c \in Client, RecvResumeAck(c) \/ RecvScreen(c) \/ RecvScroll(c)
  PROVE  Synced' /\ Following'
<1>1. link \in [Client -> {"down", "open", "acked"}] /\ store \in [Client -> Stores]
  BY DEF ScreenInv, Types, SocketTypes, TabTypes
<1> DEFINE m == Head(down[c])
<1>2. CASE RecvResumeAck(c)
  <2> DEFINE st == Resumed(store[c], epoch[c], m.epoch)
  <2>1. /\ Arriving(c, "resumeAck") /\ Consume(c) /\ UNCHANGED AtTab /\ Apply(c, st)
        /\ link' = [link EXCEPT ![c] = "acked"]
    BY <1>2 DEF RecvResumeAck
  <2>2. m.kind = "resumeAck"
    BY <2>1 DEF Arriving
  <2>3. link'[c] = "acked" /\ \A d \in Client : d # c => link'[d] = link[d]
    BY <2>1, <1>1
  <2> HIDE DEF st, m
  <2>4. ASSUME NEW s \in Stages, NEW u \in Stages, Stands(c, s), ScreenStep(s, m, u)
        PROVE  Stands(c, u)'
    BY <2>2, <2>3, <2>4 DEF ScreenStep, Stands
  <2> QED
    BY <2>1, <2>3, <2>4, ScreenFollowed DEF m
<1>3. CASE RecvScreen(c)
  <2> DEFINE st == AtScreen(c, m)
  <2>1. /\ Arriving(c, "screen") /\ Consume(c) /\ Apply(c, st)
        /\ UNCHANGED AtTab /\ link' = link
    BY <1>3, ScreenReceived
  <2>2. m \in ScreenMsg /\ m.kind = "screen" /\ link[c] \in {"open", "acked"}
    BY <2>1, <1>1, ArrivingIs DEF ScreenInv, Arriving
  <2>3. store'[c] = st
    BY <2>1, <1>1 DEF Apply
  <2> HIDE DEF m
  <2>4. ASSUME NEW s \in Stages, NEW u \in Stages, Stands(c, s), ScreenStep(s, m, u)
        PROVE  Stands(c, u)'
    <3>1. CASE link[c] = "open"
      <4>1. s.mode = "mute" /\ u = s
        BY <2>2, <2>4, <3>1 DEF Stands, ScreenStep
      <4> QED
        BY <4>1, <3>1, <2>1 DEF Stands
    <3>2. CASE link[c] = "acked"
      <4>1. s.mode # "mute"
        BY <2>4, <3>2 DEF Stands, Pictures
      <4>2. u \in Pictures /\ Carries(m, u) /\ (Whole(m) \/ (s \in Pictures /\ Fits(s, m)))
        BY <2>2, <2>4, <4>1 DEF ScreenStep
      <4>3. s \in Pictures => Shows(store[c], s)
        BY <2>4, <3>2, StagesAre DEF Stands
      <4>4. Shows(ApplyScreen(store[c], m), u)
        BY <4>2, <4>3, <2>2, <1>1, ScreenShows
      <4>5. st = ApplyScreen(store[c], m)
        BY <3>2 DEF AtScreen
      <4> QED
        BY <4>2, <4>4, <4>5, <3>2, <2>1, <2>3 DEF Stands
    <3> QED
      BY <2>2, <3>1, <3>2
  <2> HIDE DEF st
  <2>5. \A d \in Client : d # c => link'[d] = link[d]
    BY <2>1
  <2> QED
    BY <2>1, <2>4, <2>5, ScreenFollowed DEF m
<1>4. CASE RecvScroll(c)
  <2> DEFINE st == AtScroll(c, m)
  <2>1. /\ Arriving(c, "scroll") /\ Consume(c) /\ Apply(c, st)
        /\ UNCHANGED AtTab /\ link' = link
    BY <1>4 DEF RecvScroll, AtScroll
  <2>2. m \in ScrollMsg /\ m.kind = "scroll" /\ link[c] \in {"open", "acked"}
    BY <2>1, <1>1, ArrivingIs DEF ScreenInv, Arriving
  <2>3. store'[c] = st
    BY <2>1, <1>1 DEF Apply
  <2> HIDE DEF m
  <2>4. ASSUME NEW s \in Stages, NEW u \in Stages, Stands(c, s), ScreenStep(s, m, u)
        PROVE  Stands(c, u)'
    <3>1. u = s /\ (s.mode = "main" => m.first + Len(m.lines) <= s.base)
      BY <2>2, <2>4 DEF ScreenStep
    <3>2. CASE link[c] = "open"
      BY <3>1, <3>2, <2>1, <2>4 DEF Stands
    <3>3. CASE link[c] = "acked"
      <4>1. CASE s.mode = "none"
        BY <4>1, <3>1, <3>3, <2>1 DEF Stands
      <4>2. CASE s \in Pictures /\ Shows(store[c], s)
        <5>1. s.mode # "alt" => m.first + Len(m.lines) <= s.base
          BY <4>2, <3>1 DEF Pictures
        <5>2. Shows(ApplyScroll(store[c], m), s)
          BY <4>2, <5>1, <2>2, <1>1, ScrollShows
        <5>3. st = ApplyScroll(store[c], m)
          BY <3>3 DEF AtScroll
        <5> QED
          BY <4>2, <5>2, <5>3, <3>1, <3>3, <2>1, <2>3 DEF Stands
      <4> QED
        BY <4>1, <4>2, <3>3, <2>4 DEF Stands
    <3> QED
      BY <2>2, <3>2, <3>3
  <2> HIDE DEF st
  <2>5. \A d \in Client : d # c => link'[d] = link[d]
    BY <2>1
  <2> QED
    BY <2>1, <2>4, <2>5, ScreenFollowed DEF m
<1> QED
  BY <1>2, <1>3, <1>4

LEMMA ScreenReload ==
  ASSUME ScreenInv, NEW c \in Client, Reload(c)
  PROVE  Synced' /\ Following'
<1>1. /\ UNCHANGED <<screen, handler, dirty, pass, gen, attached, asked, down, link>>
      /\ link[c] = "down"
  BY DEF Reload, AtTab
<1>2. \A d \in Client : d # c => store'[d] = store[d]
  BY DEF Reload, Apply, ScreenInv, Types, TabTypes
<1>3. Synced'
  BY <1>1 DEF ScreenInv, Synced, Shown, handler, screen
<1>4. ASSUME NEW d \in attached', link'[d] # "down", asked'[d] = NoResume
      PROVE  Follows(d)'
  <2>1. d \in attached /\ d \in Client /\ d # c /\ store'[d] = store[d]
    BY <1>1, <1>2, <1>4 DEF ScreenInv, Types, SocketTypes
  <2>2. Follows(d)
    BY <1>1, <1>4, <2>1 DEF ScreenInv, Following
  <2>3. Pipeline(d)' = Pipeline(d)
    BY <1>1, PipelineKept DEF pass
  <2> QED
    BY <1>1, <2>1, <2>2, <2>3, FollowsKept DEF handler
<1> QED
  BY <1>3, <1>4 DEF Following

LEMMA ScreenInit == Init => ScreenInv
<1> SUFFICES ASSUME Init PROVE ScreenInv
  OBVIOUS
<1>1. attached = {} /\ cache = NoCache
  BY DEF Init
<1> QED
  BY <1>1, TypesInit DEF ScreenInv, Synced, Following

LEMMA ScreenNext == ScreenInv /\ [Next]_vars => ScreenInv'
<1> SUFFICES ASSUME ScreenInv, [Next]_vars PROVE ScreenInv'
  OBVIOUS
<1>1. Types'
  BY TypesNext DEF ScreenInv
<1>2. CASE \/ PrintLine \/ EraseScreen \/ EraseSaved \/ EnterAlt \/ ExitAlt
           \/ \E y \in 1 .. Height : Rewrite(y)
  BY <1>1, <1>2, ScreenChild DEF ScreenInv
<1>3. CASE Suspended
  BY <1>1, <1>3, ScreenSuspended DEF ScreenInv
<1>4. CASE BuildFrame
  BY <1>1, <1>4, ScreenBuild DEF ScreenInv
<1>5. CASE Restart
  BY <1>1, <1>5, ScreenRestart DEF ScreenInv
<1>6. ASSUME NEW c \in Client,
             \/ WritePayloads(c) \/ Attach(c) \/ Resume(c) \/ Detach(c) \/ Reap(c)
             \/ Reload(c)
             \/ RecvResumeAck(c) \/ RecvScreen(c) \/ RecvScroll(c)
      PROVE  Synced' /\ Following'
  BY <1>6, ScreenWrite, ScreenAttach, ScreenResume, ScreenDetach, ScreenReap, ScreenReload,
     ScreenRecv
<1>7. CASE UNCHANGED vars
  <2>1. UNCHANGED <<screen, handler, dirty, pass, sockets, tabs>>
    BY <1>7 DEF vars
  <2>2. Synced'
    BY <2>1 DEF ScreenInv, Synced, Shown, handler, screen, sockets
  <2>3. ASSUME NEW c \in attached', link'[c] # "down", asked'[c] = NoResume
        PROVE  Follows(c)'
    <3>1. Follows(c)
      BY <2>1, <2>3 DEF ScreenInv, Following, sockets, tabs
    <3>2. Pipeline(c)' = Pipeline(c)
      BY <2>1, PipelineKept DEF sockets, pass
    <3> QED
      BY <2>1, <3>1, <3>2, FollowsKept DEF tabs, handler
  <2> QED
    BY <1>1, <2>2, <2>3 DEF ScreenInv, Following
<1> QED
  BY <1>1, <1>2, <1>3, <1>4, <1>5, <1>6, <1>7 DEF Next, ScreenInv

LEMMA ScreenEnough == ScreenInv => ScreenShown
<1> SUFFICES ASSUME ScreenInv, NEW c \in Client, Settled(c) PROVE ShowsScreen(c)
  BY DEF ScreenShown
<1>1. link[c] = "acked" /\ c \in attached /\ ~dirty /\ frame = NoFrame /\ down[c] = <<>>
  BY DEF Settled
<1>2. asked[c] = NoResume
  BY <1>1 DEF ScreenInv, Types, SocketTypes
<1>3. PICK s \in Stages, t \in Stages :
        /\ Leads(ScreenSteps, Stages, Pipeline(c), s, t)
        /\ Stands(c, s) /\ Expected(t)
  BY <1>1, <1>2 DEF ScreenInv, Following, Follows
<1>4. s = t
  <2>1. Pipeline(c) = <<>>
    BY <1>1, PipelineIs DEF ScreenInv
  <2>2. Leads(ScreenSteps, Stages, <<>>, s, t)
    BY <1>3, <2>1
  <2> QED
    BY <2>2, LeadsEmpty, Zenon
<1>5. /\ t \in Pictures /\ t.base = Len(log) /\ t.rows = Shown /\ t.mode = mode
      /\ mode \in {"main", "alt"}
  BY <1>1, <1>3 DEF ScreenInv, Synced, Expected, Types, HandlerTypes
<1>6. Shows(store[c], t)
  BY <1>1, <1>3, <1>4, <1>5 DEF Stands
<1>7. CASE mode = "alt"
  BY <1>5, <1>6, <1>7 DEF ShowsScreen, Shows, Shown
<1>8. CASE mode = "main"
  <2>1. store[c].alt \in BOOLEAN
    BY StoreIs DEF ScreenInv, Types, TabTypes
  <2> QED
    BY <1>5, <1>6, <1>8, <2>1 DEF ShowsScreen, Shows, Shown, Committed
<1> QED
  BY <1>5, <1>7, <1>8

\* A tab that has been sent everything shows exactly the screen, however its
\* resume fell among frames that were built, dropped, muted or written out of
\* date: resumes, diffs against the cached window (diffWindow), the resumeGen
\* gate of dispatchFrame and the order of the batch fit together.
THEOREM ScreenSafe == Spec => []ScreenShown
<1>1. Spec => []ScreenInv
  BY ScreenInit, ScreenNext, PTL DEF Spec
<1> QED
  BY <1>1, ScreenEnough, PTL

-----------------------------------------------------------------------------
(* What a tab claims.  D is a set of rows that may not be claimed: the floor *)
(* lies at or below them, nothing above them was ever evicted or erased, and *)
(* the lines that are still to come start at `prov` or below and so replace   *)
(* them all.  Every index the store holds is a window's length at most above *)
(* `top`, how far the server had committed when it wrote to the tab last.    *)

Kept(st, top, prov, D) ==
  /\ \A a \in D : a >= prov /\ a >= st.floor
                  /\ a > st.evictedThrough /\ a > st.erasedThrough
  /\ st.evictedThrough < top /\ st.erasedThrough < top
  /\ \A a \in Held(st) : a < top + Height
  /\ st.win.height > 0 =>
       /\ st.win.base <= top
       /\ \A a \in D : a <= Bottom(st)
       /\ \A a \in Held(st) : a <= Bottom(st) \/ (a < top /\ D = {})

\* No row at or above `top` is missing below one that is held.
Filled(st, top) == \A a \in Held(st) : a >= top => top .. a \subseteq Held(st)

\* A store keeps more rows than a screen and an eviction take.
RoomAssumption == Height <= MaxLines - EvictionBatch(MaxLines) + 1

LEMMA KeptLess ==
  ASSUME NEW st \in Stores, NEW top \in Int, NEW prov \in Int, NEW D \in SUBSET Int,
         Kept(st, top, prov, D), NEW E \in SUBSET D, NEW t \in Int, NEW p \in Int,
         t >= top, p <= prov
  PROVE  Kept(st, t, p, E)
<1>1. Held(st) \in SUBSET Nat /\ st.win.base \in Int /\ st.win.height \in Int
      /\ st.evictedThrough \in Int /\ st.erasedThrough \in Int /\ Height \in Int
  BY StoreIs, Sizes
<1>2. \A a \in Held(st) : a < t + Height /\ (a < top => a < t)
  BY <1>1 DEF Kept
<1>3. \A a \in E : a \in D /\ a >= p
  BY DEF Kept
<1>4. st.evictedThrough < t /\ st.erasedThrough < t
  BY <1>1 DEF Kept
<1>5. st.win.height > 0 => st.win.base <= t
  BY <1>1 DEF Kept
<1>6. D = {} => E = {}
  OBVIOUS
<1> QED
  BY <1>2, <1>3, <1>4, <1>5, <1>6 DEF Kept

LEMMA FilledMore ==
  ASSUME NEW st \in Stores, NEW top \in Int, NEW t \in Int, t >= top, Filled(st, top)
  PROVE  Filled(st, t)
<1> SUFFICES ASSUME NEW a \in Held(st), a >= t PROVE t .. a \subseteq Held(st)
  BY DEF Filled
<1>1. a \in Int
  BY StoreIs
<1>2. top .. a \subseteq Held(st)
  BY <1>1 DEF Filled
<1> QED
  BY <1>1, <1>2

\* A set of numbers up to b has not many more members than those below v.
Under(S, v) == {a \in S : a < v}

LEMMA FewAbove ==
  ASSUME NEW S \in SUBSET Nat, IsFiniteSet(S), NEW v \in Int, NEW b \in Int,
         \A a \in S : a <= b, v <= b + 1
  PROVE  /\ IsFiniteSet(Under(S, v)) /\ Cardinality(Under(S, v)) \in Nat
         /\ Cardinality(S) \in Nat
         /\ Cardinality(S) <= Cardinality(Under(S, v)) + (b - v + 1)
<1> DEFINE L == Under(S, v)
           R == S \ L
           n == Cardinality(L)
           k == Cardinality(R)
<1>1. IsFiniteSet(L) /\ Cardinality(L) \in Nat /\ Cardinality(S) \in Nat
  <2>1. L \in SUBSET S
    BY DEF Under
  <2> HIDE DEF L
  <2> QED
    BY <2>1, FS_Subset, FS_CardinalityType
<1>2. R \subseteq v .. b
  <2>1. \A a \in S : a \in Int
    OBVIOUS
  <2>2. ASSUME NEW a \in R
        PROVE  a \in v .. b
    <3>1. a \in S /\ ~(a < v) /\ a \in Int /\ a <= b
      BY <2>1 DEF Under
    <3> QED
      BY <3>1
  <2> HIDE DEF R
  <2> QED
    BY <2>2
<1>3. IsFiniteSet(v .. b) /\ Cardinality(v .. b) = b - v + 1
  <2>1. IsFiniteSet(v .. b) /\ Cardinality(v .. b) = IF v > b THEN 0 ELSE b - v + 1
    BY FS_Interval
  <2> QED
    BY <2>1
<1>4. S \cap L = L
  BY DEF Under
<1> HIDE DEF L
<1>5. Cardinality(R) = Cardinality(S) - Cardinality(L)
  BY <1>4, FS_Difference
<1>6. Cardinality(R) <= Cardinality(v .. b)
  BY <1>2, <1>3, FS_Subset
<1>7. Cardinality(S) <= Cardinality(L) + (b - v + 1)
  BY <1>1, <1>3, <1>5, <1>6
<1> QED
  BY <1>1, <1>7 DEF L

\* Eviction takes no row at or above `top`, and none of D before a row that stays.
LEMMA VictimsAre ==
  ASSUME NEW st \in Stores, NEW top \in Int, NEW prov \in Int, NEW D \in SUBSET Held(st),
         Kept(st, top, prov, D), RoomAssumption
  PROVE  /\ Victims(st) \subseteq Held(st)
         /\ \A v \in Victims(st) : v < top
         /\ \A v \in Victims(st) : \A a \in D \ Victims(st) : v < a
<1> DEFINE H == Held(st)
           E == Evictable(st)
           V == Victims(st)
           n == Cardinality(H) - Target(st)
<1>1. /\ H \in SUBSET Nat /\ IsFiniteSet(H) /\ st.win.base \in Int /\ st.win.height \in Int
      /\ st.win.height \in {0, Height} /\ Height \in Int /\ Height > 0
  BY StoreIs, Sizes
<1>2. V = {a \in E : Cardinality({b \in E : b < a}) < n}
  BY DEF Victims, FirstOf
<1>3. E = {a \in H \ Window(st) : a < Highest(H) \/ (st.win.height > 0 /\ a > Bottom(st))}
  BY DEF Evictable
<1>4. V \subseteq E /\ E \subseteq H /\ IsFiniteSet(E)
  BY <1>1, <1>2, <1>3, FS_Subset
<1>5. Bottom(st) = st.win.base + st.win.height - 1 /\ Window(st) = st.win.base .. Bottom(st)
  BY DEF Bottom, Window
<1>6. Highest(H) \in Int /\ \A a \in H : a <= Highest(H)
  BY <1>1, HighestIs
<1>7. ASSUME NEW v \in V
      PROVE  v < top
  <2>1. v \in H /\ v \in Int /\ v \notin Window(st)
    BY <1>1, <1>3, <1>4
  <2>2. CASE st.win.height > 0
    <3>1. v <= Bottom(st) \/ v < top
      BY <2>1, <2>2 DEF Kept
    <3>2. st.win.base <= top
      BY <2>2 DEF Kept
    <3> QED
      BY <3>1, <3>2, <2>1, <1>1, <1>5
  <2>3. CASE ~(st.win.height > 0)
    <3>0. st.win.height = 0
      BY <2>3, <1>1
    <3>1. SUFFICES ASSUME v >= top PROVE FALSE
      BY <2>1
    <3>2. \A a \in H : a < top + Height /\ a <= top + Height - 1
      BY <1>1 DEF Kept
    <3>3. v < Highest(H)
      BY <1>3, <1>4, <2>3
    <3>4. {b \in E : b < v} = Under(H, v)
      <4>1. ASSUME NEW b \in H, b < v
            PROVE  b \in E
        <5>1. b \in Int /\ b < Highest(H)
          BY <4>1, <3>3, <2>1, <1>1, <1>6
        <5>2. b \notin Window(st)
          BY <1>5, <1>1, <3>0
        <5> QED
          BY <5>1, <5>2, <1>3
      <4> QED
        BY <4>1, <1>4 DEF Under
    <3> DEFINE L == Under(H, v)
               t == top + Height - 1
    <3>5. Cardinality(L) < n
      BY <1>2, <3>4
    <3>6. v <= t + 1 /\ t \in Int /\ \A a \in H : a <= t
      BY <2>1, <3>2, <1>1
    <3> HIDE DEF t
    <3>7. /\ Cardinality(L) \in Nat /\ Cardinality(H) \in Nat
          /\ Cardinality(H) <= Cardinality(L) + (t - v + 1)
      BY <1>1, <2>1, <3>6, FewAbove
    <3> HIDE DEF L
    <3>8. Bound(st) = MaxLines
      BY <3>0, Sizes DEF Bound, Larger
    <3>9. Target(st) = MaxLines - EvictionBatch(MaxLines) + 1 /\ Target(st) \in Int
      <4>1. EvictionBatch(MaxLines) \in Int
        BY Sizes DEF EvictionBatch, Smaller, Larger
      <4> QED
        BY <3>8, <4>1, Sizes DEF Target
    <3>10. Height <= Target(st)
      BY <3>9 DEF RoomAssumption
    <3> QED
      BY <2>1, <3>1, <3>5, <3>7, <3>9, <3>10, <1>1 DEF t
  <2> QED
    BY <2>2, <2>3
<1>8. ASSUME NEW v \in V, NEW a \in D \ V
      PROVE  v < a
  <2>1. v \in Int /\ a \in Int /\ a \in H /\ v \in H /\ v \in E
    BY <1>1, <1>4
  <2>2. SUFFICES ASSUME a < v PROVE FALSE
    BY <2>1
  <2>3. a \notin E
    <3>1. SUFFICES ASSUME a \in E PROVE FALSE
      OBVIOUS
    <3> DEFINE A == {b \in E : b < a}
               B == {b \in E : b < v}
    <3>2. A \in SUBSET B /\ B \in SUBSET E
      BY <2>1, <2>2, <1>1, <1>4
    <3>3. Cardinality(B) < n
      BY <1>2
    <3>4. ~(Cardinality(A) < n)
      BY <1>2, <3>1
    <3> HIDE DEF A, B
    <3>5. IsFiniteSet(B) /\ IsFiniteSet(A) /\ Cardinality(A) <= Cardinality(B)
      BY <3>2, <1>4, FS_Subset
    <3>6. Cardinality(A) \in Int /\ Cardinality(B) \in Int
      BY <3>5, FS_CardinalityType
    <3>7. n \in Int
      <4>1. Cardinality(H) \in Int /\ Bound(st) \in {MaxLines, st.win.height} /\ Bound(st) \in Nat
        BY <1>1, FS_CardinalityType, BoundIs, Sizes
      <4>2. EvictionBatch(Bound(st)) \in Int
        BY <4>1 DEF EvictionBatch, Smaller, Larger
      <4> QED
        BY <4>1, <4>2 DEF Target
    <3> QED
      BY <3>3, <3>4, <3>5, <3>6, <3>7
  <2>4. a < Highest(H)
    BY <2>1, <2>2, <1>6
  <2>5. a \in Window(st)
    BY <2>1, <2>3, <2>4, <1>3
  <2>6. st.win.height > 0 /\ v > Bottom(st)
    <3>1. v \notin Window(st)
      BY <2>1, <1>3
    <3>2. a >= st.win.base /\ a <= Bottom(st) /\ Bottom(st) = st.win.base + st.win.height - 1
      BY <2>5, <1>5
    <3> QED
      BY <3>1, <3>2, <2>1, <2>2, <1>1, <1>5
  <2>7. D = {}
    <3>1. v \in Held(st) /\ st.win.height > 0 /\ ~(v <= Bottom(st))
      BY <2>1, <2>6, <1>1, <1>5
    <3> QED
      BY <3>1, Zenon DEF Kept
  <2> QED
    BY <2>7
<1> QED
  BY <1>4, <1>7, <1>8

\* A store of which only rows go, up to some row below `top` and all of D.
LEMMA LessKept ==
  ASSUME NEW st \in Stores, NEW r \in Stores, NEW top \in Int, NEW prov \in Int,
         NEW D \in SUBSET Held(st), Kept(st, top, prov, D), NEW E \in SUBSET D,
         Held(r) \subseteq Held(st), r.floor = st.floor \/ \A a \in E : a >= r.floor,
         r.win = st.win, r.evictedThrough < top, r.erasedThrough < top,
         \A a \in E : a > r.evictedThrough /\ a > r.erasedThrough
  PROVE  Kept(r, top, prov, E)
<1>1. Bottom(r) = Bottom(st)
  BY DEF Bottom
<1>2. \A a \in E : a >= prov /\ a >= r.floor
  BY DEF Kept
<1>3. \A a \in Held(r) : a < top + Height
  BY DEF Kept
<1>4. st.win.height > 0 =>
        /\ st.win.base <= top
        /\ \A a \in E : a <= Bottom(st)
        /\ \A a \in Held(r) : a <= Bottom(st) \/ (a < top /\ E = {})
  BY DEF Kept
<1> QED
  BY <1>1, <1>2, <1>3, <1>4 DEF Kept

LEMMA CapKept ==
  ASSUME NEW st \in Stores, NEW top \in Nat, NEW prov \in Int, NEW D \in SUBSET Held(st),
         Kept(st, top, prov, D), RoomAssumption,
         NEW E \in SUBSET (D \cap Held(EnforceCap(st)))
  PROVE  /\ Kept(EnforceCap(st), top, prov, E)
         /\ Filled(st, top) => Filled(EnforceCap(st), top)
<1> DEFINE r == EnforceCap(st)
           V == Victims(st)
<1>1. /\ Held(st) \in SUBSET Nat /\ st.evictedThrough \in Int /\ st.erasedThrough \in Int
      /\ IsFiniteSet(Held(st))
  BY StoreIs
<1>2. \A a \in D : a > st.evictedThrough /\ a > st.erasedThrough
  BY DEF Kept
<1>3. st.evictedThrough < top /\ st.erasedThrough < top
  BY DEF Kept
<1>4. CASE r = st
  <2>1. Kept(st, top, prov, E)
    BY <1>1, KeptLess
  <2> QED
    BY <1>4, <2>1
<1>5. CASE /\ Held(r) = Held(st) \ V
           /\ r.evictedThrough = Larger(st.evictedThrough, Highest(V))
  <2>1. r \in Stores /\ Alike(r, st) /\ r.erasedThrough = st.erasedThrough
    BY CapIs
  <2>2. /\ V \subseteq Held(st)
        /\ \A v \in V : v < top
        /\ \A v \in V : \A a \in D \ V : v < a
    BY VictimsAre
  <2>3. V \in SUBSET Nat /\ IsFiniteSet(V)
    BY <2>2, <1>1, FS_Subset
  <2> HIDE DEF V
  <2>4. Highest(V) \in Int /\ (V = {} => Highest(V) = -1) /\ (V # {} => Highest(V) \in V)
    BY <2>3, HighestIs
  <2>5. r.evictedThrough \in {st.evictedThrough, Highest(V)}
    BY <1>1, <1>5, <2>4, LargerIs
  <2>6. r.evictedThrough < top
    <3>1. Highest(V) < top
      BY <2>2, <2>4
    <3> QED
      BY <3>1, <1>3, <2>5
  <2>7. \A a \in E : a > r.evictedThrough /\ a > r.erasedThrough
    <3> TAKE a \in E
    <3>1. a \in D \ V /\ a \in Nat
      BY <1>1, <1>5
    <3>2. CASE V = {}
      BY <3>1, <3>2, <1>2, <2>1, <2>4, <2>5
    <3>3. CASE V # {}
      BY <3>1, <3>3, <1>2, <2>1, <2>2, <2>4, <2>5
    <3> QED
      BY <3>2, <3>3
  <2>8. Kept(r, top, prov, E)
    <3>1. r.floor = st.floor /\ r.win = st.win
      BY <2>1 DEF Alike
    <3> HIDE DEF r
    <3>2. Held(r) \subseteq Held(st) /\ E \in SUBSET D
      BY <1>5
    <3> QED
      BY <3>1, <3>2, <2>1, <2>6, <2>7, <1>3, LessKept
  <2>9. ASSUME Filled(st, top), NEW a \in Held(r), a >= top
        PROVE  top .. a \subseteq Held(r)
    <3>1. a \in Held(st)
      BY <1>5, <2>9
    <3>2. top .. a \subseteq Held(st)
      BY <3>1, <2>9 DEF Filled
    <3>3. \A b \in top .. a : b \notin V
      BY <2>2, <2>3
    <3> QED
      BY <3>2, <3>3, <1>5
  <2> QED
    BY <2>8, <2>9 DEF Filled
<1> QED
  BY <1>4, <1>5, CapIs

\* The rows of a store that are not in G, a set of pairs of an index and a row.
Drawn(st, G) == {a \in Held(st) : <<a, st.lines[a]>> \notin G}

\* None of these is claimed.
Sound(st, top, prov, G) == Kept(st, top, prov, Drawn(st, G)) /\ Filled(st, top)

LEMMA DrawnIs ==
  ASSUME NEW st \in Stores, NEW G
  PROVE  /\ Drawn(st, G) \in SUBSET Held(st) /\ Drawn(st, G) \in SUBSET Int
         /\ \A r \in Stores : Keeps(r, st) => Drawn(r, G) \subseteq Drawn(st, G)
<1>1. Held(st) \in SUBSET Nat
  BY StoreIs
<1>2. Drawn(st, G) \in SUBSET Held(st)
  BY DEF Drawn
<1>3. ASSUME NEW r \in Stores, Keeps(r, st)
      PROVE  Drawn(r, G) \subseteq Drawn(st, G)
  BY <1>3 DEF Drawn, Keeps
<1> QED
  BY <1>1, <1>2, <1>3

\* Sound later is less to ask: history that grows, old rows that no longer count.
LEMMA SoundLess ==
  ASSUME NEW st \in Stores, NEW top \in Int, NEW prov \in Int, NEW G,
         Sound(st, top, prov, G), NEW t \in Int, NEW p \in Int, NEW F,
         t >= top, p <= prov, \A a \in Held(st) : <<a, st.lines[a]>> \in G =>
                                                   <<a, st.lines[a]>> \in F
  PROVE  Sound(st, t, p, F)
<1>1. Drawn(st, F) \in SUBSET Drawn(st, G) /\ Drawn(st, G) \in SUBSET Int
  BY DrawnIs DEF Drawn
<1>2. Kept(st, t, p, Drawn(st, F))
  BY <1>1, KeptLess DEF Sound
<1>3. Filled(st, t)
  BY FilledMore DEF Sound
<1> QED
  BY <1>2, <1>3 DEF Sound

\* A line of history written over the lowest index of D there may be.
LEMMA LineSound ==
  ASSUME NEW st \in Stores, NEW top \in Nat, NEW prov \in Int, NEW G,
         Sound(st, top, prov, G), RoomAssumption,
         NEW a \in Index, NEW row \in Row, a <= prov, <<a, row>> \in G
  PROVE  Sound(ApplyLine(st, a, row), Larger(top, a + 1), Larger(prov, a + 1), G)
<1> DEFINE r == ApplyLine(st, a, row)
           w == Written(st, a, row)
           t == Larger(top, a + 1)
           p == Larger(prov, a + 1)
           D == Drawn(st, G)
           E == Drawn(r, G)
<1>1. /\ Held(st) \in SUBSET Nat /\ st.evictedThrough \in Int /\ st.erasedThrough \in Int
      /\ a \in Int /\ a >= 0 /\ st.win.base \in Int /\ st.win.height \in Int
      /\ Bottom(st) \in Int
  <2>1. /\ Held(st) \in SUBSET Nat /\ st.evictedThrough \in Int /\ st.erasedThrough \in Int
        /\ st.win.base \in Int /\ st.win.height \in Int
    BY StoreIs
  <2> QED
    BY <2>1, Sizes DEF Index, Bottom
<1>2. t \in Nat /\ t >= top /\ t >= a + 1 /\ p \in {prov, a + 1} /\ p \in Int
  <2>1. a + 1 \in Int /\ top \in Int
    BY <1>1
  <2>2. t \in Int /\ t >= top /\ t >= a + 1 /\ p \in {prov, a + 1} /\ p \in Int
    BY <2>1, LargerIs
  <2> QED
    BY <2>2
<1>3. D \in SUBSET Held(st) /\ D \in SUBSET Int /\ \A b \in D : b >= prov
  BY DrawnIs DEF Kept, Sound
<1>4. Kept(st, top, prov, D) /\ Filled(st, top)
  BY DEF Sound
<1>5. \A b \in D : <<b, st.lines[b]>> \notin G
  BY DEF Drawn
<1> HIDE DEF t, p, D
<1>6. CASE /\ r = st
           /\ ~Admitted(st, a) \/ (a \in Held(st) /\ st.lines[a] = row)
  <2>1. a \notin D
    <3>1. CASE a \in Held(st) /\ st.lines[a] = row
      BY <3>1, <1>5
    <3>2. CASE ~Admitted(st, a)
      <4>1. ~(a > st.evictedThrough /\ a > st.erasedThrough)
        BY <3>2 DEF Admitted
      <4> QED
        BY <4>1, <1>4 DEF Kept
    <3> QED
      BY <3>1, <3>2, <1>6
  <2>2. \A b \in D : b >= p
    BY <2>1, <1>1, <1>2, <1>3
  <2>3. Kept(st, t, prov, D)
    BY <1>1, <1>2, <1>3, <1>4, KeptLess
  <2>4. Kept(st, t, p, D)
    BY <2>2, <2>3 DEF Kept
  <2>5. Filled(st, t)
    BY <1>2, <1>4, FilledMore
  <2> QED
    BY <2>4, <2>5, <1>6 DEF t, p, D, Sound
<1>7. CASE r = EnforceCap(w)
  <2> DEFINE C == D \ {a}
  <2>1. /\ w \in Stores /\ Alike(w, st) /\ w.evictedThrough = st.evictedThrough
        /\ w.erasedThrough = st.erasedThrough /\ Held(w) = Held(st) \cup {a}
        /\ w.lines[a] = row
        /\ \A b \in Held(st) : b # a => w.lines[b] = st.lines[b]
    BY WrittenIs
  <2>2. w.floor = st.floor /\ w.win = st.win /\ Bottom(w) = Bottom(st)
    BY <2>1 DEF Alike, Bottom
  <2> HIDE DEF w
  <2>3. \A b \in C : b >= p /\ b > a
    BY <1>1, <1>2, <1>3
  <2>4. Kept(w, t, p, C)
    <3>1. \A b \in C : b >= p /\ b >= w.floor /\ b > w.evictedThrough /\ b > w.erasedThrough
      BY <2>1, <2>2, <2>3, <1>4 DEF Kept
    <3>2. w.evictedThrough < t /\ w.erasedThrough < t
      BY <2>1, <1>1, <1>2, <1>4 DEF Kept
    <3>3. \A b \in Held(w) : b < t + Height
      <4>1. ASSUME NEW b \in Held(st)
            PROVE  b < t + Height
        BY <1>1, <1>2, <1>4, Sizes DEF Kept
      <4>2. a < t + Height
        BY <1>1, <1>2, Sizes
      <4> QED
        BY <4>1, <4>2, <2>1
    <3>4. ASSUME st.win.height > 0
          PROVE  /\ st.win.base <= t
                 /\ \A b \in C : b <= Bottom(st)
                 /\ \A b \in Held(w) : b <= Bottom(st) \/ (b < t /\ C = {})
      <4>1. st.win.base <= t /\ \A b \in D : b <= Bottom(st)
        BY <3>4, <1>1, <1>2, <1>4 DEF Kept
      <4>2. ASSUME NEW b \in Held(st), ~(b <= Bottom(st))
            PROVE  b < t /\ C = {}
        <5>1. b < top /\ D = {}
          BY <3>4, <4>2, <1>4 DEF Kept
        <5> QED
          BY <5>1, <1>1, <1>2
      <4>3. ASSUME ~(a <= Bottom(st))
            PROVE  a < t /\ C = {}
        <5>1. \A b \in C : FALSE
          BY <4>1, <4>3, <2>3, <1>1, <1>3
        <5> QED
          BY <5>1, <1>1, <1>2
      <4> QED
        BY <4>1, <4>2, <4>3, <2>1
    <3> QED
      BY <3>1, <3>2, <3>3, <3>4, <2>2 DEF Kept
  <2>5. Filled(w, t)
    <3> SUFFICES ASSUME NEW b \in Held(w), b >= t PROVE t .. b \subseteq Held(w)
      BY DEF Filled
    <3>1. b \in Held(st) /\ b \in Int
      BY <2>1, <1>1, <1>2
    <3>2. Filled(st, t)
      BY <1>2, <1>4, FilledMore
    <3> QED
      BY <3>1, <3>2, <2>1 DEF Filled
  <2>6. Keeps(r, w)
    BY <2>1, <1>7, CapIs
  <2>7. ASSUME NEW b \in E
        PROVE  b \in C
    <3>1. b \in Held(r) /\ <<b, r.lines[b]>> \notin G
      BY DEF Drawn
    <3>2. b \in Held(w) /\ <<b, w.lines[b]>> \notin G
      BY <3>1, <2>6 DEF Keeps
    <3>3. b # a
      BY <3>2, <2>1
    <3>4. b \in Held(st) /\ <<b, st.lines[b]>> \notin G
      BY <3>2, <3>3, <2>1
    <3> QED
      BY <3>3, <3>4 DEF D, Drawn
  <2>8. C \in SUBSET Held(w) /\ E \in SUBSET (C \cap Held(r))
    <3>1. E \subseteq Held(r)
      BY DEF Drawn
    <3> QED
      BY <3>1, <1>3, <2>1, <2>7
  <2> HIDE DEF C, E
  <2>9. Kept(r, t, p, E) /\ Filled(r, t)
    <3> HIDE DEF r
    <3>1. E \in SUBSET (C \cap Held(EnforceCap(w)))
      BY <2>8, <1>7
    <3> QED
      BY <2>1, <2>4, <2>5, <2>8, <3>1, <1>2, <1>7, CapKept
  <2> QED
    BY <2>9 DEF t, p, E, Sound
<1> QED
  BY <1>6, <1>7, LineIs

\* Lines of history from `first` on, none of them above `prov`.
LEMMA LinesSound ==
  ASSUME NEW st \in Stores, NEW top \in Nat, NEW prov \in Int, NEW G,
         Sound(st, top, prov, G), RoomAssumption,
         NEW first \in Nat, NEW rs, Len(rs) \in Nat, NEW n \in Int, n <= Len(rs), first <= prov,
         \A i \in 1 .. n : /\ rs[i] \in Row /\ first + i - 1 \in Index
                           /\ <<first + i - 1, rs[i]>> \in G
  PROVE  Sound(ApplyRows(st, first, rs, 1 .. n), Larger(top, first + Len(rs)),
               Larger(prov, first + n), G)
<1> DEFINE N    == Len(rs)
           t(k) == Larger(top, first + k)
           p(k) == Larger(prov, first + Smaller(k, n))
<1>1. PICK after : /\ Steps(after, st, first, rs, 1 .. n)
                   /\ ApplyRows(st, first, rs, 1 .. n) = after[N]
  <2> DEFINE I == 1 .. n
  <2>1. Len(rs) \in Nat
    OBVIOUS
  <2> HIDE DEF I
  <2>2. \E after : Steps(after, st, first, rs, I) /\ ApplyRows(st, first, rs, I) = after[Len(rs)]
    BY <2>1, RowsAre, Zenon
  <2> QED
    BY <2>2 DEF I
<1> DEFINE S == {k \in 0 .. N : after[k] \in Stores /\ Sound(after[k], t(k), p(k), G)}
<1>2. ASSUME NEW k \in Nat
      PROVE  /\ t(k) \in Nat /\ t(k) >= top /\ t(k) >= first + k /\ p(k) \in Int /\ p(k) >= prov
             /\ k <= n => p(k) = Larger(prov, first + k)
             /\ k > n => p(k) = Larger(prov, first + n)
  BY DEF Larger, Smaller
<1>3. t(0) = Larger(top, first) /\ p(0) = prov
  BY DEF Larger, Smaller
<1>4. ASSUME NEW k \in Nat, k >= 1
      PROVE  /\ t(k - 1) <= t(k)
             /\ k > n => p(k) = p(k - 1)
             /\ k <= n => /\ p(k) = Larger(p(k - 1), (first + k - 1) + 1)
                          /\ first + k - 1 <= p(k - 1)
             /\ t(k) = Larger(t(k - 1), (first + k - 1) + 1)
  BY <1>4 DEF Larger, Smaller
<1>5. p(N) = Larger(prov, first + n)
  BY DEF Larger, Smaller
<1> HIDE DEF t, p
<1>6. 0 \in S
  <2>1. Sound(st, t(0), prov, G)
    <3>1. \A a \in Held(st) : <<a, st.lines[a]>> \in G => <<a, st.lines[a]>> \in G
      OBVIOUS
    <3>2. t(0) \in Int /\ t(0) >= top /\ top \in Int
      BY <1>2
    <3> QED
      BY <3>1, <3>2, SoundLess
  <2> QED
    BY <2>1, <1>1, <1>3 DEF Steps
<1>7. ASSUME NEW k \in 1 .. N, k - 1 \in S
      PROVE  k \in S
  <2> DEFINE u == after[k - 1]
             a == first + k - 1
  <2>1. k \in Nat /\ k >= 1 /\ k - 1 \in Nat /\ k \in 0 .. N
    OBVIOUS
  <2>2. u \in Stores /\ Sound(u, t(k - 1), p(k - 1), G)
    BY <1>7
  <2>3. after[k] = IF k \in 1 .. n THEN ApplyLine(u, a, rs[k]) ELSE u
    BY <1>1 DEF Steps
  <2>4. t(k - 1) \in Nat /\ p(k - 1) \in Int /\ t(k) \in Int /\ p(k) \in Int
    <3>1. t(k) \in Nat /\ p(k) \in Int
      BY <2>1, <1>2, Zenon
    <3>2. t(k - 1) \in Nat /\ p(k - 1) \in Int
      BY <2>1, <1>2, Zenon
    <3> QED
      BY <3>1, <3>2
  <2> HIDE DEF u
  <2>5. CASE k \in 1 .. n
    <3>1. /\ a \in Index /\ rs[k] \in Row /\ <<a, rs[k]>> \in G /\ a <= p(k - 1)
          /\ p(k) = Larger(p(k - 1), a + 1) /\ t(k) = Larger(t(k - 1), a + 1)
      <4>1. k <= n /\ rs[k] \in Row /\ a \in Index /\ <<a, rs[k]>> \in G
        BY <2>5
      <4>2. /\ k <= n => p(k) = Larger(p(k - 1), a + 1) /\ a <= p(k - 1)
            /\ t(k) = Larger(t(k - 1), a + 1)
        BY <2>1, <1>4, Zenon
      <4> QED
        BY <4>1, <4>2
    <3> HIDE DEF a
    <3>2. Sound(ApplyLine(u, a, rs[k]), t(k), p(k), G)
      BY <2>2, <2>4, <3>1, LineSound
    <3>3. ApplyLine(u, a, rs[k]) \in Stores
      BY <2>2, <3>1, LineKeeps
    <3> QED
      BY <2>1, <2>3, <2>5, <3>2, <3>3
  <2>6. CASE k \notin 1 .. n
    <3>1. p(k) = p(k - 1) /\ t(k) >= t(k - 1)
      BY <2>1, <2>6, <1>4, <1>2
    <3>2. \A b \in Held(u) : <<b, u.lines[b]>> \in G => <<b, u.lines[b]>> \in G
      OBVIOUS
    <3>3. t(k - 1) \in Int /\ p(k) <= p(k - 1)
      BY <2>4, <3>1
    <3>4. Sound(u, t(k), p(k), G)
      BY <2>2, <2>4, <3>1, <3>2, <3>3, SoundLess
    <3> QED
      BY <2>1, <2>2, <2>3, <2>6, <3>4
  <2> QED
    BY <2>5, <2>6
<1>8. N \in S
  <2>1. N \in Nat /\ N \in 0 .. N
    OBVIOUS
  <2> HIDE DEF S, N
  <2>2. \A k \in 0 .. N : k \in S
    BY <2>1, <1>6, <1>7, Ascends
  <2> QED
    BY <2>1, <2>2
<1>9. Sound(after[N], t(N), p(N), G)
  BY <1>8
<1> QED
  BY <1>1, <1>5, <1>9 DEF t

\* The floor never passes a row that is not to be claimed.
LEMMA ConfirmSound ==
  ASSUME NEW st \in Stores, NEW top \in Int, NEW prov \in Int, NEW G,
         Sound(st, top, prov, G), NEW first \in Nat, NEW n \in Int,
         n > 0 => first + n <= MaxChunks, first + n <= prov
  PROVE  Sound(ConfirmRange(st, first, n), top, prov, G)
<1> DEFINE u == ConfirmRange(st, first, n)
           D == Drawn(st, G)
<1>1. /\ u \in Stores /\ u.lines = st.lines /\ Held(u) = Held(st) /\ u.win = st.win
      /\ u.evictedThrough = st.evictedThrough /\ u.erasedThrough = st.erasedThrough
      /\ \/ u.floor = st.floor
         \/ n > 0 /\ first <= st.floor /\ u.floor = Larger(st.floor, first + n)
         \/ /\ n > 0 /\ st.floor < Lowest(Held(st)) /\ Lowest(Held(st)) >= 0
            /\ u.floor = Larger(first + n, Lowest(Held(st)))
  BY ConfirmIs
<1> HIDE DEF u
<1>2. /\ D \in SUBSET Held(st) /\ D \in SUBSET Int /\ Held(st) \in SUBSET Nat
      /\ st.floor \in Int /\ Lowest(Held(st)) \in Int
      /\ \A a \in Held(st) : Lowest(Held(st)) <= a
      /\ \A a \in D : a >= prov /\ a >= st.floor
  BY DrawnIs, StoreIs, LowestIs DEF Sound, Kept
<1>3. Drawn(u, G) = D /\ Bottom(u) = Bottom(st)
  BY <1>1 DEF Drawn, Bottom
<1> HIDE DEF D
<1>4. \A a \in D : a >= u.floor
  <2>1. first + n \in Int
    OBVIOUS
  <2> DEFINE e == first + n
             l == Lowest(Held(st))
  <2>2. u.floor \in {st.floor, e, l}
    <3>1. Larger(st.floor, e) \in {st.floor, e} /\ Larger(e, l) \in {e, l}
      BY <2>1, <1>2, LargerIs
    <3> HIDE DEF e, l
    <3> QED
      BY <3>1, <1>1 DEF e, l
  <2>3. ASSUME NEW a \in D
        PROVE  a \in Int /\ a >= st.floor /\ a >= e /\ a >= l
    BY <1>2
  <2> HIDE DEF e, l
  <2> QED
    BY <2>2, <2>3
<1>5. Kept(st, top, prov, D) /\ Filled(st, top)
  BY DEF Sound, D
<1>6. Kept(u, top, prov, D)
  BY <1>1, <1>3, <1>4, <1>5 DEF Kept
<1>7. Filled(u, top)
  BY <1>1, <1>5 DEF Filled
<1> QED
  BY <1>3, <1>6, <1>7 DEF Sound, u

\* A scroll message, all of it taken or none of it above `prov`.
LEMMA ScrollSound ==
  ASSUME NEW st \in Stores, NEW top \in Nat, NEW prov \in Int, NEW G,
         Sound(st, top, prov, G), RoomAssumption, NEW m \in ScrollMsg, m.first <= prov,
         \A i \in 1 .. Len(m.lines) : <<m.first + i - 1, m.lines[i]>> \in G,
         \/ ~(st.alt /\ st.win.height > 0)
         \/ m.first + Len(m.lines) <= st.win.base
         \/ m.first + Len(m.lines) <= prov
  PROVE  LET end == m.first + Len(m.lines) IN
         Sound(ApplyScroll(st, m), Larger(top, end), Larger(prov, end), G)
<1> DEFINE took == Took(st, m)
           n    == Len(m.lines)
           r    == ApplyRows(st, m.first, m.lines, 1 .. took)
           u    == ApplyScroll(st, m)
           end  == m.first + n
           t    == Larger(top, end)
           p    == Larger(prov, m.first + took)
<1>1. took = Smaller(n, IF st.alt /\ st.win.height > 0 THEN st.win.base - m.first ELSE n)
  BY DEF Took
<1>2. /\ took \in Int /\ took <= n /\ 1 .. took \subseteq 1 .. n
      /\ m.first \in Nat /\ n \in Nat /\ m.first + n <= MaxChunks
      /\ \A i \in 1 .. n : m.lines[i] \in Row /\ m.first + i - 1 \in Index
      /\ u = ConfirmRange(r, m.first, took) /\ r \in Stores
  <2>1. Scrolled(st, m, took, r, u)
    BY ScrollIs, Zenon
  <2> HIDE DEF took, r, u
  <2> QED
    BY <2>1 DEF Scrolled, RowsKept
<1>3. st.win.base \in Int
  BY StoreIs
<1> HIDE DEF took, n, u
<1>4. t \in Int /\ p \in Int /\ m.first + took <= p /\ p = Larger(prov, end)
  <2>1. took = n \/ (took = st.win.base - m.first /\ end <= prov)
    <3>1. CASE ~(st.alt /\ st.win.height > 0)
      BY <3>1, <1>1, <1>2 DEF Smaller
    <3>2. CASE (st.alt /\ st.win.height > 0) /\ end <= st.win.base
      BY <3>2, <1>1, <1>2, <1>3 DEF Smaller
    <3>3. CASE (st.alt /\ st.win.height > 0) /\ end <= prov
      BY <3>3, <1>1, <1>2, <1>3 DEF Smaller
    <3> QED
      BY <3>1, <3>2, <3>3 DEF n
  <2> QED
    BY <2>1, <1>2 DEF Larger
<1>5. Sound(r, t, p, G)
  <2>1. \A i \in 1 .. took : /\ m.lines[i] \in Row /\ m.first + i - 1 \in Index
                             /\ <<m.first + i - 1, m.lines[i]>> \in G
    BY <1>2 DEF n
  <2> QED
    BY <1>2, <2>1, LinesSound DEF n
<1> HIDE DEF r, t, p
<1>6. Sound(u, t, p, G)
  <2>1. took > 0 => m.first + took <= MaxChunks
    BY <1>2, Sizes
  <2> QED
    BY <1>2, <1>4, <1>5, <2>1, ConfirmSound
<1> QED
  BY <1>4, <1>6 DEF t, u, n

\* ED3, no higher than the server had committed.
LEMMA ClearedSound ==
  ASSUME NEW st \in Stores, NEW top \in Int, NEW prov \in Int, NEW G,
         Sound(st, top, prov, G), NEW base \in Base, base <= top
  PROVE  Sound(ApplyScrollbackCleared(st, base), top, prov, G)
<1> DEFINE r == ApplyScrollbackCleared(st, base)
           D == Drawn(st, G)
           E == Drawn(r, G)
           X == Erased(st, base)
<1>1. /\ r \in Stores /\ r.win = st.win
      /\ r.floor = Larger(st.floor, base) /\ r.evictedThrough = st.evictedThrough
      /\ Held(r) = Held(st) \ X /\ Keeps(r, st)
      /\ X = {} => r.erasedThrough = st.erasedThrough
      /\ X # {} => r.erasedThrough = Larger(st.erasedThrough, Highest(X))
  BY ClearedIs
<1> HIDE DEF r
<1>2. /\ Held(st) \in SUBSET Nat /\ st.floor \in Int /\ st.erasedThrough \in Int /\ base \in Int
      /\ IsFiniteSet(Held(st))
  BY StoreIs, Sizes DEF Base
<1>3. /\ D \in SUBSET Held(st) /\ E \in SUBSET D /\ E \subseteq Held(r)
  BY <1>1, DrawnIs DEF Drawn
<1>4. X \in SUBSET Nat /\ IsFiniteSet(X) /\ (\A a \in X : a < base)
      /\ \A a \in Held(st) \ X : a >= base
  <2>1. X \in SUBSET Held(st)
    BY DEF Erased
  <2>2. IsFiniteSet(X)
    BY <2>1, <1>2, FS_Subset
  <2>3. \A a \in Held(st) : a \in Int
    BY <1>2
  <2>4. (\A a \in X : a < base) /\ \A a \in Held(st) \ X : a >= base
    BY <2>3, <1>2 DEF Erased
  <2> HIDE DEF X
  <2> QED
    BY <2>1, <2>2, <2>4, <1>2
<1> HIDE DEF X, D, E
<1>5. Highest(X) \in Int /\ (X # {} => Highest(X) < base)
  BY <1>4, HighestIs
<1>6. Kept(st, top, prov, D) /\ Filled(st, top)
  BY DEF Sound, D
<1>7. /\ r.erasedThrough \in Int
      /\ r.erasedThrough = st.erasedThrough \/ r.erasedThrough < base
  BY <1>1, <1>2, <1>5, LargerIs
<1>8. ASSUME NEW a \in E
      PROVE  a \in Int /\ a >= r.floor /\ a > r.erasedThrough /\ a > r.evictedThrough
  <2>1. a \in Int /\ a >= base
    BY <1>1, <1>2, <1>3, <1>4
  <2>2. a >= st.floor /\ a > st.erasedThrough /\ a > st.evictedThrough
    BY <1>3, <1>6 DEF Kept
  <2>3. r.floor \in {st.floor, base}
    BY <1>1, <1>2, LargerIs
  <2> QED
    BY <2>1, <2>2, <2>3, <1>1, <1>2, <1>7
<1>9. r.erasedThrough < top /\ r.evictedThrough < top
  BY <1>1, <1>2, <1>6, <1>7 DEF Kept
<1>10. Kept(r, top, prov, E)
  <2>1. Held(r) \subseteq Held(st) /\ E \in SUBSET D /\ D \in SUBSET Held(st)
    BY <1>1, <1>3
  <2> QED
    BY <2>1, <1>1, <1>6, <1>8, <1>9, LessKept
<1>11. ASSUME NEW a \in Held(r), a >= top
       PROVE  top .. a \subseteq Held(r)
  <2>1. top .. a \subseteq Held(st)
    BY <1>1, <1>6, <1>11 DEF Filled
  <2>2. \A b \in top .. a : b \notin X
    BY <1>2, <1>4
  <2> QED
    BY <2>1, <2>2, <1>1
<1> QED
  BY <1>10, <1>11 DEF Sound, Filled, E, r

\* A row of a window at or above what may not be claimed.
LEMMA RowKept ==
  ASSUME NEW st \in Stores, NEW top \in Nat, NEW prov \in Int, NEW G,
         Kept(st, top, prov, Drawn(st, G)), RoomAssumption,
         st.win.height = Height, st.floor <= st.win.base, prov <= st.win.base,
         st.win.base = top,
         NEW a \in Index, NEW row \in Row, a \in Window(st)
  PROVE  Kept(ApplyLine(st, a, row), top, prov, Drawn(ApplyLine(st, a, row), G))
<1> DEFINE r == ApplyLine(st, a, row)
           w == Written(st, a, row)
           D == Drawn(st, G)
           C == D \cup {a}
           E == Drawn(r, G)
<1>1. /\ Held(st) \in SUBSET Nat /\ st.evictedThrough \in Int /\ st.erasedThrough \in Int
      /\ a \in Int /\ st.win.base \in Int /\ st.floor \in Int /\ Height \in Int /\ Height > 0
      /\ Bottom(st) = top + Height - 1 /\ top <= a /\ a <= Bottom(st)
  <2>1. /\ Held(st) \in SUBSET Nat /\ st.evictedThrough \in Int /\ st.erasedThrough \in Int
        /\ st.win.base \in Int /\ st.floor \in Int
    BY StoreIs
  <2>2. Bottom(st) = top + Height - 1
    BY DEF Bottom
  <2> QED
    BY <2>1, <2>2, Sizes DEF Index, Window
<1>2. D \in SUBSET Held(st) /\ D \in SUBSET Int
  BY DrawnIs
<1>3. /\ \A b \in D : b >= prov /\ b >= st.floor
                      /\ b > st.evictedThrough /\ b > st.erasedThrough
      /\ st.evictedThrough < top /\ st.erasedThrough < top
      /\ \A b \in D : b <= Bottom(st)
      /\ \A b \in Held(st) : b < top + Height
  BY <1>1 DEF Kept
<1> HIDE DEF D
<1>4. CASE r = st
  BY <1>4
<1>5. CASE r = EnforceCap(w)
  <2>1. /\ w \in Stores /\ Alike(w, st) /\ w.evictedThrough = st.evictedThrough
        /\ w.erasedThrough = st.erasedThrough /\ Held(w) = Held(st) \cup {a}
        /\ w.lines[a] = row
        /\ \A b \in Held(st) : b # a => w.lines[b] = st.lines[b]
    BY WrittenIs
  <2>2. w.floor = st.floor /\ w.win = st.win /\ Bottom(w) = Bottom(st)
    BY <2>1 DEF Alike, Bottom
  <2> HIDE DEF w
  <2>3. Keeps(r, w)
    BY <2>1, <1>5, CapIs
  <2>4. ASSUME NEW b \in E
        PROVE  b \in C
    <3>1. b \in Held(r) /\ <<b, r.lines[b]>> \notin G
      BY DEF Drawn
    <3>2. b \in Held(w) /\ <<b, w.lines[b]>> \notin G
      BY <3>1, <2>3 DEF Keeps
    <3>3. b = a \/ (b \in Held(st) /\ <<b, st.lines[b]>> \notin G)
      BY <3>2, <2>1
    <3> QED
      BY <3>3 DEF D, Drawn
  <2>5. Kept(w, top, prov, C)
    <3>1. \A b \in C : b >= prov /\ b >= w.floor /\ b > w.evictedThrough /\ b > w.erasedThrough
                       /\ b <= Bottom(st)
      BY <2>1, <2>2, <1>1, <1>3
    <3>2. \A b \in Held(w) : b < top + Height /\ b <= Bottom(st)
      <4>1. \A b \in Held(st) : b \in Int
        BY <1>1
      <4> QED
        BY <4>1, <2>1, <1>1, <1>3
    <3>3. w.evictedThrough < top /\ w.erasedThrough < top /\ st.win.base <= top
      BY <2>1, <1>1, <1>3
    <3> QED
      BY <3>1, <3>2, <3>3, <2>2 DEF Kept
  <2>6. C \in SUBSET Held(w) /\ E \in SUBSET (C \cap Held(r))
    <3>1. E \subseteq Held(r)
      BY DEF Drawn
    <3> QED
      BY <3>1, <1>2, <2>1, <2>4
  <2> HIDE DEF C, E
  <2>7. Kept(r, top, prov, E)
    <3> HIDE DEF r
    <3>1. E \in SUBSET (C \cap Held(EnforceCap(w)))
      BY <2>6, <1>5
    <3> QED
      BY <2>1, <2>5, <2>6, <3>1, <1>5, CapKept
  <2> QED
    BY <2>7 DEF E
<1> QED
  BY <1>4, <1>5, LineIs

\* The window moves up to what the server has committed by now.
LEMMA MainKept ==
  ASSUME NEW st \in Stores, NEW m \in ScreenMsg, NEW top \in Nat, NEW prov \in Int, NEW G,
         Kept(st, top, prov, Drawn(st, G)), RoomAssumption, top <= m.base, prov <= m.base
  PROVE  Kept(ApplyMainRows(st, m), m.base, prov, Drawn(ApplyMainRows(st, m), G))
<1> DEFINE base == m.base
           I == m.changed
           s == Shaped(st, m)
           a == ApplyRows(s, base, m.rows, I)
           t == TruncateBelowWindow(a)
           r == EnforceCap(t)
           N == Len(m.rows)
           D(u) == Drawn(u, G)
<1>1. base \in Base /\ base \in Nat /\ base \in Int /\ Placed(base, m.rows, I)
  <2>1. m.base \in Base
    BY DEF ScreenMsg
  <2> QED
    BY <2>1, ScreenPlaced, Sizes DEF Base
<1>2. /\ s \in Stores /\ s.lines = st.lines /\ Held(s) = Held(st)
      /\ s.win = [base |-> base, height |-> Height] /\ s.floor = Smaller(st.floor, base)
      /\ s.evictedThrough = st.evictedThrough /\ s.erasedThrough = st.erasedThrough
      /\ Bottom(s) = base + Height - 1
      /\ Window(s) = base .. base + Height - 1
  BY ShapedIs
<1>3. ApplyMainRows(st, m) = r
  BY DEF ApplyMainRows, Shaped
<1> HIDE DEF s
<1>4. D(s) = D(st)
  BY <1>2 DEF Drawn
<1>5. /\ D(st) \in SUBSET Int /\ D(st) \in SUBSET Held(st) /\ Held(st) \in SUBSET Nat
      /\ st.floor \in Int /\ Height \in Int /\ Height > 0
      /\ st.evictedThrough \in Int /\ st.erasedThrough \in Int
  BY DrawnIs, StoreIs, Sizes
<1>6. Kept(s, base, prov, D(s))
  <2>1. /\ \A b \in D(st) : b >= prov /\ b >= st.floor
                            /\ b > st.evictedThrough /\ b > st.erasedThrough
        /\ st.evictedThrough < top /\ st.erasedThrough < top
        /\ \A b \in Held(st) : b < top + Height
    BY DEF Kept
  <2> HIDE DEF D, base
  <2>2. s.floor \in Int /\ s.floor <= st.floor
    BY <1>1, <1>2, <1>5, SmallerIs
  <2>3. \A b \in D(s) : b >= prov /\ b >= s.floor
                        /\ b > s.evictedThrough /\ b > s.erasedThrough
    BY <2>1, <2>2, <1>2, <1>4, <1>5
  <2>4. s.evictedThrough < base /\ s.erasedThrough < base
    BY <2>1, <1>1, <1>2, <1>5 DEF base
  <2>5. \A b \in Held(s) : b < base + Height /\ b <= Bottom(s)
    <3>1. \A b \in Held(st) : b \in Int /\ b < top + Height
      BY <2>1, <1>5
    <3>2. top <= base
      BY DEF base
    <3> QED
      BY <3>1, <3>2, <1>1, <1>2, <1>5
  <2>6. \A b \in D(s) : b <= Bottom(s)
    BY <2>5, <1>2, <1>4, <1>5
  <2> QED
    BY <2>3, <2>4, <2>5, <2>6, <1>1, <1>2 DEF Kept
<1>7. PICK after : Steps(after, s, base, m.rows, I) /\ a = after[N]
  <2>1. N \in Nat
    BY <1>1 DEF Placed
  <2> HIDE DEF s, base, I
  <2> QED
    BY <2>1, RowsAre, Zenon
<1> HIDE DEF a
<1> DEFINE S == {k \in 0 .. N : /\ after[k] \in Stores /\ after[k].floor = s.floor
                                /\ after[k].win = s.win
                                /\ Kept(after[k], base, prov, D(after[k]))}
<1>8. 0 \in S
  <2>1. 0 \in 0 .. N /\ after[0] = s
    BY <1>1, <1>7 DEF Steps, Placed
  <2> QED
    BY <2>1, <1>2, <1>6
<1>9. ASSUME NEW k \in 1 .. N, k - 1 \in S
      PROVE  k \in S
  <2> DEFINE u == after[k - 1]
             x == base + k - 1
             v == ApplyLine(u, x, m.rows[k])
  <2>1. after[k] = IF k \in I THEN v ELSE u
    BY <1>7 DEF Steps
  <2>2. /\ u \in Stores /\ u.floor = s.floor /\ u.win = s.win /\ Kept(u, base, prov, D(u))
        /\ k \in 0 .. N
    BY <1>9
  <2> HIDE DEF u
  <2>3. CASE k \in I
    <3>1. x \in Index /\ m.rows[k] \in Row
      BY <2>3, <1>1 DEF Placed
    <3>2. x \in Window(u)
      <4>1. k \in 1 .. Height
        BY <2>3 DEF ScreenMsg
      <4>2. Window(u) = base .. base + Height - 1
        BY <2>2, <1>2 DEF Window, Bottom
      <4> QED
        BY <4>1, <4>2, <1>1, <1>5
    <3>3. /\ u.win.height = Height /\ u.win.base = base
          /\ u.floor <= u.win.base /\ prov <= u.win.base
      <4>1. u.win.height = Height /\ u.win.base = base
        BY <2>2, <1>2
      <4>2. u.floor = Smaller(st.floor, base)
        BY <2>2, <1>2
      <4>3. Smaller(st.floor, base) <= base
        <5>1. base \in Int /\ st.floor \in Int
          BY <1>1, <1>5
        <5> HIDE DEF base
        <5> QED
          BY <5>1, SmallerIs
      <4> QED
        BY <4>1, <4>2, <4>3
    <3> HIDE DEF x, base, S
    <3>4. Kept(v, base, prov, D(v))
      BY <2>2, <3>1, <3>2, <3>3, <1>1, RowKept
    <3>5. v \in Stores /\ Alike(v, u)
      BY <2>2, <3>1, LineKeeps
    <3> HIDE DEF v, D
    <3> QED
      BY <2>1, <2>2, <2>3, <3>4, <3>5 DEF Alike, S
  <2>4. CASE k \notin I
    <3> HIDE DEF v, D, base, S
    <3> QED
      BY <2>1, <2>2, <2>4 DEF S
  <2> QED
    BY <2>3, <2>4
<1>10. a \in Stores /\ a.win = s.win /\ Kept(a, base, prov, D(a))
  <2>1. N \in Nat /\ N \in 0 .. N
    BY <1>1 DEF Placed
  <2> HIDE DEF S, N
  <2>2. \A k \in 0 .. N : k \in S
    BY <2>1, <1>8, <1>9, Ascends
  <2>3. N \in S
    BY <2>1, <2>2
  <2> HIDE DEF D, base
  <2> QED
    BY <2>3, <1>7 DEF S, N
<1>11. t \in Stores /\ Kept(t, base, prov, D(t))
  <2>1. /\ t \in Stores /\ Alike(t, a) /\ Keeps(t, a)
        /\ t.evictedThrough = a.evictedThrough /\ t.erasedThrough = a.erasedThrough
    BY <1>10, TruncateIs
  <2> HIDE DEF t, base
  <2>2. /\ D(a) \in SUBSET Held(a) /\ D(t) \in SUBSET D(a)
    BY <2>1, <1>10, DrawnIs
  <2> HIDE DEF D
  <2>3. /\ Held(t) \subseteq Held(a) /\ t.floor = a.floor /\ t.win = a.win
    BY <2>1 DEF Alike, Keeps
  <2>4. /\ t.evictedThrough < base /\ t.erasedThrough < base
        /\ \A b \in D(t) : b > t.evictedThrough /\ b > t.erasedThrough
    BY <2>1, <2>2, <1>10 DEF Kept
  <2> QED
    BY <2>1, <2>2, <2>3, <2>4, <1>1, <1>10, LessKept DEF base
<1> HIDE DEF t
<1>12. Kept(r, base, prov, D(r))
  <2>1. D(t) \in SUBSET Held(t)
    BY <1>11, DrawnIs
  <2>2. r \in Stores /\ Keeps(r, t)
    BY <1>11, CapIs
  <2>3. D(r) \in SUBSET (D(t) \cap Held(r))
    <3> HIDE DEF r
    <3>1. D(r) \subseteq D(t)
      BY <2>2, <1>11, DrawnIs
    <3>2. D(r) \subseteq Held(r)
      BY DEF Drawn
    <3> QED
      BY <3>1, <3>2
  <2> HIDE DEF D
  <2> QED
    BY <2>1, <2>3, <1>1, <1>11, CapKept
<1> QED
  BY <1>3, <1>12

\* Rows of the alternate screen are no lines of the store.
LEMMA AltKeeps ==
  ASSUME NEW st \in Stores, NEW m \in ScreenMsg
  PROVE  LET r == ApplyAltRows(st, m) IN
         /\ r.lines = st.lines /\ r.win = st.win /\ r.floor = st.floor /\ r.alt
         /\ r.evictedThrough = st.evictedThrough /\ r.erasedThrough = st.erasedThrough
<1> DEFINE known(y) == IF st.alt /\ y <= Len(st.altRows) THEN st.altRows[y] ELSE 0
           new == [y \in 1 .. Len(m.rows) |-> IF y \in m.changed THEN m.rows[y] ELSE known(y)]
           r   == ApplyAltRows(st, m)
<1>1. r = [st EXCEPT !.alt = TRUE, !.altRows = new]
  BY DEF ApplyAltRows
<1> HIDE DEF new, r
<1>2. /\ r.lines = st.lines /\ r.win = st.win /\ r.floor = st.floor /\ r.alt
      /\ r.evictedThrough = st.evictedThrough /\ r.erasedThrough = st.erasedThrough
  BY <1>1 DEF Stores
<1> QED
  BY <1>2 DEF r

\* A window sent after the server had committed `top` and shown in full.
LEMMA ScreenSound ==
  ASSUME NEW st \in Stores, NEW m \in ScreenMsg, NEW top \in Nat, NEW prov \in Int, NEW G,
         Sound(st, top, prov, G), RoomAssumption, top <= m.base, prov <= m.base,
         NEW p \in Pictures, Carries(m, p), Shows(ApplyScreen(st, m), p)
  PROVE  /\ Sound(ApplyScreen(st, m), m.base, prov, G)
         /\ ApplyScreen(st, m).alt <=> m.alt
         /\ m.alt => ApplyScreen(st, m).win = st.win
<1> DEFINE c == IF m.cleared THEN ApplyScrollbackCleared(st, m.base) ELSE st
           base == m.base
           r == ApplyScreen(st, m)
<1>1. base \in Base /\ base \in Nat /\ base \in Int /\ m.rows # <<>> /\ m.alt \in BOOLEAN
  <2>1. m.base \in Base /\ m.rows \in Picture /\ m.alt \in BOOLEAN
    BY DEF ScreenMsg
  <2> QED
    BY <2>1, PictureIs, Sizes DEF Base
<1>2. Sound(st, base, prov, G)
  <2>1. \A a \in Held(st) : <<a, st.lines[a]>> \in G => <<a, st.lines[a]>> \in G
    OBVIOUS
  <2>2. top \in Int /\ base \in Int /\ base >= top /\ prov <= prov
    BY <1>1
  <2> HIDE DEF base
  <2> QED
    BY <2>1, <2>2, SoundLess
<1>3. c \in Stores /\ c.win = st.win /\ Sound(c, base, prov, G)
  <2>1. CASE m.cleared
    BY <2>1, <1>1, <1>2, ClearedSound, ClearedIs
  <2>2. CASE ~m.cleared
    BY <2>2, <1>2
  <2> QED
    BY <2>1, <2>2
<1>4. r = IF m.alt THEN ApplyAltRows(c, m) ELSE ApplyMainRows(c, m)
  BY <1>1 DEF ApplyScreen
<1> HIDE DEF c
<1>5. CASE m.alt
  <2> DEFINE u == ApplyAltRows(c, m)
  <2>1. /\ u.lines = c.lines /\ u.win = c.win /\ u.floor = c.floor /\ u.alt
        /\ u.evictedThrough = c.evictedThrough /\ u.erasedThrough = c.erasedThrough
    BY <1>3, AltKeeps
  <2> HIDE DEF u, base
  <2>2. Drawn(u, G) = Drawn(c, G) /\ Bottom(u) = Bottom(c)
    BY <2>1 DEF Drawn, Bottom, Held
  <2>3. Sound(u, base, prov, G)
    <3>1. Held(u) = Held(c)
      BY <2>1 DEF Held
    <3>2. Kept(c, base, prov, Drawn(c, G)) /\ Filled(c, base)
      BY <1>3 DEF Sound
    <3>3. Kept(u, base, prov, Drawn(u, G))
      BY <3>1, <3>2, <2>1, <2>2 DEF Kept
    <3>4. Filled(u, base)
      BY <3>1, <3>2 DEF Filled
    <3> QED
      BY <3>3, <3>4 DEF Sound
  <2>4. r = u
    BY <1>4, <1>5 DEF u
  <2> QED
    BY <2>1, <2>3, <2>4, <1>3, <1>5 DEF base
<1>6. CASE ~m.alt
  <2> DEFINE u == ApplyMainRows(c, m)
  <2>1. Kept(u, base, prov, Drawn(u, G))
    BY <1>1, <1>3, MainKept DEF Sound
  <2>2. r = u
    BY <1>4, <1>6
  <2> HIDE DEF u
  <2>3. p.mode # "alt" /\ p.base = base
    BY <1>6 DEF Carries
  <2>4. ~r.alt /\ \A y \in 1 .. Height : base + y - 1 \in Held(r)
    BY <2>3 DEF Shows
  <2>5. ASSUME NEW a \in Held(u), a >= base, NEW b \in base .. a
        PROVE  b \in Held(u)
    <3>1. a \in Int
      BY <2>2, <1>3, ScreenTyped, StoreIs
    <3>2. a < base + Height
      BY <2>1 DEF Kept
    <3> DEFINE y == b - base + 1
    <3>3. y \in 1 .. Height /\ base + y - 1 = b
      <4>1. /\ base \in Int /\ Height \in Int /\ b \in Int
            /\ base <= b /\ b < base + Height
        BY <3>1, <3>2, <2>5, <1>1, Sizes
      <4> QED
        BY <4>1
    <3> HIDE DEF y
    <3> QED
      BY <3>3, <2>2, <2>4
  <2>6. Sound(u, base, prov, G)
    BY <2>1, <2>5 DEF Sound, Filled
  <2> QED
    BY <2>2, <2>4, <2>6, <1>6
<1> QED
  BY <1>5, <1>6, <1>1

\* A tab that knows nothing claims nothing.
LEMMA EmptySound ==
  ASSUME NEW top \in Nat, NEW prov, NEW G
  PROVE  Sound(EmptyStore, top, prov, G)
<1>1. /\ Held(EmptyStore) = {} /\ ~(EmptyStore.win.height > 0)
      /\ EmptyStore.evictedThrough = -1 /\ EmptyStore.erasedThrough = -1
  BY EmptyIs
<1>2. Drawn(EmptyStore, G) = {}
  BY <1>1 DEF Drawn
<1> QED
  BY <1>1, <1>2 DEF Sound, Kept, Filled

\* What comes before the resume's answer leaves at most its ED3.
LEMMA MutedSound ==
  ASSUME NEW st \in Stores, NEW m \in ScreenMsg, NEW top \in Int, NEW prov \in Int, NEW G,
         Sound(st, top, prov, G), m.cleared => m.base <= top
  PROVE  Sound(Muted(st, m), top, prov, G)
<1>1. m.base \in Base
  BY DEF ScreenMsg
<1>2. Muted(st, m) = IF m.cleared THEN ApplyScrollbackCleared(st, m.base) ELSE st
  BY MutedIs
<1>3. CASE m.cleared
  BY <1>1, <1>2, <1>3, ClearedSound
<1>4. CASE ~m.cleared
  BY <1>2, <1>4
<1> QED
  BY <1>3, <1>4

\* A snapshot keeps every row from `top` on: there are fewer than a screenful.
LEMMA RestoredSound ==
  ASSUME NEW st \in Stores, NEW top \in Nat, NEW prov \in Int, NEW G,
         Sound(st, top, prov, G), RoomAssumption
  PROVE  Sound(FromSnapshot(Snapshot(st)), top, prov, G)
<1> DEFINE r == FromSnapshot(Snapshot(st))
           H == Held(st)
           hi == Highest(H)
           T == {a \in H : a .. hi \subseteq H}
           S == Saved(st)
           E == Drawn(r, G)
<1>1. /\ r \in Stores /\ S \subseteq H
      /\ S = {} => r = EmptyStore
      /\ S # {} => /\ Held(r) = S /\ Keeps(r, st) /\ r.floor = st.floor
                   /\ r.win.height = 0 /\ ~r.alt /\ r.erasedThrough = -1
                   /\ r.evictedThrough = Lowest(S) - 1
  BY RestoredIs
<1> HIDE DEF r
<1>2. /\ H \in SUBSET Nat /\ IsFiniteSet(H) /\ hi \in Int
      /\ \A a \in H : a <= hi
      /\ H # {} => hi \in H
      /\ Height \in Int /\ Height > 0
  BY StoreIs, HighestIs, Sizes
<1>3. Kept(st, top, prov, Drawn(st, G)) /\ Filled(st, top)
  BY DEF Sound
<1>4. S = {a \in T : Cardinality({b \in T : b > a}) < MaxLines}
  BY DEF Saved, LastOf
<1>5. Height <= MaxLines /\ MaxLines \in Int
  <2>1. EvictionBatch(MaxLines) \in Int /\ EvictionBatch(MaxLines) >= 1
    BY Sizes DEF EvictionBatch, Smaller, Larger
  <2> QED
    BY <2>1, Sizes DEF RoomAssumption
<1>6. ASSUME hi >= top, hi \in H, NEW b \in top .. hi
      PROVE  b \in S
  <2>1. top .. hi \subseteq H
    BY <1>3, <1>6 DEF Filled
  <2>2. b \in T
    <3>1. b .. hi \subseteq top .. hi
      BY <1>2
    <3> QED
      BY <2>1, <3>1
  <2> DEFINE X == {x \in T : x > b}
  <2>3. X \in SUBSET (b + 1 .. hi)
    <3>1. ASSUME NEW x \in X
          PROVE  x \in b + 1 .. hi
      <4>1. x \in H /\ x > b /\ x \in Int /\ x <= hi
        BY <1>2
      <4> QED
        BY <4>1, <1>2
    <3> QED
      BY <3>1
  <2> HIDE DEF X
  <2> DEFINE v == b + 1
  <2>4. v \in Int /\ hi < top + Height /\ b >= top
    BY <1>2, <1>3, <1>6 DEF Kept
  <2> HIDE DEF v
  <2>5. IsFiniteSet(v .. hi) /\ Cardinality(v .. hi) = IF v > hi THEN 0 ELSE hi - v + 1
    BY <2>4, <1>2, FS_Interval
  <2>6. IsFiniteSet(X) /\ Cardinality(X) <= Cardinality(v .. hi)
    BY <2>3, <2>5, FS_Subset DEF v
  <2>7. Cardinality(X) \in Int
    BY <2>6, FS_CardinalityType
  <2>8. Cardinality(X) < MaxLines
    BY <2>4, <2>5, <2>6, <2>7, <1>2, <1>5 DEF v
  <2> QED
    BY <2>2, <2>8, <1>4 DEF X
<1> HIDE DEF T
<1>7. CASE S = {}
  <2>1. r = EmptyStore
    BY <1>1, <1>7
  <2> QED
    BY <2>1, EmptySound DEF r
<1>8. CASE S # {}
  <2> DEFINE l == Lowest(S)
  <2>1. S \in SUBSET Nat /\ H # {} /\ hi \in H
    BY <1>1, <1>2, <1>8
  <2>2. l \in S /\ l \in Int /\ l >= 0 /\ \A a \in S : l <= a
    BY <2>1, <1>8, LowestIs
  <2> HIDE DEF S, hi, H
  <2>3. l <= top
    <3>1. SUFFICES ASSUME l > top PROVE FALSE
      BY <2>2
    <3>2. l <= hi
      BY <2>2, <1>1, <1>2
    <3>3. l - 1 \in top .. hi /\ hi >= top
      BY <3>1, <3>2, <2>2, <1>2
    <3>4. l - 1 \in S
      BY <3>3, <2>1, <1>6
    <3> QED
      BY <3>4, <2>2
  <2>4. E \in SUBSET S /\ E \in SUBSET Drawn(st, G)
    <3>1. E \in SUBSET Held(r)
      BY DEF Drawn
    <3>2. E \subseteq Drawn(st, G)
      BY <1>1, <1>8, DrawnIs
    <3> QED
      BY <3>1, <3>2, <1>1, <1>8
  <2> HIDE DEF E, l
  <2>5. r.evictedThrough = l - 1 /\ r.erasedThrough = -1 /\ r.floor = st.floor
        /\ ~(r.win.height > 0) /\ Held(r) = S /\ S \subseteq Held(st)
    BY <1>1, <1>8 DEF l, H
  <2>6. ASSUME NEW a \in E
        PROVE  a >= prov /\ a >= r.floor /\ a > r.evictedThrough /\ a > r.erasedThrough
    <3>1. a \in Nat /\ l <= a
      BY <2>1, <2>2, <2>4
    <3>2. a >= prov /\ a >= st.floor
      BY <2>4, <1>3 DEF Kept
    <3> QED
      BY <3>1, <3>2, <2>2, <2>5
  <2>7. r.evictedThrough < top /\ r.erasedThrough < top
    BY <2>2, <2>3, <2>5
  <2>8. Kept(r, top, prov, E)
    BY <2>5, <2>6, <2>7, <1>3 DEF Kept
  <2>9. ASSUME NEW a \in Held(r), a >= top, NEW b \in top .. a
        PROVE  b \in Held(r)
    <3>1. a \in Int /\ a <= hi
      <4>1. a \in S
        BY <2>5
      <4>2. S \subseteq H /\ \A x \in H : x \in Int /\ x <= hi
        BY <1>1, <1>2
      <4> QED
        BY <4>1, <4>2
    <3>2. hi >= top /\ b \in top .. hi
      BY <3>1, <2>9, <1>2
    <3> QED
      BY <3>2, <2>1, <2>5, <1>6
  <2> QED
    BY <2>8, <2>9 DEF Sound, Filled, E, r
<1> QED
  BY <1>7, <1>8

-----------------------------------------------------------------------------
(* What a queue of messages does to a claim.  A mark says how far the server *)
(* had committed when it wrote the last message (top), up to where its lines *)
(* reach (prov), and which buffer the tab shows; under the alternate one it  *)
(* takes lines below `room`.                                                 *)

\* A row that is history, or so old that no one can read it any more.
Genuine(h, old) == {x \in Nat \X Row : x[1] < old \/ (x[1] < Len(h) /\ x[2] = h[x[1] + 1])}

\* History only grows, and is only forgotten from below.
Grows(h, old, h2, old2) ==
  /\ Len(h) <= Len(h2) /\ \A i \in 1 .. Len(h) : h2[i] = h[i]
  /\ old <= old2

LEMMA GenuineMore ==
  ASSUME NEW h \in Seq(Row), NEW h2 \in Seq(Row), NEW old \in Int, NEW old2 \in Int,
         Grows(h, old, h2, old2)
  PROVE  Genuine(h, old) \subseteq Genuine(h2, old2)
<1> SUFFICES ASSUME NEW x \in Genuine(h, old) PROVE x \in Genuine(h2, old2)
  OBVIOUS
<1>1. x \in Nat \X Row /\ (x[1] < old \/ (x[1] < Len(h) /\ x[2] = h[x[1] + 1]))
  BY DEF Genuine
<1> DEFINE a == x[1]
<1>2. a \in Nat /\ (a < old \/ (a < Len(h) /\ x[2] = h[a + 1]))
  BY <1>1
<1> HIDE DEF a
<1>3. /\ Len(h) <= Len(h2) /\ old <= old2 /\ Len(h) \in Nat /\ Len(h2) \in Nat
      /\ \A i \in 1 .. Len(h) : h2[i] = h[i]
  BY DEF Grows
<1>4. a < old2 \/ (a < Len(h2) /\ x[2] = h2[a + 1])
  <2>1. CASE a < old
    BY <2>1, <1>2, <1>3
  <2>2. CASE a < Len(h) /\ x[2] = h[a + 1]
    <3>1. a + 1 \in 1 .. Len(h)
      BY <2>2, <1>2, <1>3
    <3> QED
      BY <2>2, <3>1, <1>2, <1>3
  <2> QED
    BY <2>1, <2>2, <1>2
<1> QED
  BY <1>1, <1>4 DEF Genuine, a

Marks == [at : {"mute", "live"}, top : Nat, prov : Nat, buf : {"main", "alt"}, room : Nat]

\* The answer to the resume, from the running process.
AckMark(e, s, m, t) ==
  /\ s.at = "mute" /\ m.epoch = e
  /\ t.at = "live" /\ t.top = s.top /\ t.prov = s.prov /\ t.buf = s.buf /\ t.room = s.room

\* A window no lower than the last, nor than the lines sent so far.
WindowMark(h, s, m, t) ==
  IF s.at = "mute" THEN t = s /\ (m.cleared => m.base <= s.top)
  ELSE /\ s.top <= m.base /\ s.prov <= m.base /\ m.base <= Len(h)
       /\ t.at = "live" /\ t.top = m.base /\ t.prov = s.prov
       /\ t.buf = "alt" <=> m.alt
       /\ t.room = IF m.alt THEN s.room ELSE m.base

\* Lines of history with no gap to those before, none of them refused in part.
LinesMark(h, s, m, t) ==
  LET end == m.first + Len(m.lines) IN
  IF s.at = "mute" THEN t = s
  ELSE /\ m.first <= s.prov /\ end <= Len(h)
       /\ s.buf = "main" \/ end <= s.room \/ end <= s.prov
       /\ \A i \in 1 .. Len(m.lines) : m.lines[i] = h[m.first + i]
       /\ t.at = "live" /\ t.top = Larger(s.top, end) /\ t.prov = Larger(s.prov, end)
       /\ t.buf = s.buf /\ t.room = s.room

MarkStep(h, e, s, m, t) == CASE m.kind = "resumeAck" -> AckMark(e, s, m, t)
                             [] m.kind = "scroll"    -> LinesMark(h, s, m, t)
                             [] OTHER                -> WindowMark(h, s, m, t)
MarkSteps(h, e) == {x \in Marks \X Msg \X Marks : MarkStep(h, e, x[1], x[2], x[3])}

LEMMA MarkStepIs ==
  ASSUME NEW h, NEW e, NEW s \in Marks, NEW t \in Marks, NEW m \in Msg
  PROVE  <<s, m, t>> \in MarkSteps(h, e) <=> MarkStep(h, e, s, m, t)
<1> DEFINE x == <<s, m, t>>
<1>1. x \in Marks \X Msg \X Marks /\ x[1] = s /\ x[2] = m /\ x[3] = t
  OBVIOUS
<1> QED
  BY <1>1, Zenon DEF MarkSteps

LEMMA MarkIs ==
  ASSUME NEW s \in Marks
  PROVE  /\ s.at \in {"mute", "live"} /\ s.top \in Nat /\ s.prov \in Nat
         /\ s.buf \in {"main", "alt"} /\ s.room \in Nat
         /\ s.top \in Int /\ s.prov \in Int /\ s.room \in Int
BY DEF Marks

LEMMA MessageIs ==
  /\ \A m \in AckMsg    : m \in Msg /\ m.kind = "resumeAck" /\ m.epoch \in 1 .. MaxBoots
  /\ \A m \in ScreenMsg : m \in Msg /\ m.kind = "screen" /\ m.base \in Base /\ m.base \in Nat
                          /\ m.base \in Int
  /\ \A m \in ScrollMsg : m \in Msg /\ m.kind = "scroll" /\ m.first \in Nat
                          /\ m.lines \in Seq(Row) /\ Len(m.lines) \in Nat
                          /\ m.first + Len(m.lines) <= MaxChunks
                          /\ m.first + Len(m.lines) \in Nat
  /\ \A m \in Msg : \/ m \in AckMsg
                    \/ m \in ScreenMsg
                    \/ m \in ScrollMsg
<1>1. \A m \in AckMsg    : m \in Msg /\ m.kind = "resumeAck" /\ m.epoch \in 1 .. MaxBoots
  BY DEF AckMsg, Msg
<1>2. \A m \in ScreenMsg : m \in Msg /\ m.kind = "screen" /\ m.base \in Base
  BY DEF ScreenMsg, Msg
<1>3. \A b \in Base : b \in Nat /\ b \in Int
  BY Sizes DEF Base
<1>4. ASSUME NEW m \in ScrollMsg
      PROVE  m \in Msg /\ m.kind = "scroll" /\ m.first \in Nat
             /\ m.lines \in Seq(Row) /\ Len(m.lines) \in Nat
             /\ m.first + Len(m.lines) <= MaxChunks
  BY DEF ScrollMsg, Msg
<1>5. \A m \in Msg : m \in AckMsg \/ m \in ScreenMsg \/ m \in ScrollMsg
  BY DEF Msg
<1> QED
  BY <1>1, <1>2, <1>3, <1>4, <1>5

LEMMA StepMore ==
  ASSUME NEW h \in Seq(Row), NEW h2 \in Seq(Row), NEW e, Grows(h, 0, h2, 0)
  PROVE  MarkSteps(h, e) \subseteq MarkSteps(h2, e)
<1>1. /\ Len(h) <= Len(h2) /\ Len(h) \in Nat /\ Len(h2) \in Nat
      /\ \A i \in 1 .. Len(h) : h2[i] = h[i]
  BY DEF Grows
<1>2. ASSUME NEW s \in Marks, NEW m \in Msg, NEW t \in Marks, MarkStep(h, e, s, m, t)
      PROVE  MarkStep(h2, e, s, m, t)
  <2>1. CASE m \in AckMsg
    <3>1. m.kind = "resumeAck"
      BY <2>1, MessageIs
    <3> QED
      BY <3>1, <1>2 DEF MarkStep
  <2>2. CASE m \in ScreenMsg
    <3>1. m.kind = "screen" /\ m.base \in Int
      BY <2>2, MessageIs
    <3>2. WindowMark(h, s, m, t)
      BY <3>1, <1>2 DEF MarkStep
    <3>3. m.base <= Len(h) => m.base <= Len(h2)
      BY <3>1, <1>1
    <3>4. WindowMark(h2, s, m, t)
      BY <3>2, <3>3 DEF WindowMark
    <3> QED
      BY <3>1, <3>4 DEF MarkStep
  <2>3. CASE m \in ScrollMsg
    <3> DEFINE end == m.first + Len(m.lines)
    <3>1. m.kind = "scroll" /\ m.first \in Nat /\ Len(m.lines) \in Nat /\ end \in Nat
      BY <2>3, MessageIs
    <3>2. LinesMark(h, s, m, t)
      BY <3>1, <1>2 DEF MarkStep
    <3>3. ASSUME end <= Len(h), \A i \in 1 .. Len(m.lines) : m.lines[i] = h[m.first + i]
          PROVE  end <= Len(h2) /\ \A i \in 1 .. Len(m.lines) : m.lines[i] = h2[m.first + i]
      <4>1. \A i \in 1 .. Len(m.lines) : m.first + i \in 1 .. Len(h)
        <5>1. m.first \in Nat /\ Len(m.lines) \in Nat /\ m.first + Len(m.lines) <= Len(h)
          BY <3>1, <3>3
        <5> QED
          BY <5>1, <1>1
      <4>2. ASSUME NEW i \in 1 .. Len(m.lines)
            PROVE  m.lines[i] = h2[m.first + i]
        <5> DEFINE j == m.first + i
        <5>1. j \in 1 .. Len(h) /\ m.lines[i] = h[j]
          BY <3>3, <4>1
        <5> HIDE DEF j
        <5>2. m.lines[i] = h2[j]
          BY <5>1, <1>1
        <5> QED
          BY <5>2 DEF j
      <4>3. end <= Len(h2)
        BY <3>1, <3>3, <1>1
      <4> QED
        BY <4>2, <4>3
    <3>4. LinesMark(h2, s, m, t)
      BY <3>2, <3>3 DEF LinesMark
    <3> QED
      BY <3>1, <3>4 DEF MarkStep
  <2> QED
    BY <2>1, <2>2, <2>3, MessageIs
<1>3. ASSUME NEW x \in MarkSteps(h, e)
      PROVE  x \in MarkSteps(h2, e)
  <2>1. x \in Marks \X Msg \X Marks /\ MarkStep(h, e, x[1], x[2], x[3])
    BY DEF MarkSteps
  <2>2. x[1] \in Marks /\ x[2] \in Msg /\ x[3] \in Marks
    BY <2>1
  <2>3. MarkStep(h2, e, x[1], x[2], x[3])
    BY <2>1, <2>2, <1>2
  <2> QED
    BY <2>1, <2>3 DEF MarkSteps
<1> QED
  BY <1>3

LEMMA LeadsMore ==
  ASSUME NEW R, NEW Q, R \subseteq Q, NEW S, NEW q, NEW s, NEW t, Leads(R, S, q, s, t)
  PROVE  Leads(Q, S, q, s, t)
<1>1. PICK P : Path(R, S, q, s, t, P)
  BY DEF Leads
<1>2. Path(Q, S, q, s, t, P)
  BY <1>1 DEF Path
<1> QED
  BY <1>2 DEF Leads

\* Before the answer nothing counts but an ED3.
LEMMA MuteMarks ==
  ASSUME NEW h, NEW e, NEW q \in Seq(Msg), NEW s \in Marks, s.at = "mute",
         \A i \in 1 .. Len(q) : /\ q[i].kind # "resumeAck"
                                /\ q[i] \in ScreenMsg => q[i].base <= s.top
  PROVE  Leads(MarkSteps(h, e), Marks, q, s, s)
<1>1. ASSUME NEW i \in 1 .. Len(q)
      PROVE  <<s, q[i], s>> \in MarkSteps(h, e)
  <2>1. q[i] \in Msg /\ q[i].kind # "resumeAck"
    OBVIOUS
  <2>2. q[i] \in ScreenMsg \/ q[i] \in ScrollMsg
    BY <2>1, MessageIs
  <2>3. MarkStep(h, e, s, q[i], s)
    <3>1. CASE q[i] \in ScreenMsg
      <4>1. q[i].base <= s.top
        BY <3>1
      <4>2. WindowMark(h, s, q[i], s)
        BY <4>1 DEF WindowMark
      <4>3. q[i].kind = "screen"
        BY <3>1, MessageIs
      <4> QED
        BY <4>2, <4>3 DEF MarkStep
    <3>2. CASE q[i] \in ScrollMsg
      <4>1. LinesMark(h, s, q[i], s)
        BY DEF LinesMark
      <4>2. q[i].kind = "scroll"
        BY <3>2, MessageIs
      <4> QED
        BY <4>1, <4>2 DEF MarkStep
    <3> QED
      BY <2>2, <3>1, <3>2
  <2> QED
    BY <2>1, <2>3, MarkStepIs
<1> QED
  BY <1>1, LeadsNowhere

\* A mark of its own for each message, given what the message does to it.
MarkAt(s, at, top, prov, buf, room) ==
  /\ s \in Marks /\ s.at = at /\ s.top = top /\ s.prov = prov /\ s.buf = buf /\ s.room = room

LEMMA SomeMark ==
  ASSUME NEW at \in {"mute", "live"}, NEW top \in Nat, NEW prov \in Nat,
         NEW buf \in {"main", "alt"}, NEW room \in Nat
  PROVE  \E s \in Marks : MarkAt(s, at, top, prov, buf, room)
<1> DEFINE s == [at |-> at, top |-> top, prov |-> prov, buf |-> buf, room |-> room]
<1>1. s \in Marks
  BY DEF Marks
<1>2. MarkAt(s, at, top, prov, buf, room)
  BY <1>1 DEF MarkAt
<1> QED
  BY <1>1, <1>2

LEMMA AckMarks ==
  ASSUME NEW h, NEW e, NEW s \in Marks, s.at = "mute", NEW m \in AckMsg, m.epoch = e
  PROVE  \E t \in Marks : /\ Leads(MarkSteps(h, e), Marks, <<m>>, s, t)
                          /\ MarkAt(t, "live", s.top, s.prov, s.buf, s.room)
<1>1. s.top \in Nat /\ s.prov \in Nat /\ s.buf \in {"main", "alt"} /\ s.room \in Nat
  BY MarkIs
<1>2. PICK t \in Marks : MarkAt(t, "live", s.top, s.prov, s.buf, s.room)
  BY <1>1, SomeMark
<1>3. m \in Msg /\ m.kind = "resumeAck"
  BY MessageIs
<1>4. AckMark(e, s, m, t)
  BY <1>2 DEF AckMark, MarkAt
<1>5. MarkStep(h, e, s, m, t)
  BY <1>3, <1>4 DEF MarkStep
<1>6. <<s, m, t>> \in MarkSteps(h, e)
  BY <1>3, <1>5, MarkStepIs
<1> QED
  BY <1>2, <1>6, LeadsOne

\* A tab is in the buffer that a window shows.
Faces(t, m) == t.buf = "alt" <=> m.alt

LEMMA WindowMarks ==
  ASSUME NEW h, NEW e, NEW s \in Marks, s.at = "live", NEW m \in ScreenMsg,
         s.top <= m.base, s.prov <= m.base, m.base <= Len(h)
  PROVE  \E t \in Marks : /\ Leads(MarkSteps(h, e), Marks, <<m>>, s, t)
                          /\ t.at = "live" /\ t.top = m.base /\ t.prov = s.prov
                          /\ Faces(t, m)
<1>1. s.prov \in Nat /\ s.room \in Nat /\ m \in Msg /\ m.kind = "screen" /\ m.base \in Nat
      /\ m.alt \in BOOLEAN
  <2>1. m.alt \in BOOLEAN
    BY DEF ScreenMsg
  <2> QED
    BY <2>1, MarkIs, MessageIs
<1>2. PICK t \in Marks : /\ t.at = "live" /\ t.top = m.base /\ t.prov = s.prov
                         /\ t.buf = "alt" <=> m.alt
                         /\ t.room = IF m.alt THEN s.room ELSE m.base
  <2>1. CASE m.alt
    <3>1. PICK t \in Marks : MarkAt(t, "live", m.base, s.prov, "alt", s.room)
      BY <1>1, SomeMark
    <3> QED
      BY <3>1, <2>1 DEF MarkAt
  <2>2. CASE ~m.alt
    <3>1. PICK t \in Marks : MarkAt(t, "live", m.base, s.prov, "main", m.base)
      BY <1>1, SomeMark
    <3> QED
      BY <3>1, <2>2 DEF MarkAt
  <2> QED
    BY <2>1, <2>2
<1>3. WindowMark(h, s, m, t)
  BY <1>2 DEF WindowMark
<1>4. MarkStep(h, e, s, m, t)
  BY <1>1, <1>3 DEF MarkStep
<1>5. <<s, m, t>> \in MarkSteps(h, e)
  BY <1>1, <1>4, MarkStepIs
<1>6. Faces(t, m)
  BY <1>2, Zenon DEF Faces
<1> QED
  BY <1>2, <1>5, <1>6, LeadsOne

LEMMA LargerChain ==
  \A a, f, z \in Int : f <= z => /\ Larger(Larger(a, f), z) = Larger(a, z)
                                 /\ f <= Larger(a, f) /\ a <= Larger(a, f)
BY DEF Larger

LEMMA MarkSame ==
  ASSUME NEW u \in Marks, NEW v \in Marks, u.at = v.at, u.top = v.top, u.prov = v.prov,
         u.buf = v.buf, u.room = v.room
  PROVE  u = v
<1>1. \A w \in Marks : w = [at |-> w.at, top |-> w.top, prov |-> w.prov, buf |-> w.buf,
                            room |-> w.room]
  BY DEF Marks
<1> QED
  BY <1>1

LEMMA ChunkMarks ==
  ASSUME NEW h, NEW e, Len(h) \in Nat,
         NEW first \in Nat, NEW lines \in Seq(Row), first + Len(lines) <= MaxChunks,
         first + Len(lines) <= Len(h), \A i \in 1 .. Len(lines) : lines[i] = h[first + i],
         NEW s \in Marks, s.at = "live", first <= s.prov,
         \/ s.buf = "main"
         \/ first + Len(lines) <= s.room
         \/ first + Len(lines) <= s.prov
  PROVE  \E t \in Marks :
           /\ Leads(MarkSteps(h, e), Marks, Chunks(first, lines), s, t)
           /\ t.at = "live" /\ t.prov = Larger(s.prov, first + Len(lines))
           /\ s.top <= t.top /\ t.top <= Larger(s.top, first + Len(lines))
           /\ t.buf = s.buf /\ t.room = s.room
<1> DEFINE cs == Chunks(first, lines)
           n  == Len(cs)
           end(k) == cs[k].first + Len(cs[k].lines)
           all == first + Len(lines)
           top(k)  == IF k = 0 THEN s.top ELSE Larger(s.top, end(k))
           prov(k) == IF k = 0 THEN s.prov ELSE Larger(s.prov, end(k))
           P == [k \in 0 .. n |-> [at |-> "live", top |-> top(k), prov |-> prov(k),
                                   buf |-> s.buf, room |-> s.room]]
<1>1. /\ cs \in Seq(ScrollMsg)
      /\ Len(lines) = 0 => cs = <<>>
      /\ Len(lines) > 0 => n > 0 /\ cs[1].first = first /\ end(n) = all
      /\ \A k \in 1 .. n :
           /\ cs[k].kind = "scroll" /\ cs[k].first >= first
           /\ end(k) <= all
           /\ \A j \in 1 .. Len(cs[k].lines) :
                cs[k].lines[j] = lines[(cs[k].first - first) + j]
      /\ \A k \in 1 .. n - 1 : cs[k + 1].first = end(k)
  <2>1. CutInto(cs, first, lines)
    BY ChunksAre
  <2> HIDE DEF cs
  <2> QED
    BY <2>1 DEF CutInto
<1>2. n \in Nat /\ \A k \in 1 .. n : cs[k] \in ScrollMsg
  BY <1>1
<1>3. /\ s.top \in Nat /\ s.prov \in Nat /\ s.buf \in {"main", "alt"} /\ s.room \in Nat
      /\ all \in Nat /\ Len(lines) \in Nat
  BY MarkIs
<1> HIDE DEF cs
<1>4. ASSUME NEW k \in 1 .. n
      PROVE  /\ cs[k].first \in Nat /\ Len(cs[k].lines) \in Nat /\ end(k) \in Nat
             /\ cs[k].first <= end(k) /\ end(k) <= all /\ cs[k] \in Msg
             /\ cs[k].kind = "scroll" /\ first <= cs[k].first
  <2>1. cs[k] \in ScrollMsg
    BY <1>2
  <2>2. cs[k].first \in Nat /\ Len(cs[k].lines) \in Nat /\ cs[k] \in Msg /\ cs[k].kind = "scroll"
    BY <2>1, MessageIs
  <2>3. cs[k].first >= first /\ end(k) <= all
    BY <1>1
  <2> QED
    BY <2>2, <2>3
<1>5. ASSUME NEW k \in 0 .. n
      PROVE  top(k) \in Nat /\ prov(k) \in Nat
  <2>1. CASE k = 0
    BY <2>1, <1>3
  <2>2. CASE k # 0
    <3>1. end(k) \in Nat
      BY <2>2, <1>2, <1>4
    <3> HIDE DEF end
    <3> QED
      BY <2>2, <3>1, <1>3 DEF Larger
  <2> QED
    BY <2>1, <2>2
<1>6. ASSUME NEW k \in 0 .. n
      PROVE  MarkAt(P[k], "live", top(k), prov(k), s.buf, s.room)
  <2>1. top(k) \in Nat /\ prov(k) \in Nat
    BY <1>5
  <2> HIDE DEF top, prov
  <2> QED
    BY <2>1, <1>3 DEF MarkAt, Marks
<1> HIDE DEF P
<1>7. ASSUME NEW k \in 1 .. n
      PROVE  <<P[k - 1], cs[k], P[k]>> \in MarkSteps(h, e)
  <2> DEFINE m == cs[k]
             x == P[k - 1]
             y == P[k]
             f == m.first
             z == end(k)
  <2>1. /\ f \in Nat /\ z \in Nat /\ f <= z /\ z <= all /\ m \in Msg /\ m.kind = "scroll"
        /\ Len(m.lines) \in Nat /\ z = f + Len(m.lines) /\ first <= f
    BY <1>4
  <2>2. k - 1 \in 0 .. n /\ k \in 0 .. n
    BY <1>2
  <2>3. /\ MarkAt(x, "live", top(k - 1), prov(k - 1), s.buf, s.room)
        /\ MarkAt(y, "live", top(k), prov(k), s.buf, s.room)
    BY <2>2, <1>6
  <2>4. top(k) = Larger(s.top, z) /\ prov(k) = Larger(s.prov, z)
    OBVIOUS
  <2>5. \/ top(k - 1) = s.top /\ prov(k - 1) = s.prov /\ f = first
        \/ top(k - 1) = Larger(s.top, f) /\ prov(k - 1) = Larger(s.prov, f)
    <3>1. CASE k = 1
      <4>1. n > 0
        BY <1>2
      <4>2. Len(lines) > 0
        BY <4>1, <1>1, <1>3
      <4> QED
        BY <3>1, <4>2, <1>1
    <3>2. CASE k # 1
      <4> DEFINE i == k - 1
      <4>1. i \in 1 .. n - 1 /\ i # 0 /\ i + 1 = k
        BY <3>2, <1>2
      <4>2. f = end(i)
        BY <4>1, <1>1
      <4>3. top(i) = Larger(s.top, end(i)) /\ prov(i) = Larger(s.prov, end(i))
        BY <4>1
      <4> QED
        BY <4>2, <4>3
    <3> QED
      BY <3>1, <3>2
  <2> DEFINE a == top(k - 1)
             b == prov(k - 1)
  <2>6. a \in Nat /\ b \in Nat
    BY <2>2, <1>5
  <2> HIDE DEF top, prov, end, m, x, y
  <2>7. x.at = "live" /\ x.top = a /\ x.prov = b /\ x.buf = s.buf /\ x.room = s.room /\ x \in Marks
    BY <2>3 DEF MarkAt
  <2>8. /\ y.at = "live" /\ y.top = Larger(s.top, z) /\ y.prov = Larger(s.prov, z)
        /\ y.buf = s.buf /\ y.room = s.room /\ y \in Marks
    BY <2>3, <2>4 DEF MarkAt
  <2>9. \/ a = s.top /\ b = s.prov /\ f = first
        \/ a = Larger(s.top, f) /\ b = Larger(s.prov, f)
    BY <2>5
  <2> HIDE DEF a, b, z, f
  <2>10. f <= b /\ s.prov <= b /\ Larger(a, z) = Larger(s.top, z) /\ Larger(b, z) = Larger(s.prov, z)
    <3>1. f \in Int /\ z \in Int /\ f <= z /\ s.top \in Int /\ s.prov \in Int
      BY <2>1, <1>3
    <3>2. CASE a = s.top /\ b = s.prov /\ f = first
      BY <3>1, <3>2
    <3>3. CASE a = Larger(s.top, f) /\ b = Larger(s.prov, f)
      BY <3>1, <3>3, LargerChain
    <3> QED
      BY <3>2, <3>3, <2>9
  <2>11. s.buf = "main" \/ z <= s.room \/ z <= b
    BY <2>1, <2>6, <2>10, <1>3, SMTT(30) DEF all
  <2>12. z <= Len(h)
    BY <2>1, <1>3
  <2>13. \A i \in 1 .. Len(m.lines) : m.lines[i] = h[f + i]
    <3> SUFFICES ASSUME NEW i \in 1 .. Len(m.lines) PROVE m.lines[i] = h[f + i]
      OBVIOUS
    <3> DEFINE j == (f - first) + i
    <3>1. m.lines[i] = lines[j]
      BY <1>1 DEF m, f
    <3>2. j \in 1 .. Len(lines) /\ first + j = f + i
      BY <2>1, <1>3
    <3> HIDE DEF j
    <3>3. lines[j] = h[first + j]
      BY <3>2
    <3> QED
      BY <3>1, <3>2, <3>3
  <2>14. LinesMark(h, x, m, y)
    <3>1. f = m.first /\ z = m.first + Len(m.lines)
      BY <2>1 DEF f
    <3>2. m.first <= x.prov /\ z <= Len(h) /\ (x.buf = "main" \/ z <= x.room \/ z <= x.prov)
      BY <2>7, <2>10, <2>11, <2>12, <3>1
    <3>3. y.top = Larger(x.top, z) /\ y.prov = Larger(x.prov, z) /\ y.buf = x.buf /\ y.room = x.room
      BY <2>7, <2>8, <2>10
    <3>4. x.at # "mute"
      BY <2>7
    <3> QED
      BY <2>8, <2>13, <3>1, <3>2, <3>3, <3>4 DEF LinesMark
  <2>15. MarkStep(h, e, x, m, y)
    BY <2>1, <2>14 DEF MarkStep
  <2>16. <<x, m, y>> \in MarkSteps(h, e)
    BY <2>1, <2>7, <2>8, <2>15, MarkStepIs
  <2> QED
    BY <2>16 DEF x, m, y
<1>8. MarkAt(P[0], "live", s.top, s.prov, s.buf, s.room)
  BY <1>2, <1>6
<1>9. P[0] = s
  <2>1. /\ P[0] \in Marks /\ P[0].at = s.at /\ P[0].top = s.top /\ P[0].prov = s.prov
        /\ P[0].buf = s.buf /\ P[0].room = s.room
    BY <1>8 DEF MarkAt
  <2> QED
    BY <2>1, MarkSame
<1>10. Path(MarkSteps(h, e), Marks, cs, s, P[n], P)
  <2>1. \A k \in 0 .. n : P[k] \in Marks
    BY <1>6 DEF MarkAt
  <2> QED
    BY <2>1, <1>7, <1>9 DEF Path
<1>11. /\ P[n] \in Marks /\ P[n].at = "live" /\ P[n].buf = s.buf /\ P[n].room = s.room
       /\ P[n].top = top(n) /\ P[n].prov = prov(n)
  <2>1. n \in 0 .. n
    BY <1>2
  <2>2. MarkAt(P[n], "live", top(n), prov(n), s.buf, s.room)
    BY <2>1, <1>6
  <2> HIDE DEF top, prov
  <2> QED
    BY <2>2 DEF MarkAt
<1>12. prov(n) = Larger(s.prov, all) /\ s.top <= top(n) /\ top(n) <= Larger(s.top, all)
  <2>1. CASE Len(lines) = 0
    <3>1. n = 0 /\ all = first
      BY <2>1, <1>1, <1>3
    <3> QED
      BY <3>1, <1>3 DEF Larger
  <2>2. CASE Len(lines) # 0
    <3>1. n # 0 /\ end(n) = all
      BY <2>2, <1>1, <1>3
    <3>2. top(n) = Larger(s.top, all) /\ prov(n) = Larger(s.prov, all)
      BY <3>1
    <3> HIDE DEF top, prov, all
    <3> QED
      BY <3>2, <1>3 DEF Larger
  <2> QED
    BY <2>1, <2>2
<1>13. Leads(MarkSteps(h, e), Marks, cs, s, P[n])
  BY <1>10 DEF Leads
<1> QED
  BY <1>11, <1>12, <1>13 DEF cs

-----------------------------------------------------------------------------
(* The claims of every tab.                                                *)

Past == Genuine(log, OldestIndex)

\* What the tab will hold once it knows the process that answers.
Current(c) == IF link[c] = "open" THEN Resumed(store[c], epoch[c], boot) ELSE store[c]

Matches(st, s) == /\ s.buf = "alt" <=> st.alt
                  /\ st.win.height > 0 => s.room <= st.win.base

\* A tab whose resume the running process has answered: what is under way to it
\* makes its lines whole up to what is committed.
Live(c)   == c \in attached /\ link[c] # "down" /\ asked[c] = NoResume
Marked(c) ==
  \E s, t \in Marks :
    /\ Leads(MarkSteps(log, boot), Marks, Pipeline(c), s, t)
    /\ s.at = "mute" <=> link[c] = "open"
    /\ Sound(Current(c), s.top, s.prov, Past) /\ Matches(Current(c), s) /\ s.top <= Len(log)
    /\ t.at = "live" /\ t.prov = Len(log) /\ t.top <= Len(log)

\* A tab that has not been answered by any process holds nothing.
Pristine(c) ==
  epoch[c] = 0 => /\ link[c] # "acked" /\ Held(store[c]) = {}
                  /\ store[c].evictedThrough = -1 /\ store[c].erasedThrough = -1
                  /\ store[c].win.height = 0 /\ ~store[c].alt

\* A tab without a connection, or whose resume is under way.
Adrift(c) ==
  (link[c] = "down" \/ asked[c] # NoResume) /\ epoch[c] = boot =>
    Sound(store[c], Len(log), IF asked[c] = NoResume THEN 0 ELSE asked[c] + 1, Past)

Asking(c) ==
  asked[c] # NoResume =>
    \A i \in 1 .. Len(Pipeline(c)) :
      Pipeline(c)[i] \in ScreenMsg => Pipeline(c)[i].base <= Len(log)

\* No process answers before it runs, nor once it is replaced.
Dated(c) ==
  /\ epoch[c] <= boot
  /\ \A i \in 1 .. Len(Pipeline(c)) : Pipeline(c)[i] \in AckMsg => Pipeline(c)[i].epoch <= boot
  /\ link[c] # "down" /\ c \notin attached =>
       /\ epoch[c] # boot
       /\ \A i \in 1 .. Len(Pipeline(c)) :
            Pipeline(c)[i] \in AckMsg => Pipeline(c)[i].epoch # boot

HonestTab(c) == Pristine(c) /\ Adrift(c) /\ Asking(c) /\ Dated(c) /\ (Live(c) => Marked(c))

\* The lines of the frame being dispatched are committed.
FrameTrue ==
  frame # NoFrame => \A i \in 1 .. Len(frame.lines) : frame.lines[i] = log[frame.first + i]

HonestInv == ScreenInv /\ FrameTrue /\ \A c \in Client : HonestTab(c)

LEMMA SoundMore ==
  ASSUME NEW st \in Stores, NEW top \in Int, NEW prov \in Int, NEW G,
         Sound(st, top, prov, G), NEW t \in Int, NEW p \in Int, NEW F,
         t >= top, p <= prov, G \subseteq F
  PROVE  Sound(st, t, p, F)
<1>1. \A a \in Held(st) : <<a, st.lines[a]>> \in G => <<a, st.lines[a]>> \in F
  OBVIOUS
<1> QED
  BY <1>1, SoundLess

\* A resume asks for everything that it may not claim.
LEMMA AskedSound ==
  ASSUME NEW st \in Stores, NEW top \in Int, NEW prov \in Int, NEW G, Sound(st, top, prov, G)
  PROVE  Sound(st, top, ReplayBoundary(st) + 1, G)
<1>1. ReplayBoundary(st) \in Int /\ ReplayBoundary(st) < st.floor /\ st.floor \in Int
  BY BoundaryIs, StoreIs
<1>2. Drawn(st, G) \in SUBSET Int
  BY DrawnIs
<1>3. \A a \in Drawn(st, G) : a \in Int /\ a >= st.floor
  BY <1>2 DEF Sound, Kept
<1> DEFINE b == ReplayBoundary(st)
<1> HIDE DEF b
<1>4. \A a \in Drawn(st, G) : a >= b + 1
  BY <1>1, <1>3 DEF b
<1>5. Kept(st, top, b + 1, Drawn(st, G))
  BY <1>4 DEF Sound, Kept
<1> QED
  BY <1>5 DEF Sound, b

LEMMA OldestIs ==
  ASSUME Types
  PROVE  /\ OldestIndex \in Int /\ OldestIndex >= 0 /\ OldestIndex <= Len(log)
         /\ log \in Seq(Row) /\ Len(log) \in Nat
<1>1. log \in Seq(Row) /\ Len(log) \in Nat /\ cleared \in 0 .. Len(log) /\ Depth \in Nat
  BY CommittedIs, Sizes DEF Types, HandlerTypes
<1> QED
  BY <1>1 DEF OldestIndex, Committed, Larger

LEMMA OldestNext ==
  ASSUME Types, Types', Grows(log, OldestIndex, log', OldestIndex')
  PROVE  /\ OldestIndex \in Int /\ OldestIndex' \in Int /\ OldestIndex <= OldestIndex'
         /\ Len(log) \in Int /\ Len(log') \in Int /\ Len(log) <= Len(log')
<1>1. OldestIndex \in Int /\ Len(log) \in Int
  BY OldestIs
<1>2. cleared' \in Int /\ Len(log') \in Int /\ Depth \in Int
  BY Sizes DEF Types, HandlerTypes
<1>3. OldestIndex' \in Int
  BY <1>2 DEF OldestIndex, Committed, Larger
<1> QED
  BY <1>1, <1>2, <1>3 DEF Grows

LEMMA PastMore ==
  ASSUME Types, Types', Grows(log, OldestIndex, log', OldestIndex')
  PROVE  Past \subseteq Past'
<1>1. PICK o, l : o = OldestIndex' /\ l = log'
  OBVIOUS
<1>2. Past' = Genuine(l, o) /\ log \in Seq(Row) /\ l \in Seq(Row)
  BY <1>1 DEF Past, Types, HandlerTypes
<1>3. Genuine(log, OldestIndex) \subseteq Genuine(l, o)
  BY <1>1, <1>2, GenuineMore, OldestNext
<1> QED
  BY <1>2, <1>3 DEF Past

LEMMA TabStays ==
  ASSUME Types, Types', NEW c \in Client, HonestTab(c),
         Grows(log, OldestIndex, log', OldestIndex'),
         boot' = boot, epoch'[c] = epoch[c], link'[c] = link[c], asked'[c] = asked[c],
         store'[c] = store[c]
  PROVE  Pristine(c)' /\ Adrift(c)'
<1>1. /\ Past \subseteq Past' /\ store[c] \in Stores /\ Len(log) \in Int /\ Len(log') \in Int
      /\ Len(log) <= Len(log') /\ asked[c] \in Int
  BY PastMore, OldestNext DEF Types, TabTypes, SocketTypes
<1>2. PICK F : F = Past'
  OBVIOUS
<1>3. PICK n \in Int : n = Len(log')
  BY <1>1
<1>4. Pristine(c)'
  BY DEF HonestTab, Pristine
<1>5. Adrift(c)'
  <2> DEFINE prov == IF asked[c] = NoResume THEN 0 ELSE asked[c] + 1
  <2>1. SUFFICES ASSUME link[c] = "down" \/ asked[c] # NoResume, epoch[c] = boot
                 PROVE  Sound(store[c], n, prov, F)
    BY <1>2, <1>3 DEF Adrift
  <2>2. Sound(store[c], Len(log), prov, Past)
    BY <2>1 DEF HonestTab, Adrift
  <2>3. prov \in Int /\ prov <= prov /\ Past \subseteq F /\ n >= Len(log)
    BY <1>1, <1>2, <1>3
  <2> HIDE DEF prov
  <2> QED
    BY <2>2, <2>3, <1>1, SoundMore
<1> QED
  BY <1>4, <1>5

\* A tab that nothing happens to, while the server goes on without it.
LEMMA TabKept ==
  ASSUME Types, Types', NEW c \in Client, HonestTab(c),
         Grows(log, OldestIndex, log', OldestIndex'), log' = log \/ ~Live(c),
         boot' = boot, epoch'[c] = epoch[c], link'[c] = link[c], asked'[c] = asked[c],
         store'[c] = store[c], link[c] = "down" \/ (c \in attached' <=> c \in attached),
         Pipeline(c)' = Pipeline(c)
  PROVE  HonestTab(c)'
<1>1. /\ Past \subseteq Past' /\ store[c] \in Stores /\ Len(log) \in Int /\ Len(log') \in Int
      /\ Len(log) <= Len(log') /\ asked[c] \in Int
  BY PastMore, OldestNext DEF Types, TabTypes, SocketTypes
<1>2. PICK F : F = Past'
  OBVIOUS
<1>3. PICK n \in Int : n = Len(log')
  BY <1>1
<1>4. PICK q : q = Pipeline(c) /\ q = Pipeline(c)'
  OBVIOUS
<1>5. Pristine(c)' /\ Adrift(c)'
  BY TabStays
<1>7. Asking(c)'
  <2>1. SUFFICES ASSUME asked[c] # NoResume, NEW i \in 1 .. Len(q), q[i] \in ScreenMsg
                 PROVE  q[i].base <= n
    BY <1>3, <1>4 DEF Asking
  <2>2. q[i].base <= Len(log)
    BY <2>1, <1>4 DEF HonestTab, Asking
  <2>3. q[i].base \in Int
    BY <2>1, MessageIs
  <2> QED
    BY <2>2, <2>3, <1>1, <1>3
<1>8. Dated(c)'
  <2>1. Dated(c)
    BY DEF HonestTab
  <2> QED
    BY <2>1, <1>4 DEF Dated
<1>9. ASSUME Live(c)'
      PROVE  Marked(c)'
  <2>1. Live(c) /\ log' = log
    BY <1>9 DEF Live
  <2>2. PICK s \in Marks, t \in Marks :
          /\ Leads(MarkSteps(log, boot), Marks, Pipeline(c), s, t)
          /\ s.at = "mute" <=> link[c] = "open"
          /\ Sound(Current(c), s.top, s.prov, Past) /\ Matches(Current(c), s)
          /\ s.top <= Len(log) /\ t.at = "live" /\ t.prov = Len(log) /\ t.top <= Len(log)
    BY <2>1 DEF HonestTab, Marked
  <2>3. Current(c)' = Current(c)
    BY DEF Current
  <2>4. Current(c) \in Stores
    BY <1>1, EmptyIs DEF Current, Resumed
  <2>5. s.top \in Int /\ s.prov \in Int /\ s.top >= s.top /\ s.prov <= s.prov /\ Past \subseteq F
    BY <1>1, <1>2, MarkIs
  <2>6. PICK u : u = Current(c)
    OBVIOUS
  <2>7. Sound(u, s.top, s.prov, F)
    BY <2>2, <2>4, <2>5, <2>6, SoundMore
  <2>8. Matches(u, s) /\ Leads(MarkSteps(log, boot), Marks, q, s, t)
    BY <2>2, <2>6, <1>4
  <2>9. u = Current(c)'
    BY <2>3, <2>6
  <2> QED
    BY <2>1, <2>2, <2>7, <2>8, <2>9, <1>2, <1>4 DEF Marked
<1> QED
  BY <1>5, <1>7, <1>8, <1>9 DEF HonestTab

LEMMA OldestMore ==
  ASSUME Types, Types', Len(log) <= Len(log'), \A i \in 1 .. Len(log) : log'[i] = log[i],
         cleared <= cleared'
  PROVE  Grows(log, OldestIndex, log', OldestIndex')
<1>1. /\ Len(log) \in Int /\ Len(log') \in Int /\ cleared \in Int /\ cleared' \in Int
      /\ Depth \in Int
  BY Sizes DEF Types, HandlerTypes
<1>2. OldestIndex <= OldestIndex'
  BY <1>1 DEF OldestIndex, Committed, Larger
<1> QED
  BY <1>2 DEF Grows

LEMMA FrameKept ==
  ASSUME Types, FrameTrue, frame' = frame \/ frame' = NoFrame,
         Len(log) <= Len(log'), Len(log') \in Int, \A i \in 1 .. Len(log) : log'[i] = log[i]
  PROVE  FrameTrue'
<1> SUFFICES ASSUME frame' # NoFrame, NEW i \in 1 .. Len(frame'.lines)
             PROVE  frame'.lines[i] = log'[frame'.first + i]
  BY DEF FrameTrue
<1>1. frame' = frame /\ frame # NoFrame
  OBVIOUS
<1>2. frame \in Frames /\ frame.base <= Len(log)
  BY <1>1 DEF Types, PassTypes
<1>3. /\ frame.first \in Nat /\ frame.lines \in Seq(Row) /\ frame.base \in Nat
      /\ frame.first + Len(frame.lines) = frame.base
  BY <1>2, FrameIs
<1>4. Len(log) \in Int
  BY LogIs
<1> DEFINE j == frame.first + i
<1>5. j \in 1 .. Len(log)
  BY <1>1, <1>2, <1>3, <1>4
<1>6. frame.lines[i] = log[j]
  BY <1>1 DEF FrameTrue
<1> HIDE DEF j
<1>7. log'[j] = log[j]
  BY <1>5
<1> QED
  BY <1>1, <1>6, <1>7 DEF j

LEMMA ClaimSound ==
  ASSUME Types, NEW c \in Client, HonestTab(c), epoch[c] = boot
  PROVE  \E prov \in Int : Sound(store[c], Len(log), prov, Past)
<1>1. store[c] \in Stores /\ Len(log) \in Int /\ asked[c] \in Int
  BY LogIs DEF Types, TabTypes, SocketTypes
<1>2. CASE link[c] = "down" \/ asked[c] # NoResume
  <2> DEFINE prov == IF asked[c] = NoResume THEN 0 ELSE asked[c] + 1
  <2>1. Sound(store[c], Len(log), prov, Past)
    BY <1>2 DEF HonestTab, Adrift
  <2>2. prov \in Int
    BY <1>1
  <2> HIDE DEF prov
  <2> QED
    BY <2>1, <2>2
<1>3. CASE link[c] # "down" /\ asked[c] = NoResume
  <2>1. c \in attached
    BY <1>3 DEF HonestTab, Dated
  <2>2. Live(c)
    BY <1>3, <2>1 DEF Live
  <2>3. PICK s \in Marks : /\ Sound(Current(c), s.top, s.prov, Past)
                           /\ s.top <= Len(log)
    BY <2>2 DEF HonestTab, Marked
  <2>4. Current(c) = store[c]
    BY DEF Current, Resumed
  <2>5. s.top \in Int /\ s.prov \in Int /\ Len(log) >= s.top /\ s.prov <= s.prov
        /\ Past \subseteq Past
    BY <2>3, <1>1, MarkIs
  <2>6. Sound(store[c], Len(log), s.prov, Past)
    BY <2>3, <2>4, <2>5, <1>1, SoundMore
  <2> QED
    BY <2>5, <2>6
<1> QED
  BY <1>2, <1>3

LEMMA ClaimFromZero ==
  ASSUME NEW st \in Stores, NEW top \in Int, NEW prov \in Int, NEW G, Sound(st, top, prov, G)
  PROVE  Sound(st, top, 0, G)
<1>1. Held(st) \in SUBSET Nat /\ Drawn(st, G) \in SUBSET Held(st)
  BY StoreIs, DrawnIs
<1>2. \A a \in Drawn(st, G) : a >= 0
  BY <1>1
<1>3. Kept(st, top, 0, Drawn(st, G))
  BY <1>2 DEF Sound, Kept
<1> QED
  BY <1>3 DEF Sound

LEMMA QuietPipeline ==
  ASSUME NEW c, c \notin DOMAIN todo', down'[c] = <<>>
  PROVE  Pipeline(c)' = <<>> /\ Len(Pipeline(c)') = 0
<1>1. Pipeline(c)' = <<>> \o <<>>
  BY DEF Pipeline
<1> QED
  BY <1>1

\* A step that is not the tab's own.
Untouched(d) ==
  /\ epoch'[d] = epoch[d] /\ link'[d] = link[d] /\ asked'[d] = asked[d]
  /\ store'[d] = store[d] /\ gen'[d] = gen[d] /\ down'[d] = down[d]
  /\ link[d] = "down" \/ (d \in attached' <=> d \in attached)
  /\ log' = log \/ ~Live(d)
  /\ d \in DOMAIN todo <=> d \in DOMAIN todo'
  /\ d \in DOMAIN todo => todo'[d] = todo[d] /\ frame' = frame

OwnStep(d) == \/ WritePayloads(d) \/ Attach(d) \/ Resume(d) \/ Detach(d) \/ Reload(d)
              \/ RecvResumeAck(d) \/ RecvScreen(d) \/ RecvScroll(d)

\* What the runs' mishaps leave out.
LEMMA ResumeSpared ==
  ASSUME NEW c \in Client, Resume(c), Mishaps \cap {"altReturn", "sharedDrain"} = {}
  PROVE  /\ ~(BackInAlt(c) /\ Len(Lines) > store[c].win.base)
         /\ ScrollOut = <<>> \/ Others(c) = {}
BY DEF Resume, Lines

\* What every step of the running process keeps.
LEMMA Onward ==
  ASSUME Types, Types', [Next]_vars, ~Restart
  PROVE  /\ Grows(log, OldestIndex, log', OldestIndex') /\ boot' = boot
         /\ FrameTrue /\ ~BuildFrame => FrameTrue'
         /\ \A d \in Client : HonestTab(d) /\ Untouched(d) => HonestTab(d)'
<1>1. /\ cleared' \in {cleared, Len(log)} /\ boot' = boot
      /\ log' = log \/ log' = log \o ScrollOut
      /\ BuildFrame \/ frame' = frame \/ frame' = NoFrame
  <2>1. CASE \/ PrintLine \/ EraseScreen \/ EraseSaved \/ EnterAlt \/ ExitAlt
             \/ \E y \in 1 .. Height : Rewrite(y)
    BY <2>1, HandlerChild DEF PrintLine, EraseScreen, EraseSaved, EnterAlt, ExitAlt, Rewrite,
       handler, sockets, pass, Committed, Types
  <2>2. CASE Suspended \/ UNCHANGED vars
    BY <2>2 DEF Suspended, vars, handler, pass, sockets
  <2>3. CASE BuildFrame
    BY <2>3, BuildIs DEF sockets, Types
  <2>4. ASSUME NEW c \in Client, Resume(c)
        PROVE  cleared' = cleared /\ boot' = boot /\ log' = log \o ScrollOut /\ frame' = frame
    BY <2>4, ResumeIs DEF Lines, pass
  <2>5. ASSUME NEW c \in Client, WritePayloads(c) \/ Detach(c)
        PROVE  /\ cleared' = cleared /\ boot' = boot /\ log' = log
               /\ frame' = frame \/ frame' = NoFrame
    BY <2>5, ServedIs DEF WritePayloads, Detach, handler, pass, Types
  <2>6. ASSUME NEW c \in Client,
               \/ Attach(c) \/ Reap(c) \/ Reload(c)
               \/ RecvResumeAck(c) \/ RecvScreen(c) \/ RecvScroll(c)
        PROVE  cleared' = cleared /\ boot' = boot /\ log' = log /\ frame' = frame
    BY <2>6 DEF Attach, Reap, Reload, RecvResumeAck, RecvScreen, RecvScroll, AtTab, handler, pass
  <2> QED
    BY <2>1, <2>2, <2>3, <2>4, <2>5, <2>6 DEF Next
<1>2. /\ cleared <= cleared' /\ Len(log) <= Len(log') /\ Len(log') \in Int
      /\ \A i \in 1 .. Len(log) : log'[i] = log[i]
  BY <1>1, CommittedIs, Sizes DEF Types, HandlerTypes
<1>3. Grows(log, OldestIndex, log', OldestIndex')
  BY <1>2, OldestMore
<1>4. ASSUME NEW d \in Client, HonestTab(d), Untouched(d)
      PROVE  HonestTab(d)'
  <2>1. Pipeline(d)' = Pipeline(d)
    BY <1>4, PipelineKept DEF Untouched
  <2> QED
    BY <1>1, <1>3, <1>4, <2>1, TabKept DEF Untouched
<1> QED
  BY <1>1, <1>2, <1>3, <1>4, FrameKept

LEMMA Beside ==
  ASSUME Types, Mishaps \cap {"altReturn", "sharedDrain"} = {}, [Next]_vars, ~Restart,
         NEW d \in Client, ~OwnStep(d),
         BuildFrame => d \notin Reached \/ UNCHANGED <<pass, log>>
  PROVE  Untouched(d)
<1>1. /\ asked \in [Client -> Int] /\ link \in [Client -> {"down", "open", "acked"}]
      /\ gen \in [Client -> Nat] /\ down \in [Client -> Seq(Msg)]
      /\ epoch \in [Client -> 0 .. MaxBoots] /\ store \in [Client -> Stores] /\ PassTypes
      /\ HandlerTypes
  BY DEF Types, SocketTypes, TabTypes
<1>2. CASE \/ PrintLine \/ EraseScreen \/ EraseSaved \/ EnterAlt \/ ExitAlt
           \/ \E y \in 1 .. Height : Rewrite(y)
  BY <1>1, <1>2, HandlerChild DEF Untouched, pass, sockets, tabs
<1>3. CASE Suspended \/ UNCHANGED vars
  BY <1>3 DEF Suspended, vars, handler, pass, sockets, tabs, Untouched, Live
<1>4. CASE BuildFrame
  <2>1. /\ frame = NoFrame /\ UNCHANGED <<sockets, tabs>>
        /\ \/ UNCHANGED pass /\ (log' = log \/ Reached = {})
           \/ DOMAIN todo' = Reached
    BY <1>1, <1>4, BuildIs
  <2>2. d \notin DOMAIN todo /\ (d \notin Reached => ~Live(d))
    BY <1>1, <2>1 DEF PassTypes, Reached, Live
  <2> QED
    BY <2>1, <2>2, <1>4 DEF Untouched, pass, sockets, tabs
<1>5. ASSUME NEW c \in Client, Attach(c) \/ Reap(c) \/ Reload(c), ~Attach(d), ~Reload(d)
      PROVE  Untouched(d)
  BY <1>1, <1>5 DEF Attach, Reap, Reload, Apply, AtTab, handler, pass, tabs, Untouched
<1>6. ASSUME NEW c \in Client, c # d, WritePayloads(c) \/ Detach(c)
      PROVE  Untouched(d)
  <2>1. /\ d \in DOMAIN todo <=> d \in DOMAIN todo'
        /\ d \in DOMAIN todo => todo'[d] = todo[d] /\ frame' = frame
    <3>1. (c \in DOMAIN todo /\ Served(c)) \/ UNCHANGED pass
      BY <1>6 DEF WritePayloads, Detach
    <3> QED
      BY <1>1, <1>6, <3>1, ServedIs DEF pass
  <2> QED
    BY <1>1, <1>6, <2>1 DEF WritePayloads, Detach, handler, tabs, Untouched
<1>7. ASSUME NEW c \in Client, c # d, Resume(c)
      PROVE  Untouched(d)
  <2>1. /\ log' = Lines /\ asked'[d] = asked[d] /\ gen'[d] = gen[d] /\ down'[d] = down[d]
        /\ UNCHANGED <<pass, attached, tabs>>
    <3>1. PICK q : /\ log' = Lines /\ gen' = [gen EXCEPT ![c] = @ + 1]
                   /\ asked' = [asked EXCEPT ![c] = NoResume]
                   /\ down' = [down EXCEPT ![c] = @ \o q]
                   /\ UNCHANGED <<pass, attached, tabs>>
      BY <1>7, ResumeIs
    <3> QED
      BY <3>1, <1>1, <1>7
  <2>2. log' = log \/ ~Live(d)
    <3>1. ScrollOut = <<>> \/ Others(c) = {}
      BY <1>7, ResumeSpared
    <3>2. ScrollOut = <<>> => Lines = log
      BY <1>1 DEF Lines, HandlerTypes
    <3> QED
      BY <2>1, <3>1, <3>2, <1>7 DEF Live, Others
  <2> QED
    BY <2>1, <2>2 DEF Untouched, pass, tabs
<1>8. ASSUME NEW c \in Client, c # d, RecvResumeAck(c) \/ RecvScreen(c) \/ RecvScroll(c)
      PROVE  Untouched(d)
  BY <1>1, <1>8 DEF RecvResumeAck, RecvScreen, RecvScroll, Consume, Apply, AtTab, handler, pass,
     Untouched
<1> QED
  BY <1>2, <1>3, <1>4, <1>5, <1>6, <1>7, <1>8 DEF Next, OwnStep

LEMMA HonestWrite ==
  ASSUME HonestInv, Types', [Next]_vars, ~Restart, NEW c \in Client, WritePayloads(c)
  PROVE  HonestTab(c)'
<1>1. /\ c \in DOMAIN todo /\ Served(c) /\ Types /\ HonestTab(c)
      /\ UNCHANGED <<handler, boot, gen, attached, asked, tabs>>
      /\ down[c] \in Seq(Msg)
  BY DEF WritePayloads, HonestInv, ScreenInv, Types, SocketTypes
<1>2. /\ frame \in Frames /\ c \notin DOMAIN todo'
  BY <1>1, ServedIs DEF Types
<1>3. down'[c] = down[c] \o Sent(c)
  BY <1>1, <1>2, SentIs DEF WritePayloads, Types, SocketTypes
<1>4. Pipeline(c)' = Pipeline(c)
  <2>1. Pipeline(c) = down[c] \o Sent(c) /\ down[c] \o Sent(c) \in Seq(Msg)
    BY <1>1, PipelineIs
  <2>2. Pipeline(c)' = down'[c] \o <<>>
    BY <1>2 DEF Pipeline
  <2> QED
    BY <1>3, <2>1, <2>2
<1> QED
  BY <1>1, <1>4, Onward, TabKept DEF handler, tabs

\* A tab that nothing is under way to.
LEMMA Alone ==
  ASSUME NEW c \in Client, UNCHANGED <<log, cleared, boot>>, c \notin DOMAIN todo',
         down'[c] = <<>>, ~Live(c)', link'[c] = "down" \/ c \in attached', epoch'[c] <= boot,
         Pristine(c)', epoch'[c] = boot =>
           Sound(store'[c], Len(log), IF asked'[c] = NoResume THEN 0 ELSE asked'[c] + 1, Past)
  PROVE  HonestTab(c)'
<1>1. PICK F, q : F = Past' /\ F = Past /\ q = Pipeline(c)' /\ Len(q) = 0
  <2>1. Past' = Past
    BY DEF Past, OldestIndex, Committed
  <2> QED
    BY <2>1, QuietPipeline
<1>2. Adrift(c)'
  BY <1>1 DEF Adrift
<1>3. Asking(c)' /\ Dated(c)'
  BY <1>1 DEF Asking, Dated
<1> QED
  BY <1>2, <1>3 DEF HonestTab

LEMMA HonestAttach ==
  ASSUME HonestInv, NEW c \in Client, Attach(c)
  PROVE  HonestTab(c)'
<1> DEFINE b == ReplayBoundary(store[c])
<1>1. /\ link[c] = "down" /\ link' = [link EXCEPT ![c] = "open"]
      /\ asked' = [asked EXCEPT ![c] = b] /\ attached' = attached \cup {c}
      /\ UNCHANGED <<log, cleared, pass, boot, down, epoch, store>>
      /\ Types /\ HonestTab(c)
  BY DEF Attach, HonestInv, ScreenInv
<1>2. /\ asked'[c] = b /\ down[c] = <<>> /\ link'[c] = "open" /\ store[c] \in Stores
      /\ c \notin DOMAIN todo /\ asked[c] = NoResume
  BY <1>1 DEF Types, SocketTypes, TabTypes, PassTypes
<1>3. b # NoResume /\ Len(log) \in Int
  BY <1>1, <1>2, BoundaryIs, OldestIs DEF NoResume
<1> HIDE DEF b
<1>4. epoch[c] = boot => Sound(store[c], Len(log), b + 1, Past)
  <2>1. epoch[c] = boot => Sound(store[c], Len(log), 0, Past)
    BY <1>1, <1>2 DEF HonestTab, Adrift
  <2> QED
    BY <2>1, <1>2, <1>3, AskedSound DEF b
<1>5. Pristine(c)' /\ ~Live(c)' /\ epoch[c] <= boot
  BY <1>1, <1>2, <1>3 DEF HonestTab, Pristine, Live, Dated
<1>6. epoch'[c] = boot =>
        Sound(store'[c], Len(log), IF asked'[c] = NoResume THEN 0 ELSE asked'[c] + 1, Past)
  BY <1>1, <1>2, <1>3, <1>4
<1>7. /\ UNCHANGED <<log, cleared, boot>> /\ c \notin DOMAIN todo' /\ down'[c] = <<>>
      /\ c \in attached' /\ epoch'[c] <= boot
  BY <1>1, <1>2, <1>5 DEF pass
<1> QED
  BY <1>5, <1>6, <1>7, Alone

LEMMA HonestDetach ==
  ASSUME HonestInv, NEW c \in Client, Detach(c)
  PROVE  HonestTab(c)'
<1>1. /\ link' = [link EXCEPT ![c] = "down"] /\ down' = [down EXCEPT ![c] = <<>>]
      /\ asked' = [asked EXCEPT ![c] = NoResume]
      /\ IF c \in DOMAIN todo THEN Served(c) ELSE UNCHANGED pass
      /\ UNCHANGED <<log, cleared, boot, attached, epoch, store>>
      /\ Types /\ HonestTab(c)
  BY DEF Detach, HonestInv, ScreenInv, handler
<1>2. /\ asked'[c] = NoResume /\ down'[c] = <<>> /\ link'[c] = "down"
      /\ store[c] \in Stores /\ c \notin DOMAIN todo' /\ Len(log) \in Int
  <2>1. /\ asked'[c] = NoResume /\ down'[c] = <<>> /\ link'[c] = "down"
        /\ store[c] \in Stores /\ PassTypes
    BY <1>1 DEF Types, SocketTypes, TabTypes
  <2>2. c \notin DOMAIN todo'
    BY <1>1, <2>1, ServedIs DEF pass
  <2> QED
    BY <1>1, <2>1, <2>2, OldestIs
<1>3. epoch[c] = boot => Sound(store[c], Len(log), 0, Past)
  BY <1>1, <1>2, ClaimSound, ClaimFromZero
<1>4. Pristine(c)' /\ ~Live(c)' /\ epoch[c] <= boot
  BY <1>1, <1>2 DEF HonestTab, Pristine, Live, Dated
<1> QED
  BY <1>1, <1>2, <1>3, <1>4, Alone

LEMMA HonestReload ==
  ASSUME HonestInv, RoomAssumption, NEW c \in Client, Reload(c)
  PROVE  HonestTab(c)'
<1> DEFINE r == FromSnapshot(Snapshot(store[c]))
<1>1. /\ link[c] = "down" /\ UNCHANGED <<log, cleared, pass, boot, attached, asked, down, link>>
      /\ \/ Apply(c, EmptyStore) /\ epoch' = [epoch EXCEPT ![c] = 0]
         \/ Apply(c, r) /\ UNCHANGED epoch
      /\ Types /\ HonestTab(c)
  BY DEF Reload, HonestInv, ScreenInv, AtTab, handler
<1>2. /\ asked[c] = NoResume /\ down[c] = <<>> /\ c \notin DOMAIN todo /\ store[c] \in Stores
      /\ \/ store'[c] = EmptyStore /\ epoch'[c] = 0
         \/ store'[c] = r /\ epoch'[c] = epoch[c]
      /\ boot \in Int /\ boot >= 1 /\ Len(log) \in Int /\ Len(log) \in Nat
  <2>1. boot \in 1 .. MaxBoots
    BY <1>1 DEF Types, SocketTypes
  <2> QED
    BY <1>1, <2>1, OldestIs, Sizes DEF Types, SocketTypes, TabTypes, PassTypes, Apply
<1>3. Held(store[c]) = {} => r = EmptyStore
  BY <1>2, RestoredIs
<1>4. epoch[c] = boot => Sound(r, Len(log), 0, Past)
  <2>1. epoch[c] = boot => Sound(store[c], Len(log), 0, Past)
    BY <1>1, <1>2 DEF HonestTab, Adrift
  <2>2. PICK st \in Stores, top \in Nat, prov \in Int : st = store[c] /\ top = Len(log) /\ prov = 0
    BY <1>2
  <2>3. Sound(st, top, prov, Past) => Sound(FromSnapshot(Snapshot(st)), top, prov, Past)
    BY RestoredSound
  <2> QED
    BY <2>1, <2>2, <2>3
<1> HIDE DEF r
<1>5. epoch[c] = 0 /\ store'[c] = r => store'[c] = EmptyStore
  BY <1>1, <1>3 DEF HonestTab, Pristine
<1>6. Pristine(c)' /\ ~Live(c)' /\ epoch'[c] <= boot
  BY <1>1, <1>2, <1>5, EmptyIs DEF HonestTab, Pristine, Live, Dated
<1>7. epoch'[c] = boot => Sound(store'[c], Len(log), 0, Past)
  BY <1>2, <1>4
<1> QED
  BY <1>1, <1>2, <1>6, <1>7, Alone DEF pass

LEMMA HonestRestart ==
  ASSUME HonestInv, Types', Restart
  PROVE  FrameTrue' /\ \A c \in Client : HonestTab(c)'
<1>1. /\ boot' = boot + 1 /\ frame' = NoFrame /\ todo' = <<>> /\ attached' = {}
      /\ asked' = [d \in Client |-> NoResume] /\ down' = down /\ UNCHANGED tabs
      /\ Types
  BY DEF Restart, HonestInv, ScreenInv
<1>2. FrameTrue'
  BY <1>1 DEF FrameTrue
<1>3. ASSUME NEW c \in Client
      PROVE  HonestTab(c)'
  <2>1. /\ HonestTab(c) /\ link' = link /\ epoch' = epoch /\ store' = store
        /\ asked'[c] = NoResume /\ c \notin attached' /\ down'[c] = down[c]
    BY <1>1 DEF HonestInv, tabs
  <2>2. boot \in Int /\ epoch[c] \in Int /\ down[c] \in Seq(Msg)
    <3>1. boot \in 1 .. MaxBoots /\ epoch[c] \in 0 .. MaxBoots /\ down[c] \in Seq(Msg)
      BY <1>1 DEF Types, SocketTypes
    <3> QED
      BY <3>1, Sizes
  <2>3. Dated(c)
    BY <2>1 DEF HonestTab
  <2>4. PICK q : q = Pipeline(c)' /\ q = down[c]
    <3>1. Pipeline(c)' = down[c] \o <<>>
      BY <1>1, <2>1 DEF Pipeline
    <3>2. down[c] \o <<>> = down[c]
      BY <2>2
    <3> QED
      BY <3>1, <3>2
  <2>5. \A i \in 1 .. Len(q) : q[i] \in AckMsg => q[i].epoch <= boot
    <3>1. ASSUME NEW i \in 1 .. Len(q), q[i] \in AckMsg
          PROVE  q[i].epoch <= boot
      <4> DEFINE X == IF c \in DOMAIN todo THEN Sent(c) ELSE <<>>
      <4>1. Pipeline(c) \in Seq(Msg) /\ Pipeline(c) = down[c] \o X
        BY <1>1, PipelineIs DEF Pipeline
      <4>2. X \in Seq(Msg)
        <5>1. c \in DOMAIN todo => Sent(c) \in Seq(Msg)
          BY <1>1, PipelineIs
        <5> QED
          BY <5>1
      <4> HIDE DEF X
      <4>3. i \in 1 .. Len(Pipeline(c)) /\ Pipeline(c)[i] = q[i]
        BY <4>1, <4>2, <2>2, <2>4
      <4> QED
        BY <3>1, <4>3, <2>3 DEF Dated
    <3> QED
      BY <3>1
  <2>6. \A i \in 1 .. Len(q) : q[i] \in AckMsg => q[i].epoch <= boot + 1 /\ q[i].epoch # boot + 1
    <3>1. ASSUME NEW i \in 1 .. Len(q), q[i] \in AckMsg
          PROVE  q[i].epoch <= boot + 1 /\ q[i].epoch # boot + 1
      <4>1. q[i].epoch <= boot /\ q[i].epoch \in 1 .. MaxBoots
        BY <2>5, <3>1, MessageIs
      <4>2. q[i].epoch \in Int
        BY <4>1, Sizes
      <4> QED
        BY <4>1, <4>2, <2>2
    <3> QED
      BY <3>1
  <2>7. epoch[c] <= boot + 1 /\ epoch[c] # boot + 1
    BY <2>2, <2>3 DEF Dated
  <2>8. Dated(c)'
    BY <1>1, <2>1, <2>4, <2>6, <2>7 DEF Dated
  <2>9. Pristine(c)'
    BY <2>1 DEF HonestTab, Pristine
  <2>10. Adrift(c)' /\ Asking(c)' /\ ~Live(c)'
    BY <1>1, <2>1, <2>7 DEF Adrift, Asking, Live
  <2> QED
    BY <2>8, <2>9, <2>10 DEF HonestTab
<1> QED
  BY <1>2, <1>3

\* A frame as it is written to a tab that has not resumed since.
InFull(f) == <<Screen(f)>> \o Chunks(f.first, f.lines)

LEMMA FrameMessages ==
  ASSUME NEW f \in Frames
  PROVE  /\ InFull(f) \in Seq(Msg) /\ <<Screen(f)>> \in Seq(Msg)
         /\ Chunks(f.first, f.lines) \in Seq(Msg)
         /\ \A i \in 1 .. Len(InFull(f)) :
              /\ InFull(f)[i] \in ScreenMsg => InFull(f)[i].base = f.base
              /\ InFull(f)[i] \notin AckMsg
<1> DEFINE cs == Chunks(f.first, f.lines)
           m  == Screen(f)
           q  == InFull(f)
<1>1. /\ m \in ScreenMsg /\ m \in Msg /\ m.kind = "screen" /\ m.base = f.base
      /\ f.first \in Nat /\ f.lines \in Seq(Row) /\ f.first + Len(f.lines) <= MaxChunks
  <2>1. f.first + Len(f.lines) = f.base /\ f.base <= MaxChunks
    BY FrameIs
  <2> QED
    BY <2>1, FrameIs
<1>2. cs \in Seq(Msg) /\ Len(cs) \in Nat /\ \A k \in 1 .. Len(cs) : cs[k].kind = "scroll"
  BY <1>1, LinesAre
<1>3. q = <<m>> \o cs
  BY DEF InFull
<1> HIDE DEF cs, m, q
<1>4. <<m>> \in Seq(Msg) /\ q \in Seq(Msg)
  BY <1>1, <1>2, <1>3
<1>5. ASSUME NEW i \in 1 .. Len(q)
      PROVE  q[i] = m \/ q[i].kind = "scroll"
  BY <1>1, <1>2, <1>3
<1>6. ASSUME NEW i \in 1 .. Len(q)
      PROVE  (q[i] \in ScreenMsg => q[i].base = f.base) /\ q[i] \notin AckMsg
  <2>1. q[i].kind = "scroll" => q[i] \notin ScreenMsg /\ q[i] \notin AckMsg
    BY MessageIs
  <2>2. m \notin AckMsg
    BY <1>1, MessageIs
  <2> QED
    BY <1>1, <1>5, <2>1, <2>2
<1>7. InFull(f) = q /\ <<Screen(f)>> = <<m>> /\ Chunks(f.first, f.lines) = cs
  BY DEF q, m, cs
<1> QED
  BY <1>2, <1>4, <1>6, <1>7

\* Under the alternate screen no line is committed.
NoneUnderAlt(f) == f.alt => Len(f.lines) = 0

\* It brings a tab that was whole up to where the frame begins to its end.
LEMMA FrameMarks ==
  ASSUME NEW h, NEW e, Len(h) \in Nat, NEW f \in Frames, f.base <= Len(h),
         \A i \in 1 .. Len(f.lines) : f.lines[i] = h[f.first + i],
         NoneUnderAlt(f),
         NEW s \in Marks, s.at = "live", s.prov = f.first, s.top <= f.first
  PROVE  \E t \in Marks : /\ Leads(MarkSteps(h, e), Marks, InFull(f), s, t)
                          /\ t.at = "live" /\ t.prov = f.base /\ t.top = f.base
<1> DEFINE m == Screen(f)
           n == Len(f.lines)
           base == f.first + n
<1>1. /\ m \in ScreenMsg /\ m.base = f.base /\ m.alt = f.alt
      /\ f.first \in Nat /\ f.lines \in Seq(Row) /\ n \in Nat /\ f.base = base
      /\ base <= MaxChunks
  <2>1. Len(f.lines) \in Nat
    BY FrameIs
  <2> QED
    BY <2>1, FrameIs
<1>2. s.top \in Nat /\ s.top <= base /\ f.first <= base /\ base \in Nat
  <2>1. s.top \in Nat
    BY MarkIs
  <2> QED
    BY <2>1, <1>1
<1> HIDE DEF m
<1>3. PICK u \in Marks : /\ Leads(MarkSteps(h, e), Marks, <<m>>, s, u)
                         /\ u.at = "live" /\ u.top = m.base /\ u.prov = s.prov
                         /\ Faces(u, m)
  <2>1. m \in ScreenMsg
    BY <1>1
  <2>2. s.top <= m.base /\ s.prov <= m.base /\ m.base <= Len(h)
    BY <1>1, <1>2
  <2> QED
    BY <2>1, <2>2, WindowMarks
<1>4. u.buf \in {"main", "alt"}
  BY MarkIs
<1>5. \/ u.buf = "main"
      \/ base <= u.room
      \/ base <= u.prov
  <2>1. CASE u.buf = "alt"
    <3>1. m.alt = f.alt /\ Faces(u, m)
      BY <1>1, <1>3
    <3>2. n = 0
      BY <2>1, <3>1, Zenon DEF Faces, NoneUnderAlt, n
    <3> QED
      BY <3>2, <1>1, <1>3
  <2> QED
    BY <2>1, <1>4
<1>6. base <= Len(h) /\ f.first <= u.prov
  BY <1>1, <1>2, <1>3
<1>7. PICK t \in Marks :
           /\ Leads(MarkSteps(h, e), Marks, Chunks(f.first, f.lines), u, t)
           /\ t.at = "live" /\ t.prov = Larger(u.prov, base)
           /\ u.top <= t.top /\ t.top <= Larger(u.top, base)
  BY <1>1, <1>3, <1>5, <1>6, ChunkMarks
<1>8. t.prov = base /\ t.top = base
  <2>1. u.prov = f.first /\ u.top = base
    BY <1>1, <1>3
  <2> HIDE DEF base
  <2>2. Larger(u.prov, base) = base /\ Larger(u.top, base) = base
    BY <2>1, <1>1, <1>2 DEF Larger
  <2>3. t.top \in Nat
    BY MarkIs
  <2> QED
    BY <2>1, <2>2, <2>3, <1>2, <1>7
<1>9. Leads(MarkSteps(h, e), Marks, InFull(f), s, t)
  <2>1. <<m>> \in Seq(Msg) /\ Chunks(f.first, f.lines) \in Seq(Msg)
    BY FrameMessages DEF m
  <2>2. Leads(MarkSteps(h, e), Marks, <<m>> \o Chunks(f.first, f.lines), s, t)
    BY <1>3, <1>7, <2>1, LeadsOn
  <2> QED
    BY <2>2 DEF InFull, m
<1> QED
  BY <1>1, <1>7, <1>8, <1>9

LEMMA HonestBuild ==
  ASSUME HonestInv, Types', BuildFrame
  PROVE  /\ FrameTrue'
         /\ \A c \in Reached : ~UNCHANGED <<pass, log>> => HonestTab(c)'
<1>1. /\ frame = NoFrame /\ log' = log \o ScrollOut /\ Len(log') = Len(log) + Len(ScrollOut)
      /\ UNCHANGED <<cleared, sockets, tabs>>
      /\ \/ UNCHANGED pass /\ (Reached = {} \/ log' = log)
         \/ Built(frame') /\ todo' = [c \in Reached |-> gen[c]]
      /\ Types /\ HandlerTypes
  BY BuildIs DEF HonestInv, ScreenInv, Types
<1>2. /\ log \in Seq(Row) /\ log' \in Seq(Row) /\ Len(log) \in Nat /\ Len(log') \in Nat
      /\ Len(log') \in Int
      /\ Len(log) <= Len(log') /\ \A i \in 1 .. Len(log) : log'[i] = log[i]
      /\ \A i \in 1 .. Len(ScrollOut) : log'[Len(log) + i] = ScrollOut[i]
      /\ cleared <= cleared' /\ DOMAIN todo = {} /\ Len(ScrollOut) \in Nat
      /\ mode = "alt" => Len(ScrollOut) = 0
  <2>1. cleared \in Int /\ DOMAIN todo = {}
    BY <1>1 DEF Types, HandlerTypes, PassTypes
  <2>2. mode = "alt" => ScrollOut = <<>>
    BY <1>1, ScrollOutIs
  <2>3. Len(ScrollOut) \in Nat
    BY <1>1, ScrollOutIs
  <2> QED
    BY <1>1, <2>1, <2>2, <2>3, CommittedIs
<1>3. Grows(log, OldestIndex, log', OldestIndex')
  BY <1>1, <1>2, OldestMore
<1>4. /\ boot' = boot /\ epoch' = epoch /\ link' = link /\ asked' = asked /\ store' = store
      /\ attached' = attached /\ down' = down /\ gen' = gen
  BY <1>1 DEF sockets, tabs
<1>5. CASE UNCHANGED pass /\ (Reached = {} \/ log' = log)
  <2>1. FrameTrue'
    BY <1>1, <1>5 DEF FrameTrue, pass
  <2> QED
    BY <2>1, <1>5
<1>6. CASE Built(frame') /\ todo' = [c \in Reached |-> gen[c]]
  <2>1. PICK f : f = frame'
    OBVIOUS
  <2>2. /\ f \in Frames /\ f.base = Len(log') /\ f.first = Len(log) /\ f.lines = ScrollOut
    BY <1>1, <1>6, <2>1 DEF Built
  <2>3. /\ \A i \in 1 .. Len(f.lines) : f.lines[i] = log'[f.first + i]
        /\ f.first <= Len(log') /\ f.base <= Len(log')
    BY <1>2, <2>2
  <2>0. NoneUnderAlt(f)
    <3>1. (f.alt => mode = "alt") /\ f.lines = ScrollOut
      BY <1>6, <2>1 DEF Built
    <3>2. mode = "alt" => Len(ScrollOut) = 0
      BY <1>2
    <3> QED
      BY <3>1, <3>2, Zenon DEF NoneUnderAlt
  <2>4. FrameTrue'
    BY <2>1, <2>3 DEF FrameTrue
  <2>5. \A c \in Reached : c \in Client
    BY <1>1 DEF Reached, Types, SocketTypes
  <2>6. ASSUME NEW c \in Client, c \in Reached
        PROVE  HonestTab(c)'
    <3>1. HonestTab(c) /\ c \in attached /\ link[c] # "down" /\ asked[c] \in Int
      BY <1>1, <2>6 DEF HonestInv, Reached, Types, SocketTypes
    <3>2. Pipeline(c) = down[c] /\ down[c] \in Seq(Msg)
      BY <1>1, PipelineIs
    <3> DEFINE q == InFull(f)
    <3>3. /\ q \in Seq(Msg)
          /\ \A i \in 1 .. Len(q) : /\ q[i] \in ScreenMsg => q[i].base = f.base
                                    /\ q[i] \notin AckMsg
      BY <2>2, FrameMessages
    <3>4. Pipeline(c)' = down[c] \o q
      <4>1. DOMAIN todo' = Reached /\ todo'[c] = gen[c]
        BY <1>6, <2>6
      <4>2. Sent(c)' = q
        BY <2>1, <4>1, <1>4 DEF Sent, q, InFull
      <4> QED
        BY <1>4, <4>1, <4>2, <2>6 DEF Pipeline
    <3> HIDE DEF q
    <3>5. PICK z : z = Pipeline(c)' /\ z = down[c] \o q
      BY <3>4
    <3>6. ASSUME NEW i \in 1 .. Len(z)
          PROVE  \/ i \in 1 .. Len(down[c]) /\ z[i] = down[c][i]
                 \/ \E j \in 1 .. Len(q) : z[i] = q[j]
      <4>1. CASE i <= Len(down[c])
        BY <4>1, <3>2, <3>3, <3>5
      <4>2. CASE i > Len(down[c])
        <5>1. i - Len(down[c]) \in 1 .. Len(q) /\ z[i] = q[i - Len(down[c])]
          BY <4>2, <3>2, <3>3, <3>5
        <5> QED
          BY <5>1
      <4> QED
        BY <4>1, <4>2, <3>2
    <3>7. Pristine(c)' /\ Adrift(c)'
      BY <1>1, <1>3, <1>4, <3>1, TabStays
    <3>8. Asking(c)'
      <4>1. SUFFICES ASSUME asked[c] # NoResume, NEW i \in 1 .. Len(z), z[i] \in ScreenMsg
                     PROVE  z[i].base <= Len(log')
        BY <1>4, <3>5 DEF Asking
      <4>2. CASE i \in 1 .. Len(down[c]) /\ z[i] = down[c][i]
        <5>1. z[i].base <= Len(log)
          BY <4>1, <4>2, <3>1, <3>2 DEF HonestTab, Asking
        <5>2. z[i].base \in Int
          BY <4>1, MessageIs
        <5> QED
          BY <5>1, <5>2, <1>2
      <4>3. CASE \E j \in 1 .. Len(q) : z[i] = q[j]
        BY <4>1, <4>3, <3>3, <2>2, <2>3
      <4> QED
        BY <4>2, <4>3, <3>6
    <3>9. Dated(c)'
      <4>1. Dated(c)
        BY <3>1 DEF HonestTab
      <4>2. \A i \in 1 .. Len(z) : z[i] \in AckMsg => z[i].epoch <= boot
        <5>1. ASSUME NEW i \in 1 .. Len(z), z[i] \in AckMsg
              PROVE  z[i].epoch <= boot
          <6>1. i \in 1 .. Len(down[c]) /\ z[i] = down[c][i]
            BY <5>1, <3>3, <3>6
          <6> QED
            BY <6>1, <5>1, <4>1, <3>2 DEF Dated
        <5> QED
          BY <5>1
      <4> QED
        BY <1>4, <3>1, <3>5, <4>1, <4>2 DEF Dated
    <3>10. ASSUME Live(c)'
           PROVE  Marked(c)'
      <4>1. Live(c)
        BY <3>10, <1>4 DEF Live
      <4>2. PICK s \in Marks, t \in Marks :
              /\ Leads(MarkSteps(log, boot), Marks, Pipeline(c), s, t)
              /\ s.at = "mute" <=> link[c] = "open"
              /\ Sound(Current(c), s.top, s.prov, Past) /\ Matches(Current(c), s)
              /\ s.top <= Len(log) /\ t.at = "live" /\ t.prov = Len(log) /\ t.top <= Len(log)
        BY <3>1, <4>1 DEF HonestTab, Marked
      <4>3. PICK h : h = log' /\ h \in Seq(Row)
        BY <1>2
      <4>4. Leads(MarkSteps(h, boot), Marks, down[c], s, t)
        <5>1. Grows(log, 0, h, 0)
          BY <1>2, <4>3 DEF Grows
        <5>2. MarkSteps(log, boot) \subseteq MarkSteps(h, boot)
          BY <5>1, <4>3, <1>2, StepMore
        <5> QED
          BY <5>2, <4>2, <3>2, LeadsMore
      <4>5. PICK u \in Marks : /\ Leads(MarkSteps(h, boot), Marks, q, t, u)
                               /\ u.at = "live" /\ u.prov = f.base /\ u.top = f.base
        <5>1. /\ Len(h) \in Nat /\ f.base <= Len(h) /\ t.prov = f.first /\ t.top <= f.first
              /\ \A i \in 1 .. Len(f.lines) : f.lines[i] = h[f.first + i]
          BY <1>2, <2>2, <2>3, <4>2, <4>3
        <5>2. f \in Frames /\ t.at = "live"
          BY <2>2, <4>2
        <5> QED
          BY <5>1, <5>2, <2>0, FrameMarks DEF q
      <4>6. Leads(MarkSteps(h, boot), Marks, z, s, u)
        BY <4>4, <4>5, <3>2, <3>3, <3>5, LeadsOn
      <4>7. Current(c) = Current(c)' /\ Current(c) \in Stores
        <5>1. store[c] \in Stores
          BY <1>1 DEF Types, TabTypes
        <5> QED
          BY <5>1, <1>4, EmptyIs DEF Current, Resumed
      <4>8. PICK v : v = Current(c)
        OBVIOUS
      <4>9. PICK F : F = Past' /\ Past \subseteq F
        BY <1>1, <1>3, PastMore
      <4>10. Sound(v, s.top, s.prov, F) /\ Matches(v, s)
        <5>1. s.top \in Int /\ s.prov \in Int /\ s.top >= s.top /\ s.prov <= s.prov
          BY MarkIs
        <5> QED
          BY <5>1, <4>2, <4>7, <4>8, <4>9, SoundMore
      <4>11. s.top <= Len(h) /\ u.prov = Len(h) /\ u.top <= Len(h)
        <5>1. s.top \in Int
          BY MarkIs
        <5> QED
          BY <5>1, <4>2, <4>3, <4>5, <1>2, <2>2
      <4>12. v = Current(c)' /\ boot' = boot /\ link'[c] = link[c]
        BY <4>7, <4>8, <1>4
      <4> QED
        BY <3>5, <4>2, <4>3, <4>5, <4>6, <4>9, <4>10, <4>11, <4>12 DEF Marked
    <3> QED
      BY <3>7, <3>8, <3>9, <3>10 DEF HonestTab
  <2> QED
    BY <2>4, <2>5, <2>6
<1> QED
  BY <1>1, <1>5, <1>6

\* Rows too old to be read need no replacing.
LEMMA SoundAbove ==
  ASSUME NEW st \in Stores, NEW top \in Int, NEW prov \in Int, NEW h, NEW old \in Int,
         Sound(st, top, prov, Genuine(h, old)),
         NEW x \in Int, x <= prov \/ x <= old
  PROVE  Sound(st, top, x, Genuine(h, old))
<1> DEFINE D == Drawn(st, Genuine(h, old))
<1>1. ASSUME NEW a \in D
      PROVE  a >= x
  <2>1. a \in Held(st) /\ <<a, st.lines[a]>> \notin Genuine(h, old)
    BY DEF Drawn
  <2>2. a \in Nat /\ st.lines[a] \in Row
    BY <2>1, StoreIs
  <2>3. ~(a < old)
    <3> DEFINE y == <<a, st.lines[a]>>
    <3>1. y \in Nat \X Row /\ y[1] = a
      BY <2>2
    <3>2. a < old => y \in Genuine(h, old)
      BY <3>1 DEF Genuine
    <3> QED
      BY <3>2, <2>1
  <2>4. a >= prov
    BY DEF Sound, Kept
  <2> QED
    BY <2>2, <2>3, <2>4
<1>2. Kept(st, top, prov, D) /\ Filled(st, top)
  BY DEF Sound
<1> HIDE DEF D
<1>3. Kept(st, top, x, D)
  BY <1>1, <1>2 DEF Kept
<1> QED
  BY <1>2, <1>3 DEF Sound, D

LEMMA PristineSound ==
  ASSUME NEW st \in Stores, NEW top \in Nat, NEW prov, NEW G, Held(st) = {},
         st.evictedThrough = -1, st.erasedThrough = -1, st.win.height = 0
  PROVE  Sound(st, top, prov, G)
<1>1. Drawn(st, G) = {} /\ ~(st.win.height > 0)
  BY DEF Drawn
<1> QED
  BY <1>1 DEF Sound, Kept, Filled

\* A tab that is whole up to n, the server having committed no more.
Complete(s, n) == s.at = "live" /\ s.top = n /\ s.prov = n

\* Lines that reach no higher than n leave it so.
LEMMA CompleteLines ==
  ASSUME NEW h, NEW e, Len(h) \in Nat, NEW n \in Nat, n <= Len(h),
         NEW first \in Nat, NEW lines \in Seq(Row), first + Len(lines) <= MaxChunks,
         first + Len(lines) <= n, \A i \in 1 .. Len(lines) : lines[i] = h[first + i],
         NEW s \in Marks, s.at = "live", s.top = n, first <= s.prov,
         s.prov = n \/ (s.prov <= n /\ first + Len(lines) = n),
         \/ s.buf = "main"
         \/ first + Len(lines) <= s.room
         \/ s.prov = n
  PROVE  \E t \in Marks : /\ Leads(MarkSteps(h, e), Marks, Chunks(first, lines), s, t)
                          /\ Complete(t, n)
<1> DEFINE end == first + Len(lines)
<1>1. Len(lines) \in Nat /\ end \in Nat /\ s.prov \in Nat /\ s.top \in Nat
  BY MarkIs
<1>2. end <= Len(h)
  BY <1>1
<1>3. \/ s.buf = "main"
      \/ end <= s.room
      \/ end <= s.prov
  BY <1>1
<1>4. PICK t \in Marks :
           /\ Leads(MarkSteps(h, e), Marks, Chunks(first, lines), s, t)
           /\ t.at = "live" /\ t.prov = Larger(s.prov, end)
           /\ s.top <= t.top /\ t.top <= Larger(s.top, end)
  BY <1>2, <1>3, ChunkMarks
<1> HIDE DEF end
<1>5. t.top \in Int
  BY MarkIs
<1>6. Larger(s.prov, end) = n /\ Larger(s.top, end) = n
  BY <1>1 DEF Larger, end
<1>7. Complete(t, n)
  BY <1>1, <1>4, <1>5, <1>6 DEF Complete
<1> QED
  BY <1>4, <1>7

LEMMA ReplayMarks ==
  ASSUME HandlerTypes, NEW c, asked[c] \in Int, NEW e,
         NEW s \in Marks, s.at = "live", s.top = Len(Lines),
         s.prov = Smaller(First(c), Len(Lines)),
         s.buf = "main" \/ Len(Lines) <= s.room
  PROVE  \E t \in Marks : /\ Leads(MarkSteps(Lines, e), Marks, Replay(c), s, t)
                          /\ Complete(t, Len(Lines))
<1> DEFINE n == Len(Lines)
           f == First(c)
           sub == SubSeq(Lines, f + 1, n)
<1>1. Lines \in Seq(Row) /\ n \in Nat /\ n <= MaxChunks /\ f \in Nat
  <2>1. Lines \in Seq(Row) /\ n \in Nat /\ n \in Base
    BY CommittedIs DEF Lines
  <2> QED
    BY <2>1, ReplayIs, Sizes DEF Base
<1> HIDE DEF f
<1>2. CASE f >= n
  <2>1. Replay(c) = <<>>
    BY <1>2 DEF Replay, f
  <2>2. Complete(s, n)
    BY <1>1, <1>2 DEF Complete, Smaller, f
  <2>3. Leads(MarkSteps(Lines, e), Marks, <<>>, s, s)
    BY LeadsEmpty
  <2> QED
    BY <2>1, <2>2, <2>3
<1>3. CASE ~(f >= n)
  <2>1. /\ sub \in Seq(Row) /\ Len(sub) = n - f
        /\ \A i \in 1 .. n - f : sub[i] = Lines[f + i]
    <3>1. \A i \in f + 1 .. n : Lines[i] \in Row
      BY <1>1
    <3> QED
      BY <3>1, <1>1, <1>3
  <2>2. Replay(c) = Chunks(f, sub)
    BY <1>3 DEF Replay, f
  <2> HIDE DEF sub
  <2>3. f + Len(sub) = n /\ \A i \in 1 .. Len(sub) : sub[i] = Lines[f + i]
    BY <2>1, <1>1
  <2>4. s.prov = f
    BY <1>1, <1>3 DEF Smaller, f
  <2> HIDE DEF n
  <2>5. /\ Len(Lines) \in Nat /\ n <= Len(Lines) /\ f + Len(sub) <= MaxChunks
        /\ f + Len(sub) <= n /\ s.top = n /\ f <= s.prov /\ s.prov <= n
        /\ s.buf = "main" \/ f + Len(sub) <= s.room
    BY <1>1, <1>3, <2>3, <2>4 DEF n
  <2>6. PICK t \in Marks : /\ Leads(MarkSteps(Lines, e), Marks, Chunks(f, sub), s, t)
                           /\ Complete(t, n)
    BY <1>1, <2>1, <2>3, <2>5, CompleteLines
  <2> QED
    BY <2>2, <2>6 DEF n
<1> QED
  BY <1>2, <1>3

\* What is left of a frame built before the resume was committed by then.
LEMMA StaleMarks ==
  ASSUME Types, FrameTrue, NEW c, NEW e, NEW s \in Marks, Complete(s, Len(Lines))
  PROVE  \E t \in Marks : /\ Leads(MarkSteps(Lines, e), Marks, Stale(c), s, t)
                          /\ Complete(t, Len(Lines))
<1>1. /\ Len(log) \in Nat /\ Len(Lines) \in Nat /\ Len(log) <= Len(Lines)
      /\ \A i \in 1 .. Len(log) : Lines[i] = log[i]
  BY CommittedIs DEF Types, Lines
<1>2. CASE c \notin DOMAIN todo
  <2>1. Stale(c) = <<>>
    BY <1>2 DEF Stale
  <2>2. Leads(MarkSteps(Lines, e), Marks, <<>>, s, s)
    BY LeadsEmpty
  <2> QED
    BY <2>1, <2>2
<1>3. CASE c \in DOMAIN todo
  <2>1. Stale(c) = Chunks(frame.first, frame.lines)
    BY <1>3 DEF Stale
  <2>2. frame # NoFrame /\ frame \in Frames /\ frame.base <= Len(log)
    BY <1>3 DEF Types, PassTypes
  <2>3. /\ frame.first \in Nat /\ frame.lines \in Seq(Row) /\ frame.base \in Nat
        /\ frame.first + Len(frame.lines) = frame.base /\ frame.base <= MaxChunks
    BY <2>2, FrameIs
  <2> DEFINE f == frame.first
             lines == frame.lines
             n == Len(Lines)
  <2>4. \A i \in 1 .. Len(lines) : lines[i] = Lines[f + i]
    <3> TAKE i \in 1 .. Len(lines)
    <3> DEFINE j == f + i
    <3>1. j \in 1 .. Len(log) /\ lines[i] = log[j]
      <4>1. j \in 1 .. Len(log)
        BY <1>1, <2>2, <2>3
      <4> QED
        BY <4>1, <2>2 DEF FrameTrue
    <3> HIDE DEF j
    <3>2. lines[i] = Lines[j]
      BY <1>1, <3>1
    <3> QED
      BY <3>2 DEF j
  <2>5. /\ f \in Nat /\ lines \in Seq(Row) /\ f + Len(lines) <= MaxChunks
        /\ f + Len(lines) <= n /\ f <= n /\ n \in Nat /\ n <= Len(Lines) /\ Len(Lines) \in Nat
    BY <1>1, <2>2, <2>3
  <2>6. s.at = "live" /\ s.top = n /\ s.prov = n /\ f <= s.prov
    BY <2>5 DEF Complete
  <2> HIDE DEF f, lines, n
  <2>7. PICK t \in Marks : /\ Leads(MarkSteps(Lines, e), Marks, Chunks(f, lines), s, t)
                           /\ Complete(t, n)
    BY <2>4, <2>5, <2>6, CompleteLines
  <2> QED
    BY <2>1, <2>7 DEF f, lines, n
<1> QED
  BY <1>2, <1>3

\* Where the lines of a batch begin.
LEMMA FirstIs ==
  ASSUME Types, NEW c \in Client, Resume(c)
  PROVE  LET P == Smaller(First(c), Len(Lines)) IN
         /\ OldestIndex' = Oldest /\ Oldest \in Int /\ Oldest >= 0 /\ OldestIndex <= Oldest
         /\ P \in Int /\ P <= First(c) /\ P <= Len(Lines)
         /\ P <= asked[c] + 1 \/ P <= Oldest
<1> DEFINE n == Len(Lines)
           P == Smaller(First(c), n)
<1>1. /\ HandlerTypes /\ log' = Lines /\ UNCHANGED cleared /\ asked[c] \in Int
  BY ResumeIs DEF Types, SocketTypes
<1>2. /\ n \in Nat /\ First(c) \in Nat /\ Len(log) \in Nat /\ Len(log) <= n
      /\ cleared \in Int /\ Depth \in Int /\ ReplayMax \in Int /\ Depth <= ReplayMax
  BY <1>1, CommittedIs, ReplayIs, Sizes, StreamAssumption DEF Lines, HandlerTypes
<1>3. P \in Int /\ P <= First(c) /\ P <= n
  BY <1>2 DEF Smaller
<1>4. OldestIndex' = Oldest /\ Oldest \in Int /\ Oldest >= 0
  <2>1. OldestIndex' = Larger(cleared', Len(log') - Depth)
    BY DEF OldestIndex, Committed
  <2>2. Oldest \in Int /\ Oldest >= 0
    BY <1>1, <1>2, ReplayIs
  <2> QED
    BY <2>1, <2>2, <1>1 DEF Oldest
<1>5. P <= asked[c] + 1 \/ P <= Oldest
  <2>1. First(c) \in {asked[c] + 1, n - ReplayMax, Oldest}
    BY <1>1, ReplayIs
  <2>2. n - Depth <= Oldest /\ Oldest \in Int
    BY <1>2, <1>4 DEF Oldest, Larger
  <2>3. n - ReplayMax <= Oldest
    BY <2>2, <1>2
  <2> HIDE DEF P, n
  <2> QED
    BY <2>1, <2>2, <2>3, <1>1, <1>2, <1>3
<1>6. OldestIndex <= Oldest
  BY <1>2, <1>4 DEF OldestIndex, Oldest, Committed, Larger
<1> QED
  BY <1>3, <1>4, <1>5, <1>6

\* The replay starts at or below the first row that the tab does not claim and
\* that can still be read.
LEMMA ResumedSound ==
  ASSUME HonestInv, Types', NEW c \in Client, Resume(c)
  PROVE  /\ Current(c) \in Stores
         /\ Sound(Current(c), Len(Lines), Smaller(First(c), Len(Lines)), Past')
         /\ Current(c).alt => Current(c) = store[c] /\ epoch[c] # 0
<1> DEFINE n == Len(Lines)
           P == Smaller(First(c), n)
<1>1. /\ Types /\ HandlerTypes /\ asked[c] # NoResume /\ link[c] = "open"
      /\ log' = Lines /\ UNCHANGED <<cleared, tabs, boot>> /\ HonestTab(c)
      /\ store[c] \in Stores /\ asked[c] \in Int
  BY ResumeIs DEF HonestInv, ScreenInv, Types, TabTypes, SocketTypes
<1>2. /\ Len(log) \in Nat /\ n \in Nat /\ Len(log) <= n /\ First(c) \in Nat
      /\ \A i \in 1 .. Len(log) : Lines[i] = log[i]
      /\ cleared \in Int /\ Depth \in Int /\ ReplayMax \in Int /\ Depth <= ReplayMax
  BY <1>1, CommittedIs, ReplayIs, Sizes, StreamAssumption DEF Lines, HandlerTypes
<1>3. P \in Int /\ P <= First(c)
  BY <1>1, FirstIs
<1>4. OldestIndex' = Oldest /\ Oldest \in Int
  BY <1>1, FirstIs
<1>5. P <= asked[c] + 1 \/ P <= Oldest
  BY <1>1, FirstIs
<1>6. PICK G : G = Past' /\ G = Genuine(Lines, Oldest)
  <2>1. Past' = Genuine(log', OldestIndex')
    BY DEF Past
  <2> QED
    BY <2>1, <1>1, <1>4
<1> DEFINE st == Current(c)
<1>7. st = Resumed(store[c], epoch[c], boot)
  BY <1>1 DEF Current
<1>8. CASE epoch[c] = boot
  <2>1. st = store[c]
    BY <1>7, <1>8 DEF Resumed
  <2>2. Sound(st, Len(log), asked[c] + 1, Past)
    BY <2>1, <1>1, <1>8 DEF HonestTab, Adrift
  <2>3. Past \subseteq G
    <3>1. cleared <= cleared' /\ Len(log) <= Len(log')
          /\ \A i \in 1 .. Len(log) : log'[i] = log[i]
      BY <1>1, <1>2
    <3>2. Grows(log, OldestIndex, log', OldestIndex')
      BY <1>1, <3>1, OldestMore
    <3> QED
      BY <3>2, <1>1, <1>6, PastMore
  <2>4. Sound(st, n, asked[c] + 1, G)
    <3> DEFINE b == asked[c] + 1
    <3>1. b \in Int /\ b <= b /\ n \in Int /\ Len(log) \in Int /\ n >= Len(log)
      BY <1>1, <1>2
    <3> HIDE DEF b, st, n
    <3>2. st \in Stores /\ Sound(st, Len(log), b, Past)
      BY <1>1, <2>1, <2>2 DEF b
    <3>3. Sound(st, n, b, G)
      BY <2>3, <3>1, <3>2, SoundMore
    <3> QED
      BY <3>3 DEF b
  <2>5. Sound(st, n, P, G)
    <3> DEFINE b == asked[c] + 1
    <3>1. b \in Int /\ n \in Int /\ P \in Int /\ st \in Stores
      BY <1>1, <1>2, <1>3, <2>1
    <3>2. P <= b \/ P <= Oldest
      BY <1>5
    <3>3. Sound(st, n, b, Genuine(Lines, Oldest))
      BY <2>4, <1>6
    <3> HIDE DEF b, st, n, P
    <3>4. Sound(st, n, P, Genuine(Lines, Oldest))
      BY <3>1, <3>2, <3>3, <1>4, SoundAbove
    <3> QED
      BY <3>4, <1>6
  <2>6. boot # 0
    BY <1>1, Sizes DEF Types, SocketTypes
  <2> QED
    BY <2>1, <2>5, <2>6, <1>1, <1>6, <1>8
<1>9. CASE epoch[c] = 0
  <2>1. st = store[c]
    BY <1>7, <1>9 DEF Resumed
  <2>2. /\ Held(store[c]) = {} /\ store[c].evictedThrough = -1 /\ store[c].erasedThrough = -1
        /\ store[c].win.height = 0 /\ ~store[c].alt
    BY <1>1, <1>9 DEF HonestTab, Pristine
  <2>3. Sound(store[c], n, P, G)
    BY <2>2, <1>1, <1>2, PristineSound
  <2> QED
    BY <2>1, <2>2, <2>3, <1>1, <1>6
<1>10. CASE epoch[c] \notin {0, boot}
  <2>1. st = EmptyStore
    BY <1>7, <1>10 DEF Resumed
  <2>2. Sound(EmptyStore, n, P, G)
    BY <1>2, EmptySound
  <2> QED
    BY <2>1, <2>2, <1>6, EmptyIs
<1> QED
  BY <1>8, <1>9, <1>10

\* Whatever order the batch has, it makes the tab's lines whole.
LEMMA BatchMarks ==
  ASSUME Types, NEW c \in Client, asked[c] \in Int, NEW e,
         NEW w \in ScreenMsg, FullScreen(w), NEW rest \in Seq(Msg),
         mode = "main" => rest = <<w>> \o Replay(c),
         mode = "alt" => rest = Replay(c) \o <<w>>,
         NEW s \in Marks, s.at = "live", s.top = Len(Lines),
         s.prov = Smaller(First(c), Len(Lines)),
         mode = "alt" => s.buf = "main" \/ Len(Lines) <= s.room
  PROVE  \E t \in Marks : /\ Leads(MarkSteps(Lines, e), Marks, rest, s, t)
                          /\ Complete(t, Len(Lines))
<1> DEFINE n == Len(Lines)
<1>1. /\ HandlerTypes /\ mode \in {"main", "alt"} /\ n \in Nat /\ First(c) \in Nat
      /\ Replay(c) \in Seq(Msg)
  BY CommittedIs, ReplayIs DEF Types, HandlerTypes, Lines
<1>2. w.base = n /\ <<w>> \in Seq(Msg) /\ w.alt \in BOOLEAN /\ (w.alt <=> mode = "alt")
  <2>1. w \in Msg /\ w.alt \in BOOLEAN
    BY DEF Msg, ScreenMsg
  <2> QED
    BY <2>1 DEF FullScreen
<1>3. s.prov <= n /\ s.prov \in Nat
  BY <1>1 DEF Smaller
<1>4. CASE mode = "main"
  <2>1. s.top <= w.base /\ s.prov <= w.base /\ w.base <= Len(Lines)
    BY <1>1, <1>2, <1>3
  <2>2. PICK u \in Marks : /\ Leads(MarkSteps(Lines, e), Marks, <<w>>, s, u)
                           /\ u.at = "live" /\ u.top = w.base /\ u.prov = s.prov
                           /\ Faces(u, w)
    BY <2>1, WindowMarks
  <2>3. u.buf = "main"
    <3>1. u.buf \in {"main", "alt"}
      BY MarkIs
    <3>2. ~w.alt
      BY <1>2, <1>4
    <3>3. u.buf # "alt"
      BY <2>2, <3>2, Zenon DEF Faces
    <3> QED
      BY <3>1, <3>3
  <2>4. PICK t \in Marks : /\ Leads(MarkSteps(Lines, e), Marks, Replay(c), u, t)
                           /\ Complete(t, Len(Lines))
    <3>1. u.at = "live" /\ u.top = Len(Lines) /\ u.prov = Smaller(First(c), Len(Lines))
      BY <2>2, <1>2
    <3> QED
      BY <1>1, <2>3, <3>1, ReplayMarks
  <2>5. Leads(MarkSteps(Lines, e), Marks, <<w>> \o Replay(c), s, t)
    BY <1>1, <1>2, <2>2, <2>4, LeadsOn
  <2> QED
    BY <1>4, <2>4, <2>5
<1>5. CASE mode = "alt"
  <2>1. PICK u \in Marks : /\ Leads(MarkSteps(Lines, e), Marks, Replay(c), s, u)
                           /\ Complete(u, Len(Lines))
    BY <1>1, <1>5, ReplayMarks
  <2>2. u.at = "live" /\ u.top <= w.base /\ u.prov <= w.base /\ w.base <= Len(Lines)
        /\ u.prov = n
    BY <1>1, <1>2, <2>1 DEF Complete
  <2>3. PICK t \in Marks : /\ Leads(MarkSteps(Lines, e), Marks, <<w>>, u, t)
                           /\ t.at = "live" /\ t.top = w.base /\ t.prov = u.prov
    BY <2>2, WindowMarks
  <2>4. Complete(t, n)
    BY <1>2, <2>2, <2>3 DEF Complete
  <2>5. Leads(MarkSteps(Lines, e), Marks, Replay(c) \o <<w>>, s, t)
    BY <1>1, <1>2, <2>1, <2>3, LeadsOn
  <2> QED
    BY <1>5, <2>4, <2>5
<1> QED
  BY <1>1, <1>4, <1>5

LEMMA EitherPart ==
  ASSUME NEW M, NEW a \in Seq(M), NEW b \in Seq(M), NEW i \in 1 .. Len(a \o b)
  PROVE  \/ \E k \in 1 .. Len(a) : (a \o b)[i] = a[k]
         \/ \E k \in 1 .. Len(b) : (a \o b)[i] = b[k]
<1>1. Len(a) \in Nat /\ Len(b) \in Nat /\ Len(a \o b) = Len(a) + Len(b)
  OBVIOUS
<1>2. CASE i <= Len(a)
  <2>1. i \in 1 .. Len(a) /\ (a \o b)[i] = a[i]
    BY <1>1, <1>2
  <2> QED
    BY <2>1
<1>3. CASE i > Len(a)
  <2>1. i - Len(a) \in 1 .. Len(b) /\ (a \o b)[i] = b[i - Len(a)]
    BY <1>1, <1>3
  <2> QED
    BY <2>1
<1>4. i <= Len(a) \/ i > Len(a)
  BY <1>1
<1> QED
  BY <1>2, <1>3, <1>4

Occurs(m, q) == \E k \in 1 .. Len(q) : m = q[k]

LEMMA ThirdPart ==
  ASSUME NEW a \in Seq(Msg), NEW q \in Seq(Msg), NEW b \in Seq(Msg), NEW z,
         z = (a \o q) \o b, NEW i \in 1 .. Len(z)
  PROVE  Occurs(z[i], a) \/ Occurs(z[i], q) \/ Occurs(z[i], b)
<1> DEFINE m == Len(a)
           n == Len(q)
<1>1. /\ m \in Nat /\ n \in Nat /\ Len(b) \in Nat /\ i \in Int
      /\ a \o q \in Seq(Msg) /\ Len(a \o q) = m + n /\ Len(z) = m + n + Len(b)
  OBVIOUS
<1>2. CASE i <= m
  <2>1. i \in 1 .. Len(a) /\ i \in 1 .. Len(a \o q)
    BY <1>1, <1>2
  <2>2. z[i] = (a \o q)[i]
    BY <1>1, <2>1
  <2>3. (a \o q)[i] = a[i]
    BY <2>1
  <2> QED
    BY <2>1, <2>2, <2>3 DEF Occurs
<1>3. CASE m < i /\ i <= m + n
  <2>1. i - m \in 1 .. Len(q) /\ i \in 1 .. Len(a \o q)
    BY <1>1, <1>3
  <2>2. z[i] = (a \o q)[i]
    BY <1>1, <2>1
  <2>3. (a \o q)[i] = q[i - m]
    BY <1>1, <1>3, <2>1
  <2> HIDE DEF m, n
  <2>4. z[i] = q[i - m]
    BY <2>2, <2>3
  <2> QED
    BY <2>1, <2>4 DEF Occurs
<1>4. CASE i > m + n
  <2>1. i - (m + n) \in 1 .. Len(b)
    BY <1>1, <1>4
  <2>2. z[i] = b[i - (m + n)]
    BY <1>1, <1>4, <2>1
  <2> HIDE DEF m, n
  <2> QED
    BY <2>1, <2>2 DEF Occurs
<1> QED
  BY <1>1, <1>2, <1>3, <1>4

\* The marks of a batch: past everything under way, and up to the end of history.
LEMMA ResumedMarks ==
  ASSUME HonestInv, Types', NEW c \in Client, Resume(c),
         Mishaps \cap {"altReturn", "sharedDrain"} = {},
         NEW w \in ScreenMsg, FullScreen(w), NEW rest \in Seq(Msg),
         mode = "main" => rest = <<w>> \o Replay(c),
         mode = "alt" => rest = Replay(c) \o <<w>>
  PROVE  \E s, t, x \in Marks :
           /\ Leads(MarkSteps(Lines, boot), Marks, down[c] \o (<<Ack>> \o rest), s, t)
           /\ Complete(t, Len(Lines))
           /\ Leads(MarkSteps(Lines, boot), Marks, Stale(c), t, x)
           /\ Complete(x, Len(Lines))
           /\ s.at = "mute" /\ s.top = Len(Lines) /\ s.prov = Smaller(First(c), Len(Lines))
           /\ Matches(Current(c), s)
<1> DEFINE q  == <<Ack>> \o rest
           n  == Len(Lines)
           st == Current(c)
<1>1. /\ asked[c] # NoResume /\ Types /\ HandlerTypes /\ HonestTab(c)
      /\ st \in Stores /\ (st.alt => st = store[c])
  BY ResumeIs, ResumedSound DEF HonestInv, ScreenInv, Types
<1>2. /\ down[c] \in Seq(Msg) /\ asked[c] \in Int /\ q \in Seq(Msg) /\ <<Ack>> \in Seq(Msg)
      /\ \A i \in 1 .. Len(down[c]) : down[c][i].kind # "resumeAck"
      /\ Ack \in AckMsg /\ Ack.epoch = boot
  <2>1. Ack \in Msg /\ boot \in 1 .. MaxBoots
    BY <1>1, ResumeIs DEF Types, SocketTypes
  <2> QED
    BY <1>1, <2>1 DEF Types, SocketTypes, Ack, AckMsg
<1>3. Len(log) \in Nat /\ n \in Nat /\ Len(log) <= n
  BY <1>1, CommittedIs DEF Lines
<1>4. /\ First(c) \in Nat /\ n \in Nat /\ st.alt \in BOOLEAN /\ st.win.base \in Nat
      /\ st.win.height \in Int
  <2>1. st.win.base \in Int /\ st.win.base >= 0 /\ st.alt \in BOOLEAN /\ st.win.height \in Int
    BY <1>1, StoreIs
  <2>2. First(c) \in Nat
    BY <1>1, <1>2, ReplayIs
  <2> QED
    BY <2>1, <2>2, <1>3
<1> DEFINE P == Smaller(First(c), n)
           room == IF st.win.height > 0 THEN st.win.base ELSE n
<1>5. P \in Nat /\ room \in Nat
  BY <1>4 DEF Smaller
<1>6. PICK buf \in {"main", "alt"} : buf = "alt" <=> st.alt
  <2>1. CASE st.alt
    BY <2>1
  <2>2. CASE ~st.alt
    BY <2>2
  <2> QED
    BY <2>1, <2>2
<1> HIDE DEF P, room, n, st, q
<1>7. PICK s \in Marks : MarkAt(s, "mute", n, P, buf, room)
  BY <1>4, <1>5, SomeMark
<1>8. Matches(st, s)
  <2>1. st.win.height > 0 => room <= st.win.base
    BY <1>4 DEF room
  <2>2. s.buf = buf /\ s.room = room
    BY <1>7 DEF MarkAt
  <2> QED
    BY <2>1, <2>2, <1>6, Zenon DEF Matches
<1>9. Leads(MarkSteps(Lines, boot), Marks, down[c], s, s)
  <2>1. s.at = "mute" /\ s.top = n
    BY <1>7 DEF MarkAt
  <2>2. ASSUME NEW i \in 1 .. Len(down[c]), down[c][i] \in ScreenMsg
        PROVE  down[c][i].base <= s.top
    <3>1. i \in 1 .. Len(Pipeline(c)) /\ Pipeline(c)[i] = down[c][i]
      <4> DEFINE X == IF c \in DOMAIN todo THEN Sent(c) ELSE <<>>
      <4>1. X \in Seq(Msg)
        <5>1. c \in DOMAIN todo => Sent(c) \in Seq(Msg)
          BY <1>1, PipelineIs
        <5> QED
          BY <5>1
      <4>2. Pipeline(c) = down[c] \o X
        BY DEF Pipeline
      <4> HIDE DEF X
      <4> QED
        BY <4>1, <4>2, <1>2
    <3>2. down[c][i].base <= Len(log)
      BY <3>1, <2>2, <1>1 DEF HonestTab, Asking
    <3>3. down[c][i].base \in Int
      BY <2>2, MessageIs
    <3> QED
      BY <3>2, <3>3, <2>1, <1>3 DEF n
  <2> QED
    BY <2>1, <2>2, <1>2, MuteMarks
<1>10. ~(BackInAlt(c) /\ Len(Lines) > store[c].win.base)
  BY ResumeSpared
<1>11. PICK v \in Marks : /\ Leads(MarkSteps(Lines, boot), Marks, <<Ack>>, s, v)
                          /\ MarkAt(v, "live", n, P, buf, room)
  <2>1. s.at = "mute"
    BY <1>7 DEF MarkAt
  <2>2. PICK v \in Marks : /\ Leads(MarkSteps(Lines, boot), Marks, <<Ack>>, s, v)
                           /\ MarkAt(v, "live", s.top, s.prov, s.buf, s.room)
    BY <2>1, <1>2, AckMarks
  <2> QED
    BY <2>2, <1>7 DEF MarkAt
<1>12. PICK t \in Marks : /\ Leads(MarkSteps(Lines, boot), Marks, rest, v, t)
                          /\ Complete(t, n)
  <2>1. v.at = "live" /\ v.top = Len(Lines) /\ v.prov = Smaller(First(c), Len(Lines))
        /\ v.buf = buf /\ v.room = room
    BY <1>11 DEF MarkAt, P, n
  <2>2. mode = "alt" => v.buf = "main" \/ Len(Lines) <= v.room
    <3>1. SUFFICES ASSUME mode = "alt", buf = "alt" PROVE Len(Lines) <= room
      BY <2>1
    <3>2. st.alt /\ st = store[c]
      BY <3>1, <1>1, <1>6
    <3>3. CASE st.win.height > 0
      <4>1. store[c].alt /\ store[c].win.height > 0
        BY <3>2, <3>3
      <4>2. BackInAlt(c)
        BY <3>1, <4>1, Zenon DEF BackInAlt
      <4>3. ~(Len(Lines) > store[c].win.base)
        BY <4>2, <1>10, Zenon
      <4>4. st.win.base = store[c].win.base /\ room = st.win.base
        BY <3>2, <3>3 DEF room
      <4>5. st.win.base \in Int /\ Len(Lines) \in Int
        BY <1>4, <1>3
      <4> QED
        BY <4>3, <4>4, <4>5
    <3>4. CASE ~(st.win.height > 0)
      <4>1. room = Len(Lines)
        BY <3>4 DEF room, n
      <4> QED
        BY <4>1, <1>3
    <3> QED
      BY <3>3, <3>4
  <2>3. PICK t \in Marks : /\ Leads(MarkSteps(Lines, boot), Marks, rest, v, t)
                           /\ Complete(t, Len(Lines))
    BY <1>1, <1>2, <2>1, <2>2, BatchMarks
  <2> QED
    BY <2>3 DEF n
<1>13. PICK x \in Marks : /\ Leads(MarkSteps(Lines, boot), Marks, Stale(c), t, x)
                          /\ Complete(x, n)
  BY <1>1, <1>12, StaleMarks DEF HonestInv, n
<1>14. Leads(MarkSteps(Lines, boot), Marks, down[c] \o q, s, t)
  <2>1. Leads(MarkSteps(Lines, boot), Marks, q, s, t)
    BY <1>2, <1>11, <1>12, LeadsOn DEF q
  <2> QED
    BY <2>1, <1>2, <1>9, LeadsOn
<1>15. s.at = "mute" /\ s.top = n /\ s.prov = P
  BY <1>7 DEF MarkAt
<1> QED
  BY <1>8, <1>12, <1>13, <1>14, <1>15 DEF q, n, st, P

LEMMA HonestResume ==
  ASSUME HonestInv, Types', NEW c \in Client, Resume(c),
         Mishaps \cap {"altReturn", "sharedDrain"} = {}
  PROVE  HonestTab(c)'
<1>1. /\ asked[c] # NoResume /\ c \in attached /\ link[c] = "open" /\ log' = Lines
      /\ gen' = [gen EXCEPT ![c] = @ + 1] /\ asked' = [asked EXCEPT ![c] = NoResume]
      /\ UNCHANGED <<mode, cleared, pass, boot, attached, tabs>> /\ Ack \in Msg
      /\ Types /\ HandlerTypes
  BY ResumeIs DEF HonestInv, ScreenInv, Types
<1>2. PICK w \in ScreenMsg, rest \in Seq(Msg) :
        /\ FullScreen(w)
        /\ mode = "main" => rest = <<w>> \o Replay(c)
        /\ mode = "alt" => rest = Replay(c) \o <<w>>
        /\ down' = [down EXCEPT ![c] = @ \o (<<Ack>> \o rest)]
  BY ResumeIs DEF HonestInv, ScreenInv
<1>3. /\ gen \in [Client -> Nat] /\ asked \in [Client -> Int] /\ down \in [Client -> Seq(Msg)]
      /\ link \in [Client -> {"down", "open", "acked"}] /\ attached \subseteq Client
      /\ down[c] \in Seq(Msg) /\ asked[c] \in Int /\ boot \in 1 .. MaxBoots
      /\ \A i \in 1 .. Len(down[c]) : down[c][i].kind # "resumeAck"
  BY <1>1 DEF Types, SocketTypes
<1>4. /\ Len(log) \in Nat /\ Len(Lines) \in Nat /\ Len(log) <= Len(log') /\ Len(log') \in Int
      /\ Len(log) <= Len(Lines) /\ cleared <= cleared'
      /\ \A i \in 1 .. Len(log) : log'[i] = log[i]
      /\ ScrollOut = <<>> => log' = log
  <2>1. cleared \in Int
    BY <1>1 DEF HandlerTypes
  <2>2. log \o <<>> = log
    BY <1>1, CommittedIs
  <2> QED
    BY <1>1, <2>1, <2>2, CommittedIs DEF Lines
<1>5. HonestTab(c)'
  <2> DEFINE q == <<Ack>> \o rest
             n == Len(Lines)
             st == Current(c)
  <2>1. /\ HonestTab(c) /\ link' = link /\ epoch' = epoch /\ store' = store
        /\ boot' = boot /\ attached' = attached /\ asked'[c] = NoResume
        /\ store[c] \in Stores
    BY <1>1, <1>3 DEF tabs, HonestInv, Types, TabTypes
  <2>2. q \in Seq(Msg) /\ <<Ack>> \in Seq(Msg) /\ Ack \in AckMsg /\ Ack.epoch = boot
        /\ down' = [down EXCEPT ![c] = @ \o q]
    BY <1>1, <1>2, <1>3 DEF Ack, AckMsg
  <2>3. /\ Pipeline(c)' = (down[c] \o q) \o Stale(c) /\ Stale(c) \in Seq(Msg)
        /\ \A k \in 1 .. Len(Stale(c)) : Stale(c)[k] \in ScrollMsg
    <3> HIDE DEF q
    <3> QED
      BY <1>1, <2>2, ResumedPipeline
  <2>4. PICK z : z = Pipeline(c)' /\ z = (down[c] \o q) \o Stale(c)
    BY <2>3
  <2>5. Pristine(c)' /\ Adrift(c)' /\ Asking(c)'
    BY <1>1, <2>1 DEF HonestTab, Pristine, Adrift, Asking
  <2>6. Dated(c)'
    <3>1. Dated(c) /\ epoch[c] <= boot
      BY <2>1 DEF HonestTab, Dated
    <3>2. ASSUME NEW i \in 1 .. Len(rest)
          PROVE  rest[i] \notin AckMsg
      <4>1. /\ Replay(c) \in Seq(Msg) /\ Len(Replay(c)) \in Nat
            /\ \A k \in 1 .. Len(Replay(c)) : Replay(c)[k] \in ScrollMsg
        BY <1>1, <1>3, ReplayIs
      <4>2. rest[i] = w \/ \E k \in 1 .. Len(Replay(c)) : rest[i] = Replay(c)[k]
        <5> DEFINE r == Replay(c)
        <5>1. rest = <<w>> \o r \/ rest = r \o <<w>>
          BY <1>1, <1>2 DEF HandlerTypes
        <5> HIDE DEF r
        <5>2. r \in Seq(Msg) /\ w \in Msg
          BY <4>1, MessageIs DEF r
        <5>3. <<w>> \in Seq(Msg) /\ \A k \in 1 .. Len(<<w>>) : <<w>>[k] = w
          BY <5>2
        <5>4. \/ \E k \in 1 .. Len(<<w>>) : rest[i] = <<w>>[k]
              \/ \E k \in 1 .. Len(r) : rest[i] = r[k]
          <6>1. CASE rest = <<w>> \o r
            BY <6>1, <5>2, <5>3, <3>2, EitherPart
          <6>2. CASE rest = r \o <<w>>
            BY <6>2, <5>2, <5>3, <3>2, EitherPart
          <6> QED
            BY <5>1, <6>1, <6>2
        <5>5. rest[i] = w \/ \E k \in 1 .. Len(r) : rest[i] = r[k]
          BY <5>3, <5>4
        <5> QED
          BY <5>5 DEF r
      <4>3. rest[i] \in ScreenMsg \/ rest[i] \in ScrollMsg
        BY <4>1, <4>2
      <4> QED
        BY <4>3, MessageIs
    <3>3. ASSUME NEW i \in 1 .. Len(q)
          PROVE  q[i] = Ack \/ q[i] \notin AckMsg
      <4>1. q[i] = Ack \/ \E k \in 1 .. Len(rest) : q[i] = rest[k]
        BY <1>1, <1>2, <2>2
      <4> QED
        BY <4>1, <3>2
    <3>4. \A i \in 1 .. Len(down[c]) : down[c][i] \notin AckMsg
      BY <1>3, MessageIs
    <3>5. \A i \in 1 .. Len(Stale(c)) : Stale(c)[i] \notin AckMsg
      BY <2>3, MessageIs
    <3> HIDE DEF q
    <3>6. ASSUME NEW i \in 1 .. Len(z), z[i] \in AckMsg
          PROVE  z[i].epoch <= boot
      <4>1. \/ \E k \in 1 .. Len(down[c]) : z[i] = down[c][k]
            \/ \E k \in 1 .. Len(q) : z[i] = q[k]
            \/ \E k \in 1 .. Len(Stale(c)) : z[i] = Stale(c)[k]
        <5> DEFINE a == down[c]
                   b == Stale(c)
        <5>1. a \in Seq(Msg) /\ q \in Seq(Msg) /\ b \in Seq(Msg) /\ z = (a \o q) \o b
          BY <1>3, <2>2, <2>3, <2>4
        <5> HIDE DEF a, b
        <5>2. i \in 1 .. Len(z)
          BY <3>6
        <5>3. Occurs(z[i], a) \/ Occurs(z[i], q) \/ Occurs(z[i], b)
          BY <5>1, <5>2, ThirdPart
        <5> QED
          BY <5>3 DEF a, b, Occurs
      <4>2. z[i] = Ack
        BY <4>1, <3>3, <3>4, <3>5, <3>6
      <4>3. boot \in Int
        BY <1>3, Sizes
      <4> QED
        BY <4>2, <4>3, <2>2
    <3> QED
      BY <1>1, <2>1, <2>4, <3>1, <3>6 DEF Dated
  <2>7. Marked(c)'
    <3>1. Sound(st, n, Smaller(First(c), n), Past') /\ n \in Int
      BY <1>4, ResumedSound
    <3>2. PICK u : u = Current(c)'  /\ u = st
      <4>1. Current(c)' = Current(c)
        BY <2>1 DEF Current
      <4> QED
        BY <4>1
    <3>3. PICK F : F = Past'
      OBVIOUS
    <3>4. PICK s \in Marks, t \in Marks, x \in Marks :
            /\ Leads(MarkSteps(Lines, boot), Marks, down[c] \o q, s, t)
            /\ Leads(MarkSteps(Lines, boot), Marks, Stale(c), t, x) /\ Complete(x, n)
            /\ s.at = "mute" /\ s.top = n /\ s.prov = Smaller(First(c), n)
            /\ Matches(st, s)
      BY <1>2, ResumedMarks
    <3> HIDE DEF n, st, q
    <3>5. Leads(MarkSteps(Lines, boot), Marks, z, s, x)
      <4>1. down[c] \o q \in Seq(Msg)
        BY <1>3, <2>2
      <4>2. Leads(MarkSteps(Lines, boot), Marks, (down[c] \o q) \o Stale(c), s, x)
        BY <4>1, <2>3, <3>4, LeadsOn
      <4> QED
        BY <4>2, <2>4
    <3>6. /\ Sound(u, s.top, s.prov, F) /\ Matches(u, s)
          /\ s.top <= n /\ x.at = "live" /\ x.prov = n /\ x.top <= n
      BY <3>1, <3>2, <3>3, <3>4 DEF Complete
    <3>7. log' = Lines /\ boot' = boot /\ link'[c] = "open" /\ n = Len(Lines)
      BY <1>1, <2>1 DEF n
    <3> QED
      BY <2>4, <3>2, <3>3, <3>4, <3>5, <3>6, <3>7 DEF Marked
  <2> QED
    BY <2>5, <2>6, <2>7 DEF HonestTab
<1> QED
  BY <1>5

LEMMA MutedKeeps ==
  ASSUME NEW st \in Stores, NEW m \in ScreenMsg
  PROVE  /\ Muted(st, m) \in Stores /\ Muted(st, m).alt = st.alt /\ Muted(st, m).win = st.win
         /\ Muted(st, m).evictedThrough = st.evictedThrough
         /\ Held(st) = {} => /\ Held(Muted(st, m)) = {}
                             /\ Muted(st, m).erasedThrough = st.erasedThrough
<1>1. m.base \in Base
  BY DEF ScreenMsg
<1>2. Muted(st, m) = IF m.cleared THEN ApplyScrollbackCleared(st, m.base) ELSE st
  BY MutedIs
<1>3. CASE ~m.cleared
  BY <1>2, <1>3
<1>4. CASE m.cleared
  <2> DEFINE r == ApplyScrollbackCleared(st, m.base)
  <2>1. /\ r \in Stores /\ r.win = st.win /\ r.alt = st.alt
        /\ r.evictedThrough = st.evictedThrough
        /\ Held(r) = Held(st) \ Erased(st, m.base)
        /\ Erased(st, m.base) = {} => r.erasedThrough = st.erasedThrough
    BY <1>1, ClearedIs
  <2>2. Muted(st, m) = r
    BY <1>2, <1>4
  <2> HIDE DEF r
  <2>3. Held(st) = {} => Held(r) = {} /\ Erased(st, m.base) = {}
    BY <2>1 DEF Erased
  <2> QED
    BY <2>1, <2>2, <2>3
<1> QED
  BY <1>3, <1>4

\* A tab stands where a mark says.
Bears(c, s) == /\ s.at = "mute" <=> link[c] = "open"
               /\ Sound(Current(c), s.top, s.prov, Past) /\ Matches(Current(c), s)
               /\ s.top <= Len(log)

\* The next message takes it from mark to mark.
Carried(c) == \A s, u \in Marks :
  Bears(c, s) /\ MarkStep(log, boot, s, Head(down[c]), u) => Bears(c, u)'

LEMMA MarkedOn ==
  ASSUME HonestInv, NEW c \in Client, Live(c),
         NEW kind, Arriving(c, kind), Consume(c), UNCHANGED AtTab,
         Carried(c)
  PROVE  Marked(c)'
<1>1. Types /\ HonestTab(c) /\ log' = log /\ boot' = boot
  BY DEF HonestInv, ScreenInv, AtTab, handler
<1>2. PICK s \in Marks, t \in Marks :
        /\ Leads(MarkSteps(log, boot), Marks, Pipeline(c), s, t)
        /\ Bears(c, s) /\ t.at = "live" /\ t.prov = Len(log) /\ t.top <= Len(log)
  <2>1. Marked(c)
    BY <1>1 DEF HonestTab
  <2> QED
    BY <2>1, Zenon DEF Marked, Bears
<1> DEFINE q == Pipeline(c)
<1>3. q \in Seq(Msg) /\ q # <<>> /\ Head(q) = Head(down[c]) /\ Tail(q) = Pipeline(c)'
  BY <1>1, PipelineTail
<1>4. Leads(MarkSteps(log, boot), Marks, q, s, t)
  BY <1>2
<1> HIDE DEF q
<1>5. PICK u \in Marks : <<s, Head(q), u>> \in MarkSteps(log, boot)
                         /\ Leads(MarkSteps(log, boot), Marks, Tail(q), u, t)
  BY <1>3, <1>4, LeadsTail
<1>6. MarkStep(log, boot, s, Head(down[c]), u)
  <2>1. Head(q) \in Msg
    BY <1>3
  <2>2. MarkStep(log, boot, s, Head(q), u)
    BY <1>5, <2>1, MarkStepIs
  <2> QED
    BY <1>3, <2>2
<1>7. Bears(c, u)'
  BY <1>2, <1>6 DEF Carried
<1>8. Leads(MarkSteps(log, boot), Marks, Pipeline(c)', u, t)
  BY <1>3, <1>5
<1>9. PICK z : z = Pipeline(c)'
  OBVIOUS
<1>10. Leads(MarkSteps(log', boot'), Marks, z, u, t) /\ t.prov = Len(log') /\ t.top <= Len(log')
  BY <1>1, <1>2, <1>8, <1>9
<1> QED
  BY <1>2, <1>7, <1>9, <1>10, Zenon DEF Marked, Bears

\* A message taken off the queue of one tab.
LEMMA TabReceived ==
  ASSUME HonestInv, Types', NEW c \in Client,
         NEW kind, Arriving(c, kind), Consume(c), UNCHANGED AtTab, NEW st, Apply(c, st),
         Pristine(c)', Adrift(c)', epoch'[c] <= boot, c \notin attached => epoch'[c] # boot,
         Live(c) => Marked(c)'
  PROVE  HonestTab(c)'
<1>1. /\ UNCHANGED <<screen, handler, dirty, pass, boot, gen, attached, asked>>
      /\ store' = [store EXCEPT ![c] = st] /\ down' = [down EXCEPT ![c] = Tail(@)]
      /\ Types
  BY DEF AtTab, Apply, Consume, HonestInv, ScreenInv
<1>2. /\ log' = log /\ cleared' = cleared /\ Len(log') \in Int /\ Len(log) <= Len(log')
      /\ cleared <= cleared'
  <2>1. log' = log /\ cleared' = cleared
    BY <1>1 DEF handler
  <2>2. Len(log) \in Int /\ cleared \in Int
    BY <1>1, LogIs DEF Types, HandlerTypes
  <2> QED
    BY <2>1, <2>2
<1>3. HonestTab(c)'
  <2> DEFINE q == Pipeline(c)
  <2>1. q \in Seq(Msg) /\ q # <<>> /\ Tail(q) = Pipeline(c)'
    BY <1>1, PipelineTail
  <2>2. HonestTab(c) /\ asked' = asked /\ attached' = attached /\ boot' = boot
    BY <1>1 DEF HonestInv
  <2>3. PICK z : z = Pipeline(c)' /\ z = Tail(q)
    BY <2>1
  <2>4. Asking(c) /\ Dated(c)
    BY <2>2 DEF HonestTab
  <2>5. /\ asked[c] # NoResume => \A i \in 1 .. Len(q) : q[i] \in ScreenMsg => q[i].base <= Len(log)
        /\ \A i \in 1 .. Len(q) : q[i] \in AckMsg => q[i].epoch <= boot
        /\ c \notin attached => \A i \in 1 .. Len(q) : q[i] \in AckMsg => q[i].epoch # boot
    BY <2>4 DEF Asking, Dated, Arriving
  <2> HIDE DEF q
  <2>6. ASSUME NEW i \in 1 .. Len(z)
        PROVE  i + 1 \in 1 .. Len(q) /\ z[i] = q[i + 1]
    BY <2>1, <2>3
  <2>7. /\ asked[c] # NoResume => \A i \in 1 .. Len(z) : z[i] \in ScreenMsg => z[i].base <= Len(log)
        /\ \A i \in 1 .. Len(z) : z[i] \in AckMsg => z[i].epoch <= boot
        /\ c \notin attached => \A i \in 1 .. Len(z) : z[i] \in AckMsg => z[i].epoch # boot
    BY <2>5, <2>6
  <2>8. Asking(c)' /\ Dated(c)'
    BY <1>2, <2>2, <2>3, <2>7 DEF Asking, Dated
  <2>9. Live(c)' => Live(c)
    BY <2>2 DEF Live, Arriving
  <2> QED
    BY <2>8, <2>9 DEF HonestTab
<1> QED
  BY <1>3

LEMMA AtTabKept ==
  ASSUME UNCHANGED AtTab
  PROVE  /\ log' = log /\ boot' = boot /\ asked' = asked /\ attached' = attached
         /\ OldestIndex' = OldestIndex /\ Past' = Past
<1>1. log' = log /\ cleared' = cleared /\ boot' = boot /\ asked' = asked /\ attached' = attached
  BY DEF AtTab, handler
<1>2. OldestIndex' = OldestIndex
  BY <1>1 DEF OldestIndex, Committed
<1> QED
  BY <1>1, <1>2 DEF Past

LEMMA HonestTypes ==
  ASSUME HonestInv, NEW c \in Client
  PROVE  /\ Types /\ HonestTab(c) /\ link \in [Client -> {"down", "open", "acked"}]
         /\ epoch \in [Client -> 0 .. MaxBoots] /\ store \in [Client -> Stores] /\ boot \in Int
<1>1. Types /\ HonestTab(c)
  BY DEF HonestInv, ScreenInv
<1> QED
  BY <1>1 DEF Types, SocketTypes, TabTypes

LEMMA HonestAck ==
  ASSUME HonestInv, Types', NEW c \in Client, RecvResumeAck(c)
  PROVE  HonestTab(c)' /\ (Live(c) => Carried(c))
<1> DEFINE m  == Head(down[c])
           st == Resumed(store[c], epoch[c], m.epoch)
<1>1. /\ Arriving(c, "resumeAck") /\ Consume(c) /\ UNCHANGED AtTab /\ Apply(c, st)
      /\ link' = [link EXCEPT ![c] = "acked"] /\ epoch' = [epoch EXCEPT ![c] = m.epoch]
  BY DEF RecvResumeAck
<1>2. /\ Types /\ HonestTab(c) /\ link \in [Client -> {"down", "open", "acked"}]
      /\ epoch \in [Client -> 0 .. MaxBoots] /\ store \in [Client -> Stores] /\ boot \in Int
  BY HonestTypes
<1>3. /\ link'[c] = "acked" /\ epoch'[c] = m.epoch
      /\ \A d \in Client : d # c => link'[d] = link[d] /\ epoch'[d] = epoch[d]
  BY <1>1, <1>2
<1>4. /\ m \in AckMsg /\ m \in Msg /\ m.epoch \in 1 .. MaxBoots /\ m.kind = "resumeAck"
      /\ link[c] # "down" /\ down[c] \in Seq(Msg) /\ Len(down[c]) >= 1 /\ m = down[c][1]
  BY <1>1, <1>2, ArrivingIs, MessageIs
<1>5. m.epoch <= boot /\ (c \notin attached => m.epoch # boot)
  <2> DEFINE q == Pipeline(c)
  <2>1. q \in Seq(Msg) /\ q # <<>> /\ Head(q) = m
    BY <1>1, <1>2, PipelineTail
  <2>2. Dated(c)
    BY <1>2 DEF HonestTab
  <2>3. /\ \A i \in 1 .. Len(q) : q[i] \in AckMsg => q[i].epoch <= boot
        /\ c \notin attached => \A i \in 1 .. Len(q) : q[i] \in AckMsg => q[i].epoch # boot
    BY <1>4, <2>2 DEF Dated
  <2> HIDE DEF q, m
  <2>4. 1 \in 1 .. Len(q) /\ q[1] = m
    BY <2>1
  <2> QED
    BY <1>4, <2>3, <2>4
<1>6. asked[c] = NoResume
  <2>1. 1 \in 1 .. Len(down[c])
    BY <1>4
  <2> QED
    BY <1>2, <1>4, <2>1 DEF Types, SocketTypes
<1>7. Pristine(c)'
  BY <1>3, <1>4 DEF Pristine
<1>8. Adrift(c)'
  BY <1>1, <1>3, <1>6, AtTabKept DEF Adrift
<1> HIDE DEF m
<1>9. ASSUME Live(c)
      PROVE  Carried(c)
  <2>1. ASSUME NEW s \in Marks, NEW u \in Marks, Bears(c, s), MarkStep(log, boot, s, m, u)
        PROVE  Bears(c, u)'
    <3>1. /\ s.at = "mute" /\ m.epoch = boot /\ u.at = "live" /\ u.top = s.top /\ u.prov = s.prov
          /\ u.buf = s.buf /\ u.room = s.room
      BY <2>1, <1>4 DEF MarkStep, AckMark
    <3>2. link[c] = "open" /\ Current(c) = st
      BY <2>1, <3>1 DEF Bears, Current
    <3>3. Current(c)' = st
      BY <1>1, <1>2, <1>3 DEF Current, Apply
    <3>4. PICK v : v = st
      OBVIOUS
    <3>5. Sound(v, u.top, u.prov, Past) /\ Matches(v, u) /\ u.top <= Len(log)
      BY <2>1, <3>1, <3>2, <3>4 DEF Bears, Matches
    <3>6. v = Current(c)' /\ log' = log /\ Past' = Past
      BY <3>3, <3>4, <1>1, AtTabKept
    <3>7. PICK F : F = Past'
      OBVIOUS
    <3>8. Sound(v, u.top, u.prov, F)
      BY <3>5, <3>6, <3>7
    <3> QED
      BY <3>1, <3>5, <3>6, <3>7, <3>8, <1>3 DEF Bears
  <2> QED
    BY <2>1 DEF m, Carried
<1>10. Live(c) => Marked(c)'
  BY <1>1, <1>9, MarkedOn
<1> HIDE DEF st
<1>11. HonestTab(c)'
  BY <1>1, <1>3, <1>5, <1>7, <1>8, <1>10, TabReceived
<1> QED
  BY <1>9, <1>11

LEMMA WindowMarked ==
  ASSUME NEW h, NEW e, NEW s \in Marks, NEW u \in Marks, NEW m \in ScreenMsg,
         MarkStep(h, e, s, m, u)
  PROVE  /\ s.at = "mute" => u = s /\ (m.cleared => m.base <= s.top)
         /\ s.at = "live" => /\ s.top <= m.base /\ s.prov <= m.base /\ m.base <= Len(h)
                             /\ u.at = "live" /\ u.top = m.base /\ u.prov = s.prov
                             /\ Faces(u, m)
                             /\ m.alt => u.room = s.room
                             /\ ~m.alt => u.room = m.base
<1>1. m.kind = "screen"
  BY MessageIs
<1>2. m.kind # "resumeAck" /\ m.kind # "scroll"
  BY <1>1
<1>3. WindowMark(h, s, m, u)
  BY <1>2 DEF MarkStep
<1>4. ASSUME s.at = "mute"
      PROVE  u = s /\ (m.cleared => m.base <= s.top)
  BY <1>3, <1>4, Zenon DEF WindowMark
<1>5. ASSUME s.at = "live"
      PROVE  /\ s.top <= m.base /\ s.prov <= m.base /\ m.base <= Len(h)
             /\ u.at = "live" /\ u.top = m.base /\ u.prov = s.prov /\ Faces(u, m)
             /\ m.alt => u.room = s.room
             /\ ~m.alt => u.room = m.base
  <2>1. s.at # "mute"
    BY <1>5
  <2> QED
    BY <1>3, <2>1, Zenon DEF WindowMark, Faces
<1> QED
  BY <1>4, <1>5, Zenon

\* A window that reaches a tab leaves it where the next mark says.
LEMMA ScreenBears ==
  ASSUME NEW st \in Stores, NEW m \in ScreenMsg, NEW h, NEW e, NEW s \in Marks, NEW u \in Marks,
         s.at = "live", MarkStep(h, e, s, m, u), NEW G, Sound(st, s.top, s.prov, G),
         Matches(st, s), RoomAssumption,
         NEW p \in Pictures, Carries(m, p), Shows(ApplyScreen(st, m), p)
  PROVE  /\ u.at = "live" /\ Sound(ApplyScreen(st, m), u.top, u.prov, G)
         /\ Matches(ApplyScreen(st, m), u) /\ u.top <= Len(h)
<1> DEFINE r == ApplyScreen(st, m)
<1>1. /\ s.top <= m.base /\ s.prov <= m.base /\ m.base <= Len(h)
      /\ u.at = "live" /\ u.top = m.base /\ u.prov = s.prov
  BY WindowMarked
<1>2. Faces(u, m) /\ (m.alt => u.room = s.room) /\ (~m.alt => u.room = m.base)
  BY WindowMarked
<1>3. s.top \in Nat /\ s.prov \in Int
  BY MarkIs
<1>4. /\ Sound(r, m.base, s.prov, G)
      /\ r.alt <=> m.alt
      /\ m.alt => r.win = st.win
  BY <1>1, <1>3, ScreenSound
<1>5. Shows(r, p)
  OBVIOUS
<1> HIDE DEF r
<1>6. u.buf = "alt" <=> r.alt
  BY <1>2, <1>4, Zenon DEF Faces
<1>7. ASSUME r.win.height > 0
      PROVE  u.room <= r.win.base
  <2>1. CASE m.alt
    <3>1. r.win = st.win /\ u.room = s.room
      BY <2>1, <1>2, <1>4, Zenon
    <3> QED
      BY <3>1, <1>7 DEF Matches
  <2>2. CASE ~m.alt
    <3>1. p.base = m.base /\ p.mode # "alt"
      BY <2>2, Zenon DEF Carries
    <3>2. r.win = [base |-> p.base, height |-> Height]
      BY <3>1, <1>5 DEF Shows
    <3>3. u.room = m.base
      BY <2>2, <1>2, Zenon
    <3>4. m.base \in Int
      BY MessageIs
    <3> QED
      BY <3>1, <3>2, <3>3, <3>4
  <2> QED
    BY <2>1, <2>2
<1>8. Matches(r, u)
  BY <1>6, <1>7, Zenon DEF Matches
<1>9. Sound(r, u.top, u.prov, G) /\ u.top <= Len(h)
  BY <1>1, <1>4
<1> QED
  BY <1>1, <1>8, <1>9 DEF r

LEMMA WindowArrives ==
  ASSUME ScreenInv, NEW c \in Client, Arriving(c, "screen"), Consume(c), UNCHANGED AtTab,
         Live(c), link[c] = "acked"
  PROVE  \E p \in Pictures : /\ Carries(Head(down[c]), p)
                             /\ Shows(ApplyScreen(store[c], Head(down[c])), p)
<1>1. /\ Types /\ store[c] \in Stores /\ Head(down[c]) \in ScreenMsg
      /\ Head(down[c]).kind = "screen"
  BY ArrivingIs, MessageIs DEF ScreenInv, Types, TabTypes
<1>2. PICK s \in Stages, t \in Stages :
        /\ Leads(ScreenSteps, Stages, Pipeline(c), s, t)
        /\ Stands(c, s) /\ Expected(t)
  BY DEF ScreenInv, Following, Live, Follows
<1> DEFINE q == Pipeline(c)
           m == Head(down[c])
<1>3. q \in Seq(Msg) /\ q # <<>> /\ Head(q) = m
  BY <1>1, PipelineTail
<1>4. Leads(ScreenSteps, Stages, q, s, t) /\ m \in ScreenMsg /\ m.kind = "screen"
  BY <1>1, <1>2
<1> HIDE DEF q, m
<1>5. PICK u \in Stages : <<s, Head(q), u>> \in ScreenSteps
  BY <1>3, <1>4, LeadsTail
<1>6. ScreenStep(s, m, u)
  BY <1>3, <1>5, ScreenStepIs
<1>7. s.mode # "mute" /\ (s \in Pictures => Shows(store[c], s))
  BY <1>2, StagesAre DEF Stands, Pictures
<1>8. u \in Pictures /\ Carries(m, u) /\ (Whole(m) \/ (s \in Pictures /\ Fits(s, m)))
  BY <1>4, <1>6, <1>7 DEF ScreenStep
<1>9. Shows(ApplyScreen(store[c], m), u)
  BY <1>1, <1>4, <1>7, <1>8, ScreenShows
<1> QED
  BY <1>8, <1>9 DEF m

LEMMA MatchesKept ==
  ASSUME NEW st, NEW r, NEW s, Matches(st, s), r.alt = st.alt, r.win = st.win
  PROVE  Matches(r, s)
  BY Zenon DEF Matches

\* A window that reaches a mute tab moves it by its ED3 at most.
LEMMA MutedBears ==
  ASSUME NEW st \in Stores, NEW known, NEW now, NEW m \in ScreenMsg, NEW top \in Int,
         NEW prov \in Int, NEW s, NEW G,
         Sound(Resumed(st, known, now), top, prov, G), Matches(Resumed(st, known, now), s),
         m.cleared => m.base <= top
  PROVE  /\ Sound(Resumed(Muted(st, m), known, now), top, prov, G)
         /\ Matches(Resumed(Muted(st, m), known, now), s)
<1>1. CASE known \in {0, now}
  <2>1. Resumed(st, known, now) = st /\ Resumed(Muted(st, m), known, now) = Muted(st, m)
    BY <1>1 DEF Resumed
  <2>2. Sound(Muted(st, m), top, prov, G)
    BY <2>1, MutedSound
  <2>3. Muted(st, m).alt = st.alt /\ Muted(st, m).win = st.win
    BY MutedKeeps
  <2>4. Matches(Muted(st, m), s)
    BY <2>1, <2>3, MatchesKept
  <2> QED
    BY <2>1, <2>2, <2>4
<1>2. CASE known \notin {0, now}
  BY <1>2 DEF Resumed
<1> QED
  BY <1>1, <1>2

LEMMA PristineMuted ==
  ASSUME NEW c \in Client, NEW st \in Stores, Pristine(c), epoch'[c] = epoch[c],
         link'[c] = link[c], store'[c] = st,
         epoch[c] = 0 => /\ Held(st) = {} /\ st.evictedThrough = -1 /\ st.erasedThrough = -1
                         /\ st.win.height = 0 /\ ~st.alt
  PROVE  Pristine(c)'
  BY DEF Pristine

LEMMA HonestScreen ==
  ASSUME HonestInv, Types', RoomAssumption, NEW c \in Client, RecvScreen(c)
  PROVE  HonestTab(c)' /\ (Live(c) => Carried(c))
<1> DEFINE m  == Head(down[c])
           st == AtScreen(c, m)
<1>1. /\ Arriving(c, "screen") /\ Consume(c) /\ UNCHANGED AtTab /\ Apply(c, st)
      /\ link' = link /\ epoch' = epoch
  BY ScreenReceived
<1>2. /\ Types /\ HonestTab(c) /\ link \in [Client -> {"down", "open", "acked"}]
      /\ epoch \in [Client -> 0 .. MaxBoots] /\ store \in [Client -> Stores] /\ boot \in Int
  BY HonestTypes
<1>3. /\ m \in ScreenMsg /\ link[c] \in {"open", "acked"} /\ store[c] \in Stores
      /\ m.base \in Int /\ Len(log) \in Int
  BY <1>1, <1>2, ArrivingIs, MessageIs, LogIs
<1>4. store'[c] = st
  BY <1>1, <1>2 DEF Apply
<1>5. st \in Stores
  BY <1>3, ScreenTyped, MutedTyped DEF AtScreen
<1>6. link[c] = "open" => st = Muted(store[c], m)
  BY DEF AtScreen
<1>7. link[c] = "acked" => st = ApplyScreen(store[c], m)
  BY DEF AtScreen
<1>8. log' = log /\ boot' = boot /\ asked' = asked /\ attached' = attached /\ Past' = Past
  BY <1>1, AtTabKept
<1>9. epoch[c] <= boot /\ (c \notin attached => epoch[c] # boot)
  BY <1>2, <1>3 DEF HonestTab, Dated
<1>10. Pristine(c)'
  <2> HIDE DEF m, st
  <2>1. Pristine(c)
    BY <1>2 DEF HonestTab
  <2>2. ASSUME epoch[c] = 0
        PROVE  /\ Held(st) = {} /\ st.evictedThrough = -1 /\ st.erasedThrough = -1
               /\ st.win.height = 0 /\ ~st.alt
    <3>1. /\ link[c] = "open" /\ Held(store[c]) = {} /\ store[c].evictedThrough = -1
          /\ store[c].erasedThrough = -1 /\ store[c].win.height = 0 /\ ~store[c].alt
      BY <1>3, <2>1, <2>2 DEF Pristine
    <3>2. st = Muted(store[c], m)
      BY <3>1, <1>6
    <3> QED
      BY <1>3, <3>1, <3>2, MutedKeeps
  <2> QED
    BY <1>1, <1>4, <1>5, <2>1, <2>2, PristineMuted
<1> HIDE DEF m, st
<1>11. PICK F : F = Past'
  OBVIOUS
<1>12. Adrift(c)'
  <2>1. ASSUME asked[c] # NoResume, epoch[c] = boot
        PROVE  Sound(st, Len(log), asked[c] + 1, Past)
    <3>1. link[c] = "open" /\ asked[c] \in Int
      BY <1>2, <2>1 DEF Types, SocketTypes
    <3>2. Sound(store[c], Len(log), asked[c] + 1, Past)
      BY <1>2, <2>1 DEF HonestTab, Adrift
    <3>3. m.base <= Len(log)
      <4> DEFINE q == Pipeline(c)
      <4>1. q \in Seq(Msg) /\ q # <<>> /\ Head(q) = m
        BY <1>1, <1>2, PipelineTail DEF m
      <4>2. \A i \in 1 .. Len(q) : q[i] \in ScreenMsg => q[i].base <= Len(log)
        BY <1>2, <2>1 DEF HonestTab, Asking
      <4> HIDE DEF q
      <4>3. 1 \in 1 .. Len(q) /\ q[1] = m
        BY <4>1
      <4> QED
        BY <4>2, <4>3, <1>3
    <3>4. Sound(Muted(store[c], m), Len(log), asked[c] + 1, Past)
      <4> DEFINE p == asked[c] + 1
      <4>1. p \in Int
        BY <3>1
      <4>2. Sound(store[c], Len(log), p, Past)
        BY <3>2
      <4> HIDE DEF p
      <4>3. Sound(Muted(store[c], m), Len(log), p, Past)
        BY <1>3, <3>3, <4>1, <4>2, MutedSound
      <4> QED
        BY <4>3 DEF p
    <3> QED
      BY <3>1, <3>4, <1>6
  <2>2. ASSUME asked[c] # NoResume, epoch[c] = boot
        PROVE  Sound(st, Len(log), asked[c] + 1, F)
    BY <2>1, <2>2, <1>8, <1>11
  <2>3. ~(link'[c] = "down")
    BY <1>1, <1>3
  <2> QED
    BY <1>1, <1>4, <1>8, <1>11, <2>2, <2>3 DEF Adrift
<1>13. ASSUME Live(c)
       PROVE  Carried(c)
  <2>1. ASSUME NEW s \in Marks, NEW u \in Marks, Bears(c, s), MarkStep(log, boot, s, m, u)
        PROVE  Bears(c, u)'
    <3>1. /\ s.at = "mute" => u = s /\ (m.cleared => m.base <= s.top)
          /\ s.top \in Int /\ s.prov \in Int /\ s.top \in Nat
      BY <1>3, <2>1, WindowMarked, MarkIs
    <3>2. CASE link[c] = "open"
      <4>1. u = s /\ s.at = "mute" /\ (m.cleared => m.base <= s.top)
        BY <2>1, <3>1, <3>2, Zenon DEF Bears
      <4>2. /\ Sound(Resumed(store[c], epoch[c], boot), s.top, s.prov, Past)
            /\ Matches(Resumed(store[c], epoch[c], boot), s) /\ s.top <= Len(log)
        BY <2>1, <3>2 DEF Bears, Current
      <4>3. PICK v : v = Resumed(Muted(store[c], m), epoch[c], boot)
        OBVIOUS
      <4>4. Sound(v, s.top, s.prov, Past) /\ Matches(v, s)
        BY <1>3, <3>1, <4>1, <4>2, <4>3, MutedBears
      <4>5. v = Current(c)'
        BY <1>1, <1>4, <1>6, <1>8, <3>2, <4>3 DEF Current
      <4>6. Sound(v, s.top, s.prov, F)
        BY <4>4, <1>8, <1>11
      <4> QED
        BY <1>1, <1>8, <1>11, <3>2, <4>1, <4>2, <4>4, <4>5, <4>6 DEF Bears
    <3>3. CASE link[c] = "acked"
      <4>1. /\ s.at = "live" /\ Sound(store[c], s.top, s.prov, Past) /\ Matches(store[c], s)
        BY <2>1, <3>3, MarkIs DEF Bears, Current
      <4>2. PICK p \in Pictures : Carries(m, p) /\ Shows(ApplyScreen(store[c], m), p)
        BY <1>1, <1>13, <3>3, WindowArrives DEF m, HonestInv
      <4>3. /\ u.at = "live" /\ Sound(ApplyScreen(store[c], m), u.top, u.prov, Past)
            /\ Matches(ApplyScreen(store[c], m), u) /\ u.top <= Len(log)
        BY <1>3, <2>1, <4>1, <4>2, ScreenBears
      <4>4. st = Current(c)' /\ st = ApplyScreen(store[c], m)
        BY <1>1, <1>4, <1>7, <3>3 DEF Current
      <4>5. Sound(st, u.top, u.prov, F) /\ Matches(st, u)
        BY <4>3, <4>4, <1>8, <1>11
      <4> QED
        BY <1>1, <1>8, <1>11, <3>3, <4>3, <4>4, <4>5 DEF Bears
    <3> QED
      BY <1>3, <3>2, <3>3
  <2> QED
    BY <2>1 DEF m, Carried
<1>14. Live(c) => Marked(c)'
  BY <1>1, <1>13, MarkedOn
<1>15. HonestTab(c)'
  BY <1>1, <1>9, <1>10, <1>12, <1>14, TabReceived
<1> QED
  BY <1>13, <1>15

LEMMA LinesMarked ==
  ASSUME NEW h, NEW e, NEW s \in Marks, NEW u \in Marks, NEW m \in ScrollMsg,
         MarkStep(h, e, s, m, u)
  PROVE  LinesMark(h, s, m, u) /\ (s.at = "mute" => u = s)
<1>1. m.kind = "scroll"
  BY MessageIs
<1>2. LinesMark(h, s, m, u)
  BY <1>1 DEF MarkStep
<1> QED
  BY <1>2 DEF LinesMark

\* Lines that reach a tab leave it where the next mark says.
LEMMA ScrollBears ==
  ASSUME NEW st \in Stores, NEW m \in ScrollMsg, NEW h \in Seq(Row), NEW e, NEW s \in Marks,
         NEW u \in Marks, s.at = "live", MarkStep(h, e, s, m, u), NEW old \in Int,
         Sound(st, s.top, s.prov, Genuine(h, old)), Matches(st, s), s.top <= Len(h),
         RoomAssumption
  PROVE  /\ u.at = "live" /\ Sound(ApplyScroll(st, m), u.top, u.prov, Genuine(h, old))
         /\ Matches(ApplyScroll(st, m), u) /\ u.top <= Len(h)
<1> DEFINE end == m.first + Len(m.lines)
           G   == Genuine(h, old)
<1>1. /\ m.first <= s.prov /\ end <= Len(h)
      /\ s.buf = "main" \/ end <= s.room \/ end <= s.prov
      /\ \A i \in 1 .. Len(m.lines) : m.lines[i] = h[m.first + i]
      /\ u.at = "live" /\ u.top = Larger(s.top, end) /\ u.prov = Larger(s.prov, end)
      /\ u.buf = s.buf /\ u.room = s.room
  <2>1. LinesMark(h, s, m, u) /\ s.at # "mute"
    BY LinesMarked
  <2> QED
    BY <2>1 DEF LinesMark
<1>2. /\ s.top \in Nat /\ s.prov \in Int /\ s.room \in Int /\ Len(h) \in Nat
      /\ m.first \in Nat /\ Len(m.lines) \in Nat /\ m.lines \in Seq(Row)
  BY MarkIs, MessageIs
<1>3. ASSUME NEW i \in 1 .. Len(m.lines)
      PROVE  <<m.first + i - 1, m.lines[i]>> \in G
  <2> DEFINE a == m.first + i - 1
  <2>1. a \in Nat /\ m.lines[i] \in Row /\ a < Len(h) /\ a + 1 = m.first + i
    <3>1. m.lines[i] \in Row
      BY <1>2
    <3>2. m.first \in Nat /\ Len(m.lines) \in Nat /\ Len(h) \in Nat /\ end <= Len(h)
      BY <1>1, <1>2
    <3> QED
      BY <3>1, <3>2
  <2>2. m.lines[i] = h[a + 1]
    BY <1>1, <2>1
  <2> HIDE DEF a
  <2>3. <<a, m.lines[i]>> \in G
    BY <2>1, <2>2 DEF Genuine
  <2> QED
    BY <2>3 DEF a
<1>4. \/ ~(st.alt /\ st.win.height > 0)
      \/ end <= st.win.base
      \/ end <= s.prov
  <2>1. SUFFICES ASSUME st.alt, st.win.height > 0, ~(end <= s.prov)
                 PROVE  end <= st.win.base
    OBVIOUS
  <2>2. s.buf = "alt" /\ s.room <= st.win.base
    BY <2>1, Zenon DEF Matches
  <2>3. end <= s.room
    BY <1>1, <2>1, <2>2
  <2>4. st.win.base \in Int
    BY StoreIs
  <2> QED
    BY <1>2, <2>2, <2>3, <2>4
<1>5. Sound(st, s.top, s.prov, G)
  OBVIOUS
<1> HIDE DEF G
<1>6. Sound(ApplyScroll(st, m), Larger(s.top, end), Larger(s.prov, end), G)
  BY <1>1, <1>2, <1>3, <1>4, <1>5, ScrollSound
<1>7. ApplyScroll(st, m).alt = st.alt /\ ApplyScroll(st, m).win = st.win
  BY ScrollIs DEF Scrolled
<1>8. Matches(ApplyScroll(st, m), u)
  <2>1. Matches(ApplyScroll(st, m), s)
    BY <1>7, MatchesKept
  <2> QED
    BY <1>1, <2>1, Zenon DEF Matches
<1>9. u.top <= Len(h)
  BY <1>1, <1>2 DEF Larger
<1> QED
  BY <1>1, <1>6, <1>8, <1>9 DEF G

LEMMA HonestScroll ==
  ASSUME HonestInv, Types', RoomAssumption, NEW c \in Client, RecvScroll(c)
  PROVE  HonestTab(c)' /\ (Live(c) => Carried(c))
<1> DEFINE m  == Head(down[c])
           st == AtScroll(c, m)
<1>1. /\ Arriving(c, "scroll") /\ Consume(c) /\ UNCHANGED AtTab /\ Apply(c, st)
      /\ link' = link /\ epoch' = epoch
  BY DEF RecvScroll, AtScroll
<1>2. /\ Types /\ HonestTab(c) /\ link \in [Client -> {"down", "open", "acked"}]
      /\ epoch \in [Client -> 0 .. MaxBoots] /\ store \in [Client -> Stores] /\ boot \in Int
  BY HonestTypes
<1>3. /\ m \in ScrollMsg /\ link[c] \in {"open", "acked"} /\ store[c] \in Stores
      /\ OldestIndex \in Int /\ log \in Seq(Row)
  BY <1>1, <1>2, ArrivingIs, OldestIs
<1>4. store'[c] = st
  BY <1>1, <1>2 DEF Apply
<1>5. /\ link[c] = "open" => st = store[c]
      /\ link[c] = "acked" => st = ApplyScroll(store[c], m)
  BY DEF AtScroll
<1> HIDE DEF m, st
<1>6. log' = log /\ boot' = boot /\ asked' = asked /\ attached' = attached /\ Past' = Past
  BY <1>1, AtTabKept
<1>7. epoch[c] <= boot /\ (c \notin attached => epoch[c] # boot)
  BY <1>2, <1>3 DEF HonestTab, Dated
<1>8. PICK F : F = Past'
  OBVIOUS
<1>9. Pristine(c)'
  <2>1. epoch[c] = 0 => link[c] = "open" /\ st = store[c]
    BY <1>2, <1>3, <1>5 DEF HonestTab, Pristine
  <2> QED
    BY <2>1, <1>1, <1>2, <1>4 DEF HonestTab, Pristine
<1>10. Adrift(c)'
  <2>1. ASSUME asked[c] # NoResume, epoch[c] = boot
        PROVE  Sound(st, Len(log), asked[c] + 1, F)
    <3>1. link[c] = "open"
      BY <1>2, <2>1 DEF Types, SocketTypes
    <3>2. Sound(store[c], Len(log), asked[c] + 1, Past)
      BY <1>2, <2>1 DEF HonestTab, Adrift
    <3> QED
      BY <3>1, <3>2, <1>5, <1>6, <1>8
  <2>2. ~(link'[c] = "down")
    BY <1>1, <1>3
  <2> QED
    BY <1>1, <1>4, <1>6, <1>8, <2>1, <2>2 DEF Adrift
<1>11. ASSUME Live(c)
       PROVE  Carried(c)
  <2>1. ASSUME NEW s \in Marks, NEW u \in Marks, Bears(c, s), MarkStep(log, boot, s, m, u)
        PROVE  Bears(c, u)'
    <3>1. CASE link[c] = "open"
      <4>1. u = s /\ s.at = "mute"
        <5>1. s.at = "mute"
          BY <2>1, <3>1 DEF Bears
        <5>2. s.at = "mute" => u = s
          BY <1>3, <2>1, LinesMarked
        <5> QED
          BY <5>1, <5>2
      <4>2. PICK v : v = Current(c)
        OBVIOUS
      <4>3. v = Current(c)'
        BY <1>1, <1>4, <1>5, <1>6, <3>1, <4>2 DEF Current
      <4>4. Sound(v, s.top, s.prov, F) /\ Matches(v, s) /\ s.top <= Len(log)
        BY <2>1, <4>2, <1>6, <1>8 DEF Bears
      <4> QED
        BY <1>1, <1>6, <1>8, <3>1, <4>1, <4>3, <4>4 DEF Bears
    <3>2. CASE link[c] = "acked"
      <4>1. /\ s.at = "live" /\ Sound(store[c], s.top, s.prov, Past) /\ Matches(store[c], s)
            /\ s.top <= Len(log)
        BY <2>1, <3>2, MarkIs DEF Bears, Current
      <4>2. /\ u.at = "live" /\ Sound(ApplyScroll(store[c], m), u.top, u.prov, Past)
            /\ Matches(ApplyScroll(store[c], m), u) /\ u.top <= Len(log)
        BY <1>3, <2>1, <4>1, ScrollBears DEF Past
      <4>3. st = Current(c)' /\ st = ApplyScroll(store[c], m)
        BY <1>1, <1>4, <1>5, <3>2 DEF Current
      <4>4. Sound(st, u.top, u.prov, F) /\ Matches(st, u)
        BY <4>2, <4>3, <1>6, <1>8
      <4> QED
        BY <1>1, <1>6, <1>8, <3>2, <4>2, <4>3, <4>4 DEF Bears
    <3> QED
      BY <1>3, <3>1, <3>2
  <2> QED
    BY <2>1 DEF m, Carried
<1>12. Live(c) => Marked(c)'
  BY <1>1, <1>11, MarkedOn
<1>13. HonestTab(c)'
  BY <1>1, <1>7, <1>9, <1>10, <1>12, TabReceived
<1> QED
  BY <1>11, <1>13

LEMMA HonestInit == Init => HonestInv
<1> SUFFICES ASSUME Init PROVE HonestInv
  OBVIOUS
<1>1. ScreenInv
  BY ScreenInit
<1>2. FrameTrue
  BY DEF Init, FrameTrue
<1>3. ASSUME NEW c \in Client
      PROVE  HonestTab(c)
  <2>1. /\ link[c] = "down" /\ epoch[c] = 0 /\ boot = 1 /\ asked[c] = NoResume
        /\ store[c] = EmptyStore /\ attached = {} /\ down[c] = <<>> /\ todo = <<>>
    BY DEF Init
  <2>2. Pristine(c)
    BY <2>1, EmptyIs DEF Pristine
  <2>3. Adrift(c) /\ Asking(c)
    BY <2>1 DEF Adrift, Asking
  <2>4. Len(Pipeline(c)) = 0
    BY <2>1 DEF Pipeline
  <2>5. Dated(c)
    BY <2>1, <2>4 DEF Dated
  <2>6. ~Live(c)
    BY <2>1 DEF Live
  <2> QED
    BY <2>2, <2>3, <2>5, <2>6 DEF HonestTab
<1> QED
  BY <1>1, <1>2, <1>3 DEF HonestInv

LEMMA HonestNext ==
  ASSUME Mishaps \cap {"altReturn", "sharedDrain"} = {}, RoomAssumption
  PROVE  HonestInv /\ [Next]_vars => HonestInv'
<1> SUFFICES ASSUME HonestInv, [Next]_vars PROVE HonestInv'
  OBVIOUS
<1>1. ScreenInv' /\ Types /\ Types'
  BY ScreenNext DEF HonestInv, ScreenInv
<1>2. FrameTrue'
  BY <1>1, HonestRestart, HonestBuild, Onward DEF HonestInv
<1>3. ASSUME NEW c \in Client
      PROVE  HonestTab(c)'
  <2>1. CASE Restart
    BY <1>1, <2>1, HonestRestart
  <2>2. CASE Attach(c) \/ Detach(c) \/ Reload(c) \/ Resume(c)
    BY <1>1, <2>2, HonestAttach, HonestDetach, HonestReload, HonestResume
  <2>3. CASE RecvResumeAck(c) \/ RecvScreen(c) \/ RecvScroll(c)
    BY <1>1, <2>3, HonestAck, HonestScreen, HonestScroll
  <2>4. CASE ~Restart /\ WritePayloads(c)
    BY <1>1, <2>4, HonestWrite
  <2>5. CASE BuildFrame /\ c \in Reached /\ ~UNCHANGED <<pass, log>>
    BY <1>1, <2>5, HonestBuild
  <2>6. CASE ~Restart /\ ~OwnStep(c) /\ (BuildFrame => c \notin Reached \/ UNCHANGED <<pass, log>>)
    BY <1>1, <2>6, Beside, Onward DEF HonestInv
  <2> QED
    BY <2>1, <2>2, <2>3, <2>4, <2>5, <2>6 DEF OwnStep
<1> QED
  BY <1>1, <1>2, <1>3 DEF HonestInv

LEMMA HonestEnough == HonestInv => ClaimIsHonest
<1> SUFFICES ASSUME HonestInv, NEW c \in Client, epoch[c] = boot,
                    NEW a \in Held(store[c]), a <= ReplayBoundary(store[c])
             PROVE  a < Committed /\ (a >= OldestIndex => Agrees(c, a))
  BY DEF ClaimIsHonest
<1>1. Types /\ HonestTab(c) /\ store[c] \in Stores
  BY HonestTypes
<1>2. PICK prov \in Int : Sound(store[c], Len(log), prov, Past)
  BY <1>1, ClaimSound
<1>3. /\ ReplayBoundary(store[c]) \in Int /\ ReplayBoundary(store[c]) < store[c].floor
      /\ store[c].floor \in Int /\ a \in Nat
  BY <1>1, BoundaryIs, StoreIs
<1>4. a \notin Drawn(store[c], Past)
  <2>1. \A b \in Drawn(store[c], Past) : b >= store[c].floor
    BY <1>2 DEF Sound, Kept
  <2> QED
    BY <1>3, <2>1
<1>5. <<a, store[c].lines[a]>> \in Past
  BY <1>4 DEF Drawn
<1>6. a < OldestIndex \/ (a < Len(log) /\ store[c].lines[a] = log[a + 1])
  BY <1>5 DEF Past, Genuine
<1>7. OldestIndex \in Int /\ OldestIndex <= Len(log) /\ Len(log) \in Int
  BY <1>1, OldestIs
<1>8. a < Len(log)
  BY <1>3, <1>6, <1>7
<1>9. a >= OldestIndex => store[c].lines[a] = log[a + 1]
  BY <1>3, <1>6, <1>7
<1> QED
  BY <1>8, <1>9 DEF Committed, Agrees

\* A tab never claims, when it resumes, an index that history has not reached, nor
\* a row that differs from what the server would replay for it: the provisional
\* floor of store.ts stays at or below every row that only a window drew, through
\* resumes, muted frames, evictions, ED3, reloads and restarts of the server.  For
\* any window, any scrollback no deeper than one replay and any store with room for
\* a screenful besides what one eviction takes, and any network but the two mishaps
\* named: a return into the alternate screen after the main screen has scrolled,
\* and another tab's resume that commits lines a frame was to carry.
THEOREM ClaimSafe ==
  ASSUME Mishaps \cap {"altReturn", "sharedDrain"} = {}, RoomAssumption
  PROVE  Spec => []ClaimIsHonest
<1>1. Spec => []HonestInv
  BY HonestInit, HonestNext, PTL DEF Spec
<1> QED
  BY <1>1, HonestEnough, PTL

-----------------------------------------------------------------------------
(* Complete history.  Without ED3 a store refuses a line only if it evicted  *)
(* it or a newer one, so every index below the lines it was sent is held or  *)
(* at most evictedThrough: `r` covers what `st` covered.                     *)

Has(st, a)    == a \in Held(st) \/ a <= st.evictedThrough
Covers(r, st) == /\ st.evictedThrough <= r.evictedThrough
                 /\ \A a \in Held(st) : Has(r, a)

\* Nothing is missing from `old` up to `n`.
NoGap(st, old, n) == \A a \in old .. n - 1 : Has(st, a)

LEMMA CoversIs ==
  ASSUME NEW st \in Stores, NEW r \in Stores, Covers(r, st)
  PROVE  /\ \A a \in Int : Has(st, a) => Has(r, a)
         /\ \A old, n \in Int : NoGap(st, old, n) => NoGap(r, old, n)
         /\ \A q \in Stores : Covers(q, r) => Covers(q, st)
<1>1. /\ st.evictedThrough \in Int /\ r.evictedThrough \in Int
      /\ \A q \in Stores : q.evictedThrough \in Int
      /\ Held(st) \subseteq Int
  BY StoreIs
<1>2. ASSUME NEW a \in Int, Has(st, a)
      PROVE  Has(r, a)
  BY <1>1, <1>2 DEF Has, Covers
<1>3. ASSUME NEW q \in Stores, Covers(q, r)
      PROVE  Covers(q, st)
  <2>1. st.evictedThrough <= q.evictedThrough
    BY <1>1, <1>3 DEF Covers
  <2>2. ASSUME NEW a \in Held(st)
        PROVE  Has(q, a)
    <3>1. Has(r, a) /\ a \in Int
      BY <1>1, <2>2 DEF Covers
    <3> QED
      BY <1>1, <1>3, <3>1 DEF Has, Covers
  <2> QED
    BY <2>1, <2>2 DEF Covers
<1> QED
  BY <1>2, <1>3 DEF NoGap

LEMMA CapCovers ==
  ASSUME NEW st \in Stores
  PROVE  Covers(EnforceCap(st), st)
<1> DEFINE r == EnforceCap(st)
           V == Victims(st)
<1>1. st.evictedThrough \in Int /\ Held(st) \in SUBSET Nat /\ IsFiniteSet(Held(st))
  BY StoreIs
<1>2. CASE r = st
  BY <1>1, <1>2 DEF Covers, Has
<1>3. CASE /\ V \subseteq Evictable(st) /\ Held(r) = Held(st) \ V
           /\ r.evictedThrough = Larger(st.evictedThrough, Highest(V))
  <2>1. V \subseteq Held(st)
    BY <1>3 DEF Evictable
  <2>2. V \in SUBSET Nat /\ IsFiniteSet(V)
    BY <1>1, <2>1, FS_Subset
  <2>3. Highest(V) \in Int /\ \A a \in V : a <= Highest(V)
    BY <2>2, HighestIs
  <2> HIDE DEF V, r
  <2>4. Highest(V) <= r.evictedThrough /\ st.evictedThrough <= r.evictedThrough
        /\ r.evictedThrough \in Int
    BY <1>1, <1>3, <2>3, LargerIs
  <2>5. ASSUME NEW a \in Held(st)
        PROVE  Has(r, a)
    <3>1. CASE a \in V
      <4>1. a <= Highest(V) /\ a \in Int
        BY <3>1, <2>2, <2>3
      <4> QED
        BY <4>1, <2>3, <2>4 DEF Has
    <3>2. CASE a \notin V
      BY <1>3, <3>2 DEF Has
    <3> QED
      BY <3>1, <3>2
  <2> QED
    BY <2>4, <2>5 DEF Covers, r
<1> QED
  BY <1>2, <1>3, CapIs

LEMMA LineCovers ==
  ASSUME NEW st \in Stores, NEW a \in Index, NEW row \in Row, st.erasedThrough = -1
  PROVE  LET r == ApplyLine(st, a, row) IN
         /\ Covers(r, st) /\ Has(r, a)
         /\ Held(r) \subseteq Held(st) \cup {a}
<1> DEFINE r == ApplyLine(st, a, row)
<1>1. a \in Int /\ a >= 0 /\ st.evictedThrough \in Int
  BY StoreIs, Sizes DEF Index
<1>2. CASE r = st /\ (~Admitted(st, a) \/ (a \in Held(st) /\ st.lines[a] = row))
  <2>1. Has(st, a)
    BY <1>1, <1>2 DEF Admitted, Has
  <2>2. Covers(st, st)
    BY <1>1 DEF Covers, Has
  <2> QED
    BY <1>2, <2>1, <2>2
<1>3. CASE r = EnforceCap(Written(st, a, row))
  <2> DEFINE w == Written(st, a, row)
  <2>1. /\ w \in Stores /\ Held(w) = Held(st) \cup {a}
        /\ w.evictedThrough = st.evictedThrough
    BY WrittenIs
  <2> HIDE DEF w
  <2>2. Covers(w, st) /\ Has(w, a)
    BY <1>1, <2>1 DEF Covers, Has
  <2>3. /\ EnforceCap(w) \in Stores /\ Covers(EnforceCap(w), w)
        /\ Held(EnforceCap(w)) \subseteq Held(w)
    BY <2>1, CapIs, CapCovers DEF Keeps
  <2>4. Covers(EnforceCap(w), st) /\ Has(EnforceCap(w), a)
    BY <1>1, <2>1, <2>2, <2>3, CoversIs
  <2> QED
    BY <1>3, <2>1, <2>3, <2>4 DEF w
<1> QED
  BY <1>2, <1>3, LineIs

\* Every row applied is covered, and none of another index appears.
RowsCovered(r, st, first, I) ==
  /\ Covers(r, st)
  /\ \A i \in I : Has(r, first + i - 1)
  /\ \A b \in Held(r) : b \in Held(st) \/ \E i \in I : b = first + i - 1

LEMMA RowsCover ==
  ASSUME NEW st \in Stores, NEW first, NEW rs, NEW I, Placed(first, rs, I),
         st.erasedThrough = -1
  PROVE  RowsCovered(ApplyRows(st, first, rs, I), st, first, I)
<1> DEFINE Sofar(r, k) ==
             /\ r \in Stores /\ r.erasedThrough = -1 /\ Covers(r, st)
             /\ \A i \in I : i <= k => Has(r, first + i - 1)
             /\ \A b \in Held(r) : b \in Held(st) \/ \E i \in I : b = first + i - 1
           N == Len(rs)
<1>1. PICK after : /\ Steps(after, st, first, rs, I)
                   /\ ApplyRows(st, first, rs, I) = after[N]
  <2>1. N \in Nat
    BY DEF Placed
  <2> QED
    BY <2>1, RowsAre
<1> DEFINE S == {k \in 0 .. N : Sofar(after[k], k)}
<1>2. N \in Nat /\ first \in Nat /\ I \subseteq 1 .. N
  BY DEF Placed
<1>3. 0 \in S
  <2>1. st.evictedThrough \in Int
    BY StoreIs
  <2>2. Covers(st, st)
    BY <2>1 DEF Covers, Has
  <2>3. Sofar(st, 0)
    BY <2>2, <1>2
  <2> HIDE DEF Sofar
  <2>4. after[0] = st
    BY <1>1 DEF Steps
  <2> QED
    BY <2>3, <2>4, <1>2
<1>4. ASSUME NEW k \in 1 .. N, k - 1 \in S
      PROVE  k \in S
  <2> DEFINE p == after[k - 1]
             q == after[k]
             a == first + k - 1
  <2>1. Sofar(p, k - 1) /\ k \in 0 .. N
    BY <1>4, <1>2
  <2>2. q = IF k \in I THEN ApplyLine(p, a, rs[k]) ELSE p
    BY <1>1 DEF Steps
  <2> HIDE DEF p, q
  <2>3. CASE k \notin I
    <3>1. \A i \in I : i <= k => i <= k - 1
      BY <2>3, <1>2
    <3>2. q = p
      BY <2>2, <2>3
    <3>3. Sofar(p, k)
      BY <2>1, <3>1
    <3> HIDE DEF Sofar
    <3> QED
      BY <2>1, <3>2, <3>3 DEF q
  <2>4. CASE k \in I
    <3>1. a \in Index /\ rs[k] \in Row /\ q = ApplyLine(p, a, rs[k])
      BY <2>2, <2>4 DEF Placed
    <3>2. q \in Stores /\ q.erasedThrough = -1
      BY <3>1, <2>1, LineKeeps
    <3>3. Covers(q, p) /\ Has(q, a) /\ Held(q) \subseteq Held(p) \cup {a}
      BY <3>1, <2>1, LineCovers
    <3>4. Covers(q, st) /\ \A b \in Int : Has(p, b) => Has(q, b)
      BY <2>1, <3>2, <3>3, CoversIs
    <3>5. ASSUME NEW i \in I, i <= k
          PROVE  Has(q, first + i - 1)
      <4>1. i \in Nat /\ first + i - 1 \in Int
        BY <1>2
      <4>2. CASE i = k
        BY <4>2, <3>3
      <4>3. CASE i # k
        <5>1. i <= k - 1
          BY <4>1, <4>3, <3>5, <1>2
        <5> QED
          BY <5>1, <4>1, <2>1, <3>4
      <4> QED
        BY <4>2, <4>3
    <3>6. \A b \in Held(q) : b \in Held(st) \/ \E i \in I : b = first + i - 1
      BY <2>1, <2>4, <3>3
    <3>7. Sofar(q, k)
      BY <3>2, <3>4, <3>5, <3>6
    <3> HIDE DEF Sofar
    <3> QED
      BY <2>1, <3>7 DEF q
  <2> QED
    BY <2>3, <2>4
<1>5. N \in S
  <2> HIDE DEF S
  <2>1. \A k \in 0 .. N : k \in S
    BY <1>2, <1>3, <1>4, Ascends
  <2> QED
    BY <2>1, <1>2
<1>6. Sofar(after[N], N)
  BY <1>5
<1>7. \A i \in I : i <= N
  BY <1>2
<1> QED
  BY <1>1, <1>6, <1>7 DEF RowsCovered

\* What a tab has, read against a mark: no readable line is missing below where
\* its lines reach, and it claims none that the server had not committed.
Unbroken(st, old, s) == NoGap(st, old, s.prov) /\ ReplayBoundary(st) < s.top

LEMMA MainWhole ==
  ASSUME NEW st \in Stores, NEW m \in ScreenMsg, st.erasedThrough = -1,
         NEW old \in Int, NEW prov \in Int, prov <= m.base, NoGap(st, old, prov)
  PROVE  LET r == ApplyMainRows(st, m) IN
         /\ r \in Stores /\ r.erasedThrough = -1 /\ NoGap(r, old, prov) /\ r.floor <= m.base
<1> DEFINE base == m.base
           s == Shaped(st, m)
           a == ApplyRows(s, base, m.rows, m.changed)
           t == TruncateBelowWindow(a)
           r == EnforceCap(t)
<1>1. base \in Int /\ Placed(base, m.rows, m.changed) /\ Height \in Int /\ Height > 0
  BY ScreenPlaced, MessageIs, Sizes
<1>2. /\ s \in Stores /\ Held(s) = Held(st) /\ s.floor <= base
      /\ s.evictedThrough = st.evictedThrough /\ s.erasedThrough = -1
      /\ Bottom(s) = base + Height - 1 /\ st.floor \in Int
  <2>1. /\ s \in Stores /\ Held(s) = Held(st) /\ s.floor = Smaller(st.floor, base)
        /\ s.evictedThrough = st.evictedThrough /\ s.erasedThrough = st.erasedThrough
        /\ Bottom(s) = base + Height - 1
    BY ShapedIs
  <2>2. st.floor \in Int
    BY StoreIs
  <2> HIDE DEF s, base
  <2> QED
    BY <2>1, <2>2, <1>1, SmallerIs
<1>3. ApplyMainRows(st, m) = r
  BY DEF ApplyMainRows, Shaped
<1> HIDE DEF s
<1>4. /\ a \in Stores /\ Alike(a, s) /\ a.erasedThrough = -1 /\ Covers(a, s)
  <2>1. RowsKept(a, s, base, m.rows, m.changed)
    BY <1>1, <1>2, RowsKeep, Zenon
  <2>2. RowsCovered(a, s, base, m.changed)
    BY <1>1, <1>2, RowsCover, Zenon
  <2> HIDE DEF a
  <2> QED
    BY <2>1, <2>2, <1>2 DEF RowsKept, RowsCovered
<1> HIDE DEF a
<1>5. /\ t \in Stores /\ Alike(t, a) /\ t.evictedThrough = a.evictedThrough
      /\ t.erasedThrough = -1
      /\ \A b \in Held(a) : b <= Bottom(a) => b \in Held(t)
  <2>1. /\ t \in Stores /\ Alike(t, a) /\ t.evictedThrough = a.evictedThrough
        /\ t.erasedThrough = a.erasedThrough
        /\ Held(t) = IF a.win.height = 0 THEN Held(a)
                     ELSE Held(a) \ {b \in Held(a) : b > Bottom(a)}
    BY <1>4, TruncateIs
  <2>2. Held(a) \subseteq Int /\ Bottom(a) \in Int
    BY <1>1, <1>2, <1>4, StoreIs, AlikeIs
  <2> HIDE DEF t
  <2> QED
    BY <2>1, <2>2, <1>4
<1> HIDE DEF t
<1>6. r \in Stores /\ Alike(r, t) /\ r.erasedThrough = -1 /\ Covers(r, t)
  BY <1>5, CapIs, CapCovers
<1>7. r.floor <= base
  BY <1>2, <1>4, <1>5, <1>6 DEF Alike
<1>8. Bottom(a) = base + Height - 1
  BY <1>2, <1>4, AlikeIs
<1> HIDE DEF r
<1>9. ASSUME NEW b \in old .. prov - 1
      PROVE  Has(r, b)
  <2>1. b \in Int /\ b <= Bottom(a)
    BY <1>1, <1>8
  <2>2. Has(s, b)
    BY <1>2 DEF NoGap, Has
  <2>3. Has(a, b)
    BY <1>2, <1>4, <2>1, <2>2, CoversIs
  <2>4. Has(t, b)
    BY <1>5, <2>1, <2>3 DEF Has
  <2> QED
    BY <1>5, <1>6, <2>1, <2>4, CoversIs
<1> QED
  BY <1>3, <1>6, <1>7, <1>9 DEF NoGap

LEMMA ScreenWhole ==
  ASSUME NEW st \in Stores, NEW m \in ScreenMsg, st.erasedThrough = -1, ~m.cleared,
         NEW old \in Int, NEW s \in Marks, NEW u \in Marks, Unbroken(st, old, s),
         s.top <= m.base, s.prov <= m.base, u.top = m.base, u.prov = s.prov
  PROVE  LET r == ApplyScreen(st, m) IN
         r.erasedThrough = -1 /\ Unbroken(r, old, u)
<1> DEFINE r == ApplyScreen(st, m)
<1>1. m.rows # <<>> /\ m.base \in Int /\ s.prov \in Int /\ s.top \in Int
  <2>1. m.rows \in Picture
    BY DEF ScreenMsg
  <2> QED
    BY <2>1, PictureIs, MessageIs, MarkIs
<1>2. r = IF m.alt THEN ApplyAltRows(st, m) ELSE ApplyMainRows(st, m)
  BY <1>1 DEF ApplyScreen
<1>3. CASE m.alt
  <2>1. /\ r.lines = st.lines /\ r.floor = st.floor
        /\ r.evictedThrough = st.evictedThrough /\ r.erasedThrough = st.erasedThrough
    BY <1>2, <1>3, AltKeeps
  <2> HIDE DEF r
  <2>2. Held(r) = Held(st)
    BY <2>1 DEF Held
  <2>3. ReplayBoundary(r) = ReplayBoundary(st) /\ ReplayBoundary(st) \in Int
    BY <2>1, <2>2, BoundaryIs DEF ReplayBoundary
  <2>4. NoGap(r, old, s.prov)
    BY <2>1, <2>2 DEF Unbroken, NoGap, Has
  <2>5. ReplayBoundary(r) < u.top
    BY <2>3, <1>1 DEF Unbroken
  <2> QED
    BY <2>1, <2>4, <2>5 DEF Unbroken, r
<1>4. CASE ~m.alt
  <2>1. r \in Stores /\ r.erasedThrough = -1 /\ NoGap(r, old, s.prov) /\ r.floor <= m.base
    BY <1>1, <1>2, <1>4, MainWhole DEF Unbroken
  <2> HIDE DEF r
  <2>2. ReplayBoundary(r) < r.floor /\ ReplayBoundary(r) \in Int /\ r.floor \in Int
    BY <2>1, BoundaryIs, StoreIs
  <2> QED
    BY <2>1, <2>2, <1>1 DEF Unbroken, r
<1> QED
  BY <1>3, <1>4

LEMMA ScrollWhole ==
  ASSUME NEW st \in Stores, NEW m \in ScrollMsg, st.erasedThrough = -1,
         NEW old \in Int, NEW s \in Marks, NEW u \in Marks, Unbroken(st, old, s),
         m.first <= s.prov,
         u.top = Larger(s.top, m.first + Len(m.lines)),
         u.prov = Larger(s.prov, m.first + Len(m.lines)),
         \/ ~(st.alt /\ st.win.height > 0)
         \/ m.first + Len(m.lines) <= st.win.base
         \/ m.first + Len(m.lines) <= s.prov,
         Filled(ApplyScroll(st, m), u.top)
  PROVE  LET r == ApplyScroll(st, m) IN
         r.erasedThrough = -1 /\ Unbroken(r, old, u)
<1> DEFINE took == Took(st, m)
           n    == Len(m.lines)
           q    == ApplyRows(st, m.first, m.lines, 1 .. took)
           r    == ApplyScroll(st, m)
           end  == m.first + n
<1>1. took = Smaller(n, IF st.alt /\ st.win.height > 0 THEN st.win.base - m.first ELSE n)
  BY DEF Took
<1>2. /\ took \in Int /\ took <= n /\ 1 .. took \subseteq 1 .. n
      /\ m.first \in Nat /\ n \in Nat /\ m.first + n <= MaxChunks
      /\ \A i \in 1 .. n : m.lines[i] \in Row /\ m.first + i - 1 \in Index
      /\ r = ConfirmRange(q, m.first, took) /\ q \in Stores /\ r \in Stores
      /\ Alike(q, st) /\ q.erasedThrough = st.erasedThrough
  <2>1. Scrolled(st, m, took, q, r)
    BY ScrollIs, Zenon
  <2> HIDE DEF took, q, r
  <2> QED
    BY <2>1 DEF Scrolled, RowsKept
<1>3. /\ st.win.base \in Int /\ s.top \in Int /\ s.prov \in Int /\ u.top \in Int /\ s.top >= 0
      /\ MaxChunks \in Int
  BY StoreIs, MarkIs, Sizes
<1> HIDE DEF took, n, r
<1>4. took = n \/ end <= s.prov
  <2>1. CASE ~(st.alt /\ st.win.height > 0)
    BY <2>1, <1>1, <1>2 DEF Smaller
  <2>2. CASE (st.alt /\ st.win.height > 0) /\ end <= st.win.base
    <3>1. took = Smaller(n, st.win.base - m.first) /\ end <= st.win.base
      BY <2>2, <1>1
    <3>2. m.first \in Int /\ n \in Int /\ st.win.base \in Int
      BY <1>2, <1>3
    <3> QED
      BY <3>1, <3>2 DEF Smaller
  <2>3. CASE end <= s.prov
    BY <2>3
  <2> QED
    BY <2>1, <2>2, <2>3 DEF n
<1>5. RowsCovered(q, st, m.first, 1 .. took)
  <2>1. Placed(m.first, m.lines, 1 .. took)
    BY <1>2 DEF Placed, n
  <2> QED
    BY <2>1, RowsCover, Zenon
<1> HIDE DEF q
<1>6. /\ Held(r) = Held(q) /\ r.evictedThrough = q.evictedThrough /\ r.erasedThrough = -1
      /\ \/ r.floor = q.floor
         \/ took > 0 /\ r.floor = Larger(q.floor, m.first + took)
         \/ took > 0 /\ r.floor = Larger(m.first + took, Lowest(Held(q)))
  <2>1. took > 0 => m.first + took <= MaxChunks
    BY <1>2, <1>3
  <2>2. /\ q \in Stores /\ m.first \in Nat /\ took \in Int /\ r = ConfirmRange(q, m.first, took)
        /\ took > 0 => m.first + took <= MaxChunks
        /\ q.erasedThrough = -1
    BY <1>2, <2>1
  <2> QED
    BY <2>2, ConfirmIs
<1>7. NoGap(r, old, u.prov)
  <2>1. SUFFICES ASSUME NEW a \in old .. u.prov - 1 PROVE Has(q, a)
    BY <1>6 DEF NoGap, Has
  <2>2. CASE a < s.prov
    <3>1. Has(st, a) /\ a \in Int
      BY <2>2, <1>3 DEF Unbroken, NoGap
    <3> QED
      BY <3>1, <1>2, <1>5, CoversIs DEF RowsCovered
  <2>3. CASE ~(a < s.prov)
    <3> DEFINE i == a - m.first + 1
    <3>1. a \in Int /\ a < end /\ a >= s.prov /\ took = n
      <4>1. u.prov = s.prov \/ u.prov = end
        BY DEF Larger, n
      <4>2. a \in Int /\ a < u.prov
        BY <1>3, MarkIs
      <4> QED
        BY <4>1, <4>2, <2>3, <1>2, <1>3, <1>4
    <3>2. i \in 1 .. took /\ m.first + i - 1 = a
      <4>1. m.first \in Int /\ n \in Int /\ m.first <= a /\ a < m.first + n
        BY <3>1, <1>2, <1>3
      <4> QED
        BY <3>1, <4>1
    <3> HIDE DEF i
    <3> QED
      BY <3>2, <1>5 DEF RowsCovered
  <2> QED
    BY <2>2, <2>3
<1>8. ReplayBoundary(r) < u.top
  <2>1. /\ ReplayBoundary(r) \in Int /\ ReplayBoundary(r) <= Highest(Held(r))
        /\ ReplayBoundary(r) < r.floor /\ r.floor \in Int /\ q.floor = st.floor
        /\ Held(r) \in SUBSET Nat /\ IsFiniteSet(Held(r)) /\ st.floor \in Int
        /\ Held(st) \in SUBSET Nat /\ IsFiniteSet(Held(st))
    BY <1>2, BoundaryIs, StoreIs DEF Alike
  <2>2. s.top <= u.top /\ end <= u.top /\ m.first + took <= u.top
    <3>1. end \in Int /\ m.first + took \in Int /\ m.first + took <= end
      <4>1. m.first \in Nat /\ took \in Int /\ n \in Nat /\ took <= n
        BY <1>2, Zenon
      <4> QED
        BY <4>1
    <3>2. u.top = Larger(s.top, end)
      BY DEF n
    <3> HIDE DEF end
    <3> QED
      BY <3>1, <3>2, <1>3 DEF Larger
  <2>3. ReplayBoundary(st) \in {Highest(Held(st)), st.floor - 1} /\ ReplayBoundary(st) < s.top
    BY BoundaryIs DEF Unbroken
  <2>4. CASE Highest(Held(st)) < s.top
    <3>1. \A a \in Held(st) : a <= Highest(Held(st)) /\ Highest(Held(st)) \in Int
      BY <2>1, HighestIs
    <3>2. ASSUME NEW a \in Held(r)
          PROVE  a < u.top
      <4>1. a \in Int
        BY <2>1
      <4>2. a \in Held(st) \/ \E i \in 1 .. took : a = m.first + i - 1
        BY <1>5, <1>6 DEF RowsCovered
      <4>3. CASE a \in Held(st)
        BY <4>1, <4>3, <3>1, <2>2, <2>4, <1>3
      <4>4. CASE \E i \in 1 .. took : a = m.first + i - 1
        <5>1. PICK i \in 1 .. took : a = m.first + i - 1
          BY <4>4
        <5> QED
          <6>1. i <= took /\ i \in Int /\ m.first + took <= u.top
            BY <5>1, <2>2
          <6>2. took \in Int /\ m.first \in Int /\ u.top \in Int
            BY <1>2, <1>3
          <6> QED
            BY <5>1, <6>1, <6>2
      <4> QED
        BY <4>2, <4>3, <4>4
    <3>3. Highest(Held(r)) \in Int /\ (Highest(Held(r)) = -1 \/ Highest(Held(r)) \in Held(r))
      BY <2>1, HighestIs
    <3>4. Highest(Held(r)) < u.top
      BY <3>2, <3>3, <2>2, <1>3
    <3> QED
      BY <3>3, <3>4, <2>1, <1>3
  <2>5. CASE st.floor - 1 < s.top
    <3>1. Lowest(Held(r)) \in Int /\ Lowest(Held(r)) <= u.top
      <4>1. /\ Lowest(Held(r)) \in Int
            /\ Held(r) = {} => Lowest(Held(r)) = -1
            /\ Held(r) # {} => Lowest(Held(r)) \in Held(r)
            /\ \A a \in Held(r) : Lowest(Held(r)) <= a
        BY <2>1, LowestIs
      <4> DEFINE l == Lowest(Held(r))
      <4>2. SUFFICES ASSUME l > u.top PROVE FALSE
        BY <4>1, <1>3
      <4> HIDE DEF l
      <4>3. l \in Held(r) /\ l \in Int /\ \A a \in Held(r) : l <= a
        BY <4>1, <4>2, <2>2, <1>3 DEF l
      <4>4. u.top .. l \subseteq Held(r)
        BY <4>2, <4>3, <1>3 DEF Filled, r
      <4>5. u.top \in u.top .. l
        BY <4>2, <4>3, <1>3
      <4> QED
        BY <4>2, <4>3, <4>4, <4>5, <1>3
    <3> DEFINE l == Lowest(Held(r))
    <3> HIDE DEF l
    <3>2. \/ r.floor = st.floor
          \/ r.floor = Larger(st.floor, m.first + took)
          \/ r.floor = Larger(m.first + took, l)
      BY <1>6, <2>1 DEF l
    <3>3. r.floor <= u.top
      <4>1. l \in Int /\ l <= u.top /\ u.top \in Int /\ st.floor \in Int /\ st.floor <= u.top
        BY <3>1, <2>1, <2>2, <2>5, <1>3 DEF l
      <4>2. m.first + took \in Int /\ m.first + took <= u.top
        BY <2>2, <1>2
      <4> QED
        BY <3>2, <4>1, <4>2 DEF Larger
    <3> QED
      BY <3>3, <2>1, <1>3
  <2> QED
    BY <2>3, <2>4, <2>5
<1> QED
  BY <1>6, <1>7, <1>8 DEF Unbroken, r

LEMMA NothingClaimed ==
  ASSUME NEW st \in Stores, Held(st) = {}
  PROVE  ReplayBoundary(st) = -1
<1>1. Highest(Held(st)) = -1
  BY DEF Highest
<1>2. ReplayBoundary(st) \in Int /\ ReplayBoundary(st) >= -1 /\ ReplayBoundary(st) <= -1
  BY <1>1, BoundaryIs
<1> QED
  BY <1>2

\* What is saved has no gap, and what lies below it counts as evicted.
LEMMA RestoredWhole ==
  ASSUME NEW st \in Stores, NEW old \in Int, old >= 0
  PROVE  LET r == FromSnapshot(Snapshot(st)) IN
         /\ r.erasedThrough = -1 /\ NoGap(r, old, ReplayBoundary(r) + 1)
         /\ ReplayBoundary(r) <= ReplayBoundary(st)
<1> DEFINE r == FromSnapshot(Snapshot(st))
           H == Held(st)
           hi == Highest(H)
           T == {a \in H : a .. hi \subseteq H}
           S == Saved(st)
           Above(a) == {b \in T : b > a}
           z == ReplayBoundary(r)
<1>1. /\ r \in Stores /\ S \subseteq H
      /\ S = {} => r = EmptyStore
      /\ S # {} => /\ Held(r) = S /\ Keeps(r, st) /\ r.floor = st.floor
                   /\ r.win.height = 0 /\ ~r.alt /\ r.erasedThrough = -1
                   /\ r.evictedThrough = Lowest(S) - 1
  BY RestoredIs
<1> HIDE DEF r
<1>2. H \in SUBSET Nat /\ IsFiniteSet(H) /\ hi \in Int /\ \A a \in H : a <= hi
  BY StoreIs, HighestIs
<1>3. S = {a \in T : Cardinality(Above(a)) < MaxLines}
  BY DEF Saved, LastOf
<1>4. /\ ReplayBoundary(st) \in Int /\ ReplayBoundary(st) >= -1 /\ z \in Int
      /\ ReplayBoundary(st) \in {hi, st.floor - 1} /\ st.floor \in Int
      /\ z <= Highest(Held(r)) /\ z < r.floor
  BY <1>1, BoundaryIs, StoreIs
<1>5. CASE S = {}
  <2>1. r.erasedThrough = -1 /\ z = -1
    BY <1>1, <1>5, EmptyIs, NothingClaimed
  <2> HIDE DEF z
  <2>2. old .. (z + 1) - 1 = {}
    BY <2>1
  <2> QED
    BY <1>4, <2>1, <2>2 DEF NoGap, z, r
<1>6. CASE S # {}
  <2> DEFINE l == Lowest(S)
             k == Highest(S)
  <2> HIDE DEF S
  <2>1. S \in SUBSET Nat /\ IsFiniteSet(S)
    BY <1>1, <1>2, FS_Subset
  <2>2. l \in S /\ l \in Int /\ k \in S /\ k \in Int /\ k <= hi
    BY <2>1, <1>1, <1>2, <1>6, LowestIs, HighestIs
  <2> HIDE DEF l, k
  <2>3. ASSUME NEW a \in l .. k
        PROVE  a \in S
    <3>1. l .. hi \subseteq H /\ l \in T /\ Cardinality(Above(l)) < MaxLines
      BY <2>2, <1>3
    <3>2. a \in l .. hi /\ a .. hi \subseteq l .. hi
      BY <2>2, <1>2
    <3>3. a \in T
      BY <3>1, <3>2
    <3>4. T \in SUBSET H
      OBVIOUS
    <3>5. Above(l) \in SUBSET H /\ Above(a) \in SUBSET Above(l)
      BY <3>2, <2>2, <1>2
    <3> HIDE DEF Above, H, T, hi
    <3>6. IsFiniteSet(Above(l)) /\ IsFiniteSet(Above(a))
          /\ Cardinality(Above(a)) <= Cardinality(Above(l))
      BY <3>5, <1>2, FS_Subset
    <3>7. Cardinality(Above(a)) \in Int /\ Cardinality(Above(l)) \in Int /\ MaxLines \in Int
      BY <3>6, FS_CardinalityType, Sizes
    <3> QED
      BY <3>1, <3>3, <3>6, <3>7, <1>3
  <2>4. Held(r) = S /\ r.evictedThrough = l - 1 /\ r.erasedThrough = -1 /\ r.floor = st.floor
    BY <1>1, <1>6 DEF l
  <2>5. z <= k
    BY <1>4, <2>4 DEF k
  <2> HIDE DEF z
  <2>6. ASSUME NEW a \in old .. (z + 1) - 1
        PROVE  Has(r, a)
    <3>1. a \in Int /\ a <= k
      BY <2>2, <2>5, <1>4
    <3>2. CASE a < l
      BY <3>1, <3>2, <2>2, <2>4 DEF Has
    <3>3. CASE ~(a < l)
      <4>1. a \in l .. k
        BY <3>1, <3>3, <2>2
      <4> QED
        BY <4>1, <2>3, <2>4 DEF Has
    <3> QED
      BY <3>2, <3>3
  <2>7. z <= ReplayBoundary(st)
    BY <1>2, <1>4, <2>2, <2>4, <2>5
  <2> QED
    BY <2>4, <2>6, <2>7 DEF NoGap, z, r
<1> QED
  BY <1>5, <1>6

\* A connection that is lost when no line at or below the tab's claim is still
\* under way has brought every line of the claim.
LEMMA QuietClaims ==
  ASSUME NEW h, NEW e, NEW q \in Seq(Msg), NEW s \in Marks, NEW v \in Marks, NEW b \in Int,
         Leads(MarkSteps(h, e), Marks, q, s, v), b < s.top, v.prov = v.top,
         \A i \in 1 .. Len(q) : q[i].kind = "scroll" => b < q[i].first
  PROVE  b < s.prov
<1> SUFFICES ASSUME ~(b < s.prov) PROVE FALSE
  OBVIOUS
<1> DEFINE n == Len(q)
<1>1. PICK P : Path(MarkSteps(h, e), Marks, q, s, v, P)
  BY DEF Leads
<1>2. /\ P[0] = s /\ P[n] = v /\ n \in Nat /\ s.top \in Int /\ s.prov \in Int
      /\ \A i \in 0 .. n : P[i] \in Marks
      /\ \A i \in 1 .. n : <<P[i - 1], q[i], P[i]>> \in MarkSteps(h, e)
  BY <1>1, MarkIs DEF Path
<1> DEFINE S == {i \in 0 .. n : P[i].prov = s.prov /\ s.top <= P[i].top}
<1>3. 0 \in S
  BY <1>2
<1>4. ASSUME NEW i \in 1 .. n, i - 1 \in S
      PROVE  i \in S
  <2> DEFINE m == q[i]
             x == P[i - 1]
             y == P[i]
  <2>1. /\ i \in 0 .. n /\ i - 1 \in 0 .. n /\ m \in Msg /\ x \in Marks /\ y \in Marks
        /\ x.prov = s.prov /\ s.top <= x.top
    BY <1>2, <1>4
  <2>2. <<x, m, y>> \in MarkSteps(h, e)
    BY <1>2
  <2>3. m.kind = "scroll" => b < m.first
    OBVIOUS
  <2> HIDE DEF m, x, y
  <2>4. MarkStep(h, e, x, m, y)
    BY <2>1, <2>2, MarkStepIs
  <2>5. x.top \in Int /\ y.top \in Int
    BY <2>1, MarkIs
  <2>6. y.prov = s.prov /\ s.top <= y.top
    <3>1. CASE m \in AckMsg
      <4>1. AckMark(e, x, m, y)
        BY <3>1, <2>4, MessageIs DEF MarkStep
      <4> QED
        BY <4>1, <2>1 DEF AckMark
    <3>2. CASE m \in ScreenMsg
      <4>1. /\ x.at = "mute" => y = x
            /\ x.at = "live" => x.top <= m.base /\ y.top = m.base /\ y.prov = x.prov
        BY <3>2, <2>1, <2>4, WindowMarked
      <4>2. m.base \in Int /\ x.at \in {"mute", "live"}
        BY <3>2, <2>1, MessageIs, MarkIs
      <4> QED
        BY <4>1, <4>2, <2>1, <2>5, <1>2
    <3>3. CASE m \in ScrollMsg
      <4>1. LinesMark(h, x, m, y) /\ (x.at = "mute" => y = x)
        BY <3>3, <2>1, <2>4, LinesMarked
      <4>2. b < m.first /\ m.first \in Int
        BY <3>3, <2>3, MessageIs
      <4>3. x.at = "mute"
        BY <4>1, <4>2, <2>1, <1>2 DEF LinesMark
      <4> QED
        BY <4>1, <4>3, <2>1
    <3> QED
      BY <3>1, <3>2, <3>3, <2>1, MessageIs
  <2> QED
    BY <2>1, <2>6 DEF y
<1>5. n \in S
  <2> HIDE DEF S
  <2>1. \A i \in 0 .. n : i \in S
    BY <1>2, <1>3, <1>4, Ascends
  <2> QED
    BY <2>1, <1>2
<1>6. v.prov = s.prov /\ s.top <= v.top /\ v.top \in Int
  BY <1>2, <1>5, MarkIs
<1> QED
  BY <1>2, <1>6

-----------------------------------------------------------------------------
(* Without ED3 nothing under way clears a store, and no store erased a line. *)

PlainMsg == {m \in Msg : m \in ScreenMsg => ~m.cleared}
Plain    == /\ ~pending /\ (frame # NoFrame => ~frame.cleared)
            /\ down \in [Client -> Seq(PlainMsg)]
            /\ \A c \in Client : store[c].erasedThrough = -1

LEMMA PlainIs ==
  /\ \A q \in Seq(Msg) :
       (\A i \in 1 .. Len(q) : q[i] \in ScreenMsg => ~q[i].cleared) => q \in Seq(PlainMsg)
  /\ \A m \in PlainMsg : m \in Msg /\ (m \in ScreenMsg => ~m.cleared)
<1>1. ASSUME NEW q \in Seq(Msg), \A i \in 1 .. Len(q) : q[i] \in ScreenMsg => ~q[i].cleared
      PROVE  q \in Seq(PlainMsg)
  <2>1. Len(q) \in Nat /\ q \in [1 .. Len(q) -> Msg]
    OBVIOUS
  <2>2. \A i \in 1 .. Len(q) : q[i] \in PlainMsg
    BY <1>1, <2>1 DEF PlainMsg
  <2>3. q \in [1 .. Len(q) -> PlainMsg]
    BY <2>1, <2>2
  <2> QED
    BY <2>1, <2>3
<1> QED
  BY <1>1 DEF PlainMsg

LEMMA ErasesNothing ==
  ASSUME NEW st \in Stores, st.erasedThrough = -1
  PROVE  /\ \A m \in ScreenMsg : ~m.cleared => ApplyScreen(st, m).erasedThrough = -1
         /\ \A m \in ScrollMsg : ApplyScroll(st, m).erasedThrough = -1
<1>1. ASSUME NEW m \in ScreenMsg, ~m.cleared
      PROVE  ApplyScreen(st, m).erasedThrough = -1
  <2>1. m.rows # <<>> /\ 0 <= m.base /\ NoGap(st, 0, 0)
    <3>1. m.rows \in Picture /\ m.base \in Nat
      BY MessageIs DEF ScreenMsg
    <3> QED
      BY <3>1, PictureIs DEF NoGap
  <2>2. ApplyMainRows(st, m).erasedThrough = -1 /\ ApplyAltRows(st, m).erasedThrough = -1
    BY <2>1, MainWhole, AltKeeps
  <2> QED
    BY <1>1, <2>1, <2>2 DEF ApplyScreen
<1>2. ASSUME NEW m \in ScrollMsg
      PROVE  ApplyScroll(st, m).erasedThrough = -1
  <2> DEFINE t == Took(st, m)
             r == ApplyRows(st, m.first, m.lines, 1 .. t)
  <2>1. Scrolled(st, m, t, r, ApplyScroll(st, m))
    BY ScrollIs
  <2> DEFINE f == m.first
  <2> HIDE DEF t, r
  <2>2. /\ t \in Int /\ f \in Nat /\ (t > 0 => f + t <= MaxChunks)
        /\ r \in Stores /\ r.erasedThrough = -1 /\ ApplyScroll(st, m) = ConfirmRange(r, f, t)
    BY <2>1, Sizes DEF Scrolled, RowsKept
  <2> HIDE DEF f
  <2>3. ConfirmRange(r, f, t).erasedThrough = r.erasedThrough
    BY <2>2, ConfirmIs
  <2> QED
    BY <2>2, <2>3
<1> QED
  BY <1>1, <1>2

LEMMA PlainSent ==
  ASSUME frame \in Frames, ~frame.cleared, NEW c
  PROVE  Sent(c) \in Seq(PlainMsg)
<1> DEFINE m == Screen(frame)
           cs == Chunks(frame.first, frame.lines)
<1>1. m \in ScreenMsg /\ m.cleared = frame.cleared
  BY FrameIs DEF Screen
<1>2. cs \in Seq(Msg) /\ \A k \in 1 .. Len(cs) : cs[k] \in ScrollMsg
  BY FrameIs, LinesAre
<1> HIDE DEF m, cs
<1>3. m \in PlainMsg
  BY <1>1, MessageIs DEF PlainMsg
<1>4. cs \in Seq(PlainMsg)
  <2>1. \A k \in 1 .. Len(cs) : cs[k] \notin ScreenMsg
    BY <1>2, MessageIs
  <2> QED
    BY <1>2, <2>1, PlainIs
<1>5. <<m>> \o cs \in Seq(PlainMsg)
  BY <1>3, <1>4
<1> QED
  BY <1>4, <1>5 DEF Sent, m, cs

\* The messages of one tab and its store may change if both stay plain.
LEMMA PlainTab ==
  ASSUME Types, Plain, ~pending', frame' = frame \/ frame' = NoFrame,
         NEW c \in Client, NEW q \in Seq(PlainMsg), NEW st, st.erasedThrough = -1,
         down' = [down EXCEPT ![c] = q], store' = [store EXCEPT ![c] = st]
  PROVE  Plain'
<1>1. down' \in [Client -> Seq(PlainMsg)]
  BY DEF Plain
<1>2. \A d \in Client : store'[d].erasedThrough = -1
  BY DEF Plain, Types, TabTypes
<1> QED
  BY <1>1, <1>2 DEF Plain

LEMMA PlainNext ==
  ASSUME Types, Plain, "forget" \notin Drawing, [Next]_vars
  PROVE  Plain'
<1>0. /\ store \in [Client -> Stores] /\ down \in [Client -> Seq(PlainMsg)]
      /\ \A c \in Client : store[c] \in Stores /\ store[c].erasedThrough = -1
  BY DEF Types, TabTypes, Plain
<1>1. CASE \/ PrintLine \/ EraseScreen \/ EraseSaved \/ EnterAlt \/ ExitAlt
           \/ \E y \in 1 .. Height : Rewrite(y)
  <2>1. UNCHANGED <<pass, sockets, tabs>>
    BY <1>1, HandlerChild DEF Types
  <2>2. pending' = pending
    BY <1>1 DEF PrintLine, EraseScreen, EraseSaved, EnterAlt, ExitAlt, Rewrite, handler
  <2> QED
    BY <2>1, <2>2 DEF Plain, pass, sockets, tabs
<1>2. CASE Suspended \/ Restart \/ UNCHANGED vars
  BY <1>2 DEF Suspended, Restart, Plain, vars, handler, pass, sockets, tabs
<1>3. CASE BuildFrame
  <2>1. ~pending /\ pending' = FALSE /\ UNCHANGED <<sockets, tabs>>
    BY <1>3 DEF BuildFrame, Plain
  <2>2. UNCHANGED pass \/ ~frame'.cleared
    BY <1>3, <2>1 DEF BuildFrame
  <2> QED
    BY <2>1, <2>2 DEF Plain, pass, sockets, tabs
<1>4. ASSUME NEW c \in Client, WritePayloads(c)
      PROVE  Plain'
  <2>1. /\ c \in DOMAIN todo /\ Served(c) /\ UNCHANGED <<handler, tabs>>
        /\ down' = [down EXCEPT ![c] = @ \o Payloads(frame, todo[c] = gen[c])]
    BY <1>4 DEF WritePayloads
  <2>2. frame \in Frames /\ (frame' = frame \/ frame' = NoFrame) /\ frame # NoFrame
    BY <2>1, ServedIs DEF Types, PassTypes
  <2>3. Payloads(frame, todo[c] = gen[c]) = Sent(c) /\ Sent(c) \in Seq(PlainMsg)
    BY <2>2, SentIs, PlainSent DEF Plain
  <2>4. down' = [down EXCEPT ![c] = down[c] \o Sent(c)] /\ down[c] \o Sent(c) \in Seq(PlainMsg)
    <3> DEFINE p == Sent(c)
    <3> HIDE DEF p
    <3>1. p \in Seq(PlainMsg) /\ Payloads(frame, todo[c] = gen[c]) = p /\ down[c] \in Seq(PlainMsg)
      BY <1>0, <2>3 DEF p
    <3>2. down[c] \o p \in Seq(PlainMsg)
      BY <3>1
    <3> QED
      BY <2>1, <3>1, <3>2 DEF p
  <2> QED
    BY <1>0, <2>1, <2>2, <2>4, PlainTab DEF Plain, handler, tabs
<1>5. ASSUME NEW c \in Client, Attach(c) \/ Reap(c)
      PROVE  Plain'
  BY <1>5 DEF Attach, Reap, Plain, handler, pass, tabs
<1>6. ASSUME NEW c \in Client, Resume(c)
      PROVE  Plain'
  <2>1. PICK w \in ScreenMsg, rest \in Seq(Msg) :
          /\ FullScreen(w) /\ (rest = <<w>> \o Replay(c) \/ rest = Replay(c) \o <<w>>)
          /\ down' = [down EXCEPT ![c] = @ \o (<<Ack>> \o rest)]
    BY <1>6, ResumeIs DEF Types, HandlerTypes
  <2>2. UNCHANGED <<pending, pass, tabs>> /\ asked[c] \in Int /\ Ack.kind = "resumeAck" /\ Ack \in Msg
    BY <1>6, ResumeIs DEF Types, SocketTypes, Ack
  <2>3. Ack \in PlainMsg /\ w \in PlainMsg
    BY <2>1, <2>2, MessageIs DEF PlainMsg, FullScreen
  <2>4. Replay(c) \in Seq(PlainMsg)
    <3>1. /\ Replay(c) \in Seq(Msg)
          /\ \A k \in 1 .. Len(Replay(c)) : Replay(c)[k] \in ScrollMsg
      BY <2>2, ReplayIs DEF Types
    <3>2. \A k \in 1 .. Len(Replay(c)) : Replay(c)[k] \notin ScreenMsg
      BY <3>1, MessageIs
    <3> QED
      BY <3>1, <3>2, PlainIs
  <2>5. down[c] \o (<<Ack>> \o rest) \in Seq(PlainMsg)
    <3> DEFINE r == Replay(c)
               a == Ack
    <3> HIDE DEF r, a
    <3>1. rest \in Seq(PlainMsg)
      <4>1. r \in Seq(PlainMsg) /\ <<w>> \in Seq(PlainMsg)
        BY <2>3, <2>4 DEF r
      <4>2. r \o <<w>> \in Seq(PlainMsg) /\ <<w>> \o r \in Seq(PlainMsg)
        BY <4>1
      <4> QED
        BY <2>1, <4>2 DEF r
    <3>2. <<a>> \o rest \in Seq(PlainMsg)
      BY <3>1, <2>3 DEF a
    <3> QED
      BY <1>0, <3>2 DEF a
  <2>6. store' = [store EXCEPT ![c] = store[c]] /\ frame' = frame
        /\ down' = [down EXCEPT ![c] = down[c] \o (<<Ack>> \o rest)]
    BY <1>0, <2>1, <2>2 DEF pass, tabs
  <2> QED
    BY <1>0, <2>2, <2>5, <2>6, PlainTab DEF Plain
<1>7. ASSUME NEW c \in Client, Detach(c)
      PROVE  Plain'
  <2>1. /\ down' = [down EXCEPT ![c] = <<>>] /\ UNCHANGED <<handler, store>>
        /\ IF c \in DOMAIN todo THEN Served(c) ELSE UNCHANGED pass
    BY <1>7 DEF Detach
  <2>2. frame' = frame \/ frame' = NoFrame
    BY <2>1, ServedIs DEF Types, pass
  <2>3. <<>> \in Seq(PlainMsg) /\ store' = [store EXCEPT ![c] = store[c]]
    BY <1>0, <2>1
  <2> QED
    BY <1>0, <2>1, <2>2, <2>3, PlainTab DEF Plain, handler
<1>8. ASSUME NEW c \in Client, NEW kind, Arriving(c, kind), Consume(c), UNCHANGED AtTab,
             NEW st, Apply(c, st), st.erasedThrough = -1
      PROVE  Plain'
  <2>1. down[c] # <<>> /\ Tail(down[c]) \in Seq(PlainMsg)
    BY <1>0, <1>8 DEF Arriving
  <2> QED
    BY <2>1, <1>8, PlainTab DEF Consume, Apply, AtTab, Plain, handler, pass
<1>9. ASSUME NEW c \in Client, RecvResumeAck(c) \/ RecvScreen(c) \/ RecvScroll(c)
      PROVE  Plain'
  <2> DEFINE m == Head(down[c])
  <2>1. down[c] # <<>> /\ m \in PlainMsg
    BY <1>0, <1>9 DEF RecvResumeAck, RecvScreen, RecvScroll, Arriving
  <2>2. CASE RecvResumeAck(c)
    <3>1. Resumed(store[c], epoch[c], m.epoch).erasedThrough = -1
      BY <1>0, EmptyIs DEF Resumed
    <3> QED
      BY <3>1, <2>2, <1>8 DEF RecvResumeAck
  <2>3. CASE RecvScreen(c)
    <3>1. m \in ScreenMsg /\ ~m.cleared
      BY <2>1, <2>3, ScreenReceived, ArrivingIs, PlainIs
    <3>2. AtScreen(c, m).erasedThrough = -1
      BY <1>0, <3>1, ErasesNothing, MutedIs DEF AtScreen
    <3> QED
      BY <3>2, <2>3, <1>8, ScreenReceived
  <2>4. CASE RecvScroll(c)
    <3>1. m \in ScrollMsg
      BY <2>4, ArrivingIs DEF RecvScroll
    <3>2. AtScroll(c, m).erasedThrough = -1
      BY <1>0, <3>1, ErasesNothing DEF AtScroll
    <3> QED
      BY <3>2, <2>4, <1>8 DEF RecvScroll, AtScroll
  <2> QED
    BY <1>9, <2>2, <2>3, <2>4
<1>10. ASSUME NEW c \in Client, Reload(c)
       PROVE  Plain'
  <2>1. PICK st : Apply(c, st) /\ st.erasedThrough = -1
    <3>1. EmptyStore.erasedThrough = -1 /\ FromSnapshot(Snapshot(store[c])).erasedThrough = -1
      BY <1>0, EmptyIs, RestoredWhole
    <3> QED
      BY <1>10, <3>1 DEF Reload
  <2>2. UNCHANGED <<pending, frame, down>> /\ down' = [down EXCEPT ![c] = down[c]]
    BY <1>0, <1>10 DEF Reload, AtTab, handler, pass
  <2> QED
    BY <1>0, <2>1, <2>2, PlainTab DEF Plain, Apply
<1> QED
  BY <1>1, <1>2, <1>3, <1>4, <1>5, <1>6, <1>7, <1>9, <1>10 DEF Next

-----------------------------------------------------------------------------
(* The invariant: what HonestInv says of a mark, with the marks that follow   *)
(* it, and nothing missing below the lines it promises.                       *)

\* No ED3 and none of the mishaps that leave gaps.
Gentle == "forget" \notin Drawing /\ Mishaps \subseteq {"lateClear"}

Rest(c) == IF c \in DOMAIN todo THEN Sent(c) ELSE <<>>

Claims(c) ==
  /\ asked[c] # NoResume => asked[c] = ReplayBoundary(store[c])
  /\ (link[c] = "down" \/ asked[c] # NoResume) /\ epoch[c] = boot =>
       /\ NoGap(store[c], OldestIndex, ReplayBoundary(store[c]) + 1)
       /\ ReplayBoundary(store[c]) < Len(log)

\* What was sent leaves no line out, nor does what is still to be written.
Ends(c, v, t) == v.prov = v.top /\ Complete(t, Len(log))
Chain(c, s, v, t) ==
  /\ Leads(MarkSteps(log, boot), Marks, down[c], s, v)
  /\ Leads(MarkSteps(log, boot), Marks, Rest(c), v, t)
  /\ Bears(c, s) /\ Unbroken(Current(c), OldestIndex, s) /\ Ends(c, v, t)
FullLive(c) == \E s, v, t \in Marks : Chain(c, s, v, t)

FullTab(c) == Claims(c) /\ (Live(c) => FullLive(c))
FullInv    == HonestInv /\ Plain /\ \A c \in Client : FullTab(c)

LEMMA NoGapLess ==
  ASSUME NEW st, NEW old \in Int, NEW n \in Int, NoGap(st, old, n),
         NEW o \in Int, NEW k \in Int, old <= o, k <= n
  PROVE  NoGap(st, o, k)
BY DEF NoGap

LEMMA FullMore ==
  ASSUME Types, Types', NEW c \in Client, Grows(log, OldestIndex, log', OldestIndex'),
         boot' = boot, epoch'[c] = epoch[c], link'[c] = link[c], store'[c] = store[c],
         NEW s \in Marks, Bears(c, s), Unbroken(Current(c), OldestIndex, s)
  PROVE  Bears(c, s)' /\ Unbroken(Current(c), OldestIndex, s)'
<1>1. PICK u, F, o : /\ u = Current(c) /\ u = Current(c)' /\ u \in Stores
                     /\ F = Past' /\ Past \subseteq F
                     /\ o = OldestIndex' /\ o \in Int /\ OldestIndex \in Int /\ OldestIndex <= o
  <2>1. store[c] \in Stores
    BY DEF Types, TabTypes
  <2>2. Current(c)' = Current(c) /\ Current(c) \in Stores
    BY <2>1, EmptyIs DEF Current, Resumed
  <2> QED
    BY <2>2, PastMore, OldestNext
<1>2. s.top \in Int /\ s.prov \in Int /\ Len(log) \in Int /\ Len(log') \in Int /\ Len(log) <= Len(log')
  BY MarkIs, OldestNext
<1>3. Sound(u, s.top, s.prov, F)
  <2>1. Sound(u, s.top, s.prov, Past) /\ s.top >= s.top /\ s.prov <= s.prov
    BY <1>1, <1>2 DEF Bears
  <2> QED
    BY <2>1, <1>1, <1>2, SoundMore
<1>4. Matches(u, s) /\ s.top <= Len(log') /\ (s.at = "mute" <=> link'[c] = "open")
  BY <1>1, <1>2 DEF Bears
<1>5. NoGap(u, o, s.prov) /\ ReplayBoundary(u) < s.top
  BY <1>1, <1>2, NoGapLess DEF Unbroken
<1> QED
  BY <1>1, <1>3, <1>4, <1>5 DEF Bears, Unbroken

LEMMA ClaimsStay ==
  ASSUME Types, Types', NEW c \in Client, Claims(c), Grows(log, OldestIndex, log', OldestIndex'),
         boot' = boot, epoch'[c] = epoch[c], link'[c] = link[c], asked'[c] = asked[c],
         store'[c] = store[c]
  PROVE  Claims(c)'
<1>1. PICK o : /\ o = OldestIndex' /\ o \in Int /\ OldestIndex \in Int /\ OldestIndex <= o
               /\ Len(log) \in Int /\ Len(log') \in Int /\ Len(log) <= Len(log')
               /\ ReplayBoundary(store[c]) \in Int
  BY OldestNext, BoundaryIs DEF Types, TabTypes
<1> QED
  BY <1>1, NoGapLess DEF Claims

LEMMA FullStays ==
  ASSUME Types, Types', [Next]_vars, ~Restart, NEW c \in Client, FullTab(c), Untouched(c)
  PROVE  FullTab(c)'
<1>1. Grows(log, OldestIndex, log', OldestIndex') /\ boot' = boot
  BY Onward
<1>2. Claims(c)'
  BY <1>1, ClaimsStay DEF FullTab, Untouched
<1>3. ASSUME Live(c)'
      PROVE  FullLive(c)'
  <2>1. Live(c) /\ log' = log /\ Rest(c)' = Rest(c)
    BY <1>3 DEF Live, Untouched, Rest, Sent
  <2>2. PICK s \in Marks, v \in Marks, t \in Marks : Chain(c, s, v, t)
    BY <2>1 DEF FullTab, FullLive
  <2>3. Bears(c, s)' /\ Unbroken(Current(c), OldestIndex, s)'
    BY <1>1, <2>2, FullMore DEF Chain, Untouched
  <2>4. Chain(c, s, v, t)'
    BY <1>1, <2>1, <2>2, <2>3 DEF Chain, Ends, Untouched
  <2> QED
    BY <2>4 DEF FullLive
<1> QED
  BY <1>2, <1>3 DEF FullTab

LEMMA FullWrite ==
  ASSUME FullInv, Types', Gentle, [Next]_vars, ~Restart, NEW c \in Client, WritePayloads(c)
  PROVE  FullTab(c)'
<1>1. /\ c \in DOMAIN todo /\ Served(c) /\ UNCHANGED <<handler, boot, attached, asked, tabs>>
      /\ down' = [down EXCEPT ![c] = @ \o Payloads(frame, todo[c] = gen[c])]
      /\ Types /\ FullTab(c)
  BY DEF WritePayloads, FullInv, HonestInv, ScreenInv
<1>2. /\ down[c] \in Seq(Msg) /\ Sent(c) \in Seq(Msg) /\ down'[c] = down[c] \o Sent(c)
      /\ c \notin DOMAIN todo'
  <2>1. frame \in Frames /\ c \notin DOMAIN todo' /\ down \in [Client -> Seq(Msg)]
    <3>1. PassTypes /\ down \in [Client -> Seq(Msg)]
      BY <1>1 DEF Types, SocketTypes
    <3> QED
      BY <1>1, <3>1, ServedIs
  <2>2. Payloads(frame, todo[c] = gen[c]) = Sent(c) /\ Sent(c) \in Seq(Msg)
    BY <2>1, SentIs
  <2> QED
    BY <1>1, <2>1, <2>2
<1>3. Grows(log, OldestIndex, log', OldestIndex') /\ log' = log
  BY <1>1, Onward DEF handler
<1>4. Claims(c)'
  BY <1>1, <1>3, ClaimsStay DEF FullTab, tabs
<1>5. ASSUME Live(c)'
      PROVE  FullLive(c)'
  <2>1. Live(c)
    BY <1>1, <1>5 DEF Live, tabs
  <2>2. PICK s \in Marks, v \in Marks, t \in Marks : Chain(c, s, v, t)
    BY <1>1, <2>1 DEF FullTab, FullLive
  <2>3. Bears(c, s)' /\ Unbroken(Current(c), OldestIndex, s)'
    BY <1>1, <1>3, <2>2, FullMore DEF Chain, tabs
  <2>4. Leads(MarkSteps(log, boot), Marks, down'[c], s, t)
    <3>1. Leads(MarkSteps(log, boot), Marks, Sent(c), v, t)
      BY <1>1, <2>2 DEF Chain, Rest
    <3> QED
      BY <1>2, <2>2, <3>1, LeadsOn DEF Chain
  <2>5. Leads(MarkSteps(log, boot), Marks, Rest(c)', t, t)
    BY <1>2, LeadsEmpty DEF Rest
  <2>6. Chain(c, s, t, t)'
    BY <1>1, <1>3, <2>2, <2>3, <2>4, <2>5 DEF Chain, Ends, Complete
  <2> QED
    BY <2>6 DEF FullLive
<1> QED
  BY <1>4, <1>5 DEF FullTab

LEMMA FullBuild ==
  ASSUME FullInv, Types', Gentle, [Next]_vars, ~Restart, NEW c \in Client, BuildFrame, c \in Reached,
         ~UNCHANGED <<pass, log>>
  PROVE  FullTab(c)'
<1>0. PICK h, f : h = log' /\ f = frame'
  OBVIOUS
<1>1. /\ frame = NoFrame /\ log' = log \o ScrollOut /\ UNCHANGED <<sockets, tabs>>
      /\ Built(f) /\ todo' = [d \in Reached |-> gen[d]]
      /\ Types /\ FullTab(c) /\ HandlerTypes /\ FrameTrue'
  BY <1>0, BuildIs, HonestBuild DEF FullInv, HonestInv, ScreenInv, Types
<1>2. /\ log \in Seq(Row) /\ h \in Seq(Row) /\ Len(h) \in Nat /\ f.base = Len(h) /\ f.first = Len(log)
      /\ f \in Frames /\ f # NoFrame /\ NoneUnderAlt(f)
      /\ \A i \in 1 .. Len(f.lines) : f.lines[i] = h[f.first + i]
  <2>1. mode = "alt" => Len(f.lines) = 0
    BY <1>1, ScrollOutIs DEF Built
  <2>2. NoneUnderAlt(f)
    BY <1>1, <2>1 DEF Built, NoneUnderAlt
  <2>3. f # NoFrame /\ f.base = Len(log) + Len(ScrollOut)
    BY <1>1 DEF Built
  <2>4. \A i \in 1 .. Len(f.lines) : f.lines[i] = h[f.first + i]
    BY <1>0, <1>1, <2>3 DEF FrameTrue
  <2> QED
    BY <1>0, <1>1, <2>2, <2>3, <2>4, CommittedIs DEF Built
<1>3. Grows(log, OldestIndex, log', OldestIndex') /\ boot' = boot
  BY <1>1, Onward
<1>4. Claims(c)'
  BY <1>1, <1>3, ClaimsStay DEF FullTab, tabs, sockets
<1>5. ASSUME Live(c)'
      PROVE  FullLive(c)'
  <2>1. Live(c)
    BY <1>1, <1>5 DEF Live, tabs, sockets
  <2>2. PICK s \in Marks, v \in Marks, t \in Marks : Chain(c, s, v, t)
    BY <1>1, <2>1 DEF FullTab, FullLive
  <2>3. v = t /\ Complete(v, Len(log))
    <3>1. c \notin DOMAIN todo
      BY <1>1 DEF Types, PassTypes
    <3>2. Leads(MarkSteps(log, boot), Marks, <<>>, v, t)
      BY <2>2, <3>1 DEF Chain, Rest
    <3> QED
      BY <2>2, <3>2, LeadsEmpty DEF Chain, Ends
  <2>4. Bears(c, s)' /\ Unbroken(Current(c), OldestIndex, s)'
    BY <1>1, <1>3, <2>2, FullMore DEF Chain, tabs
  <2>5. Leads(MarkSteps(h, boot), Marks, down[c], s, v)
    <3>1. Grows(log, 0, h, 0)
      BY <1>0, <1>3 DEF Grows
    <3> QED
      BY <1>2, <2>2, <3>1, StepMore, LeadsMore DEF Chain
  <2>6. PICK u \in Marks : Leads(MarkSteps(h, boot), Marks, InFull(f), v, u) /\ Complete(u, Len(h))
    <3>1. /\ v.at = "live" /\ v.prov = f.first /\ v.top <= f.first /\ f.base <= Len(h)
          /\ Len(h) \in Nat /\ f \in Frames /\ NoneUnderAlt(f)
          /\ \A i \in 1 .. Len(f.lines) : f.lines[i] = h[f.first + i]
      BY <1>2, <2>3 DEF Complete
    <3>2. \E u \in Marks : /\ Leads(MarkSteps(h, boot), Marks, InFull(f), v, u)
                           /\ u.at = "live" /\ u.prov = f.base /\ u.top = f.base
      BY <3>1, FrameMarks
    <3> QED
      BY <1>2, <3>2 DEF Complete
  <2>7. Rest(c)' = InFull(f)
    BY <1>0, <1>1 DEF Rest, Sent, InFull, sockets
  <2>8. Chain(c, s, v, u)'
    BY <1>0, <1>1, <1>3, <2>3, <2>4, <2>5, <2>6, <2>7 DEF Chain, Ends, Complete, sockets
  <2> QED
    BY <2>8 DEF FullLive
<1> QED
  BY <1>4, <1>5 DEF FullTab

\* What is known of a tab before a step of its own.
LEMMA FullIs ==
  ASSUME FullInv, NEW c \in Client
  PROVE  /\ Types /\ HandlerTypes /\ HonestTab(c) /\ Claims(c) /\ (Live(c) => FullLive(c))
         /\ store[c] \in Stores /\ store[c].erasedThrough = -1 /\ down[c] \in Seq(Msg)
         /\ ReplayBoundary(store[c]) \in Int /\ ReplayBoundary(store[c]) >= -1
         /\ asked \in [Client -> Int] /\ asked[c] \in Int
         /\ link \in [Client -> {"down", "open", "acked"}]
         /\ store \in [Client -> Stores] /\ epoch \in [Client -> 0 .. MaxBoots]
         /\ epoch[c] \in Int /\ boot \in Int /\ boot >= 1
         /\ OldestIndex \in Int /\ OldestIndex >= 0 /\ Len(log) \in Int
<1>1. Types /\ HonestTab(c) /\ FullTab(c) /\ Plain
  BY DEF FullInv, HonestInv, ScreenInv
<1>2. /\ store[c] \in Stores /\ asked[c] \in Int /\ epoch[c] \in 0 .. MaxBoots
      /\ boot \in 1 .. MaxBoots /\ HandlerTypes /\ down[c] \in Seq(Msg)
      /\ asked \in [Client -> Int] /\ link \in [Client -> {"down", "open", "acked"}]
      /\ store \in [Client -> Stores] /\ epoch \in [Client -> 0 .. MaxBoots]
  BY <1>1 DEF Types, SocketTypes, TabTypes
<1> QED
  BY <1>1, <1>2, BoundaryIs, OldestIs, Sizes DEF FullTab, Plain

\* A tab that is not connected, or connects, keeps what it claims.
LEMMA FullAdrift ==
  ASSUME FullInv, Types', Gentle, NEW c \in Client,
         Attach(c) \/ Detach(c) \/ Reload(c) \/ Restart
  PROVE  FullTab(c)'
<1> DEFINE b == ReplayBoundary(store[c])
<1>1. /\ Types /\ HonestTab(c) /\ Claims(c) /\ (Live(c) => FullLive(c)) /\ store[c] \in Stores
      /\ b \in Int /\ b >= -1 /\ asked \in [Client -> Int] /\ down[c] \in Seq(Msg)
      /\ link \in [Client -> {"down", "open", "acked"}] /\ store \in [Client -> Stores]
      /\ epoch \in [Client -> 0 .. MaxBoots] /\ epoch[c] \in Int /\ boot \in Int /\ boot >= 1
      /\ OldestIndex \in Int /\ OldestIndex >= 0 /\ Len(log) \in Int
  BY FullIs
<1>2. CASE Restart
  <2>1. /\ boot' = boot + 1 /\ asked'[c] = NoResume /\ attached' = {} /\ epoch' = epoch
    BY <1>2 DEF Restart, tabs
  <2>2. epoch[c] <= boot
    BY <1>1 DEF HonestTab, Dated
  <2>3. Claims(c)' /\ ~Live(c)'
    BY <1>1, <2>1, <2>2 DEF Claims, Live
  <2> QED
    BY <2>3 DEF FullTab
<1>3. CASE Attach(c) \/ Detach(c) \/ Reload(c)
  <2>1. log' = log /\ boot' = boot /\ cleared' = cleared
    BY <1>3 DEF Attach, Detach, Reload, AtTab, handler
  <2>2. OldestIndex' = OldestIndex
    BY <2>1 DEF OldestIndex, Committed
  <2>3. PICK u : u = store'[c]
    OBVIOUS
  <2>4. ~Live(c)' /\ (asked'[c] # NoResume => asked'[c] = ReplayBoundary(u))
    <3>1. CASE Attach(c)
      BY <3>1, <1>1, <2>3 DEF Attach, Live, NoResume
    <3>2. CASE Detach(c)
      BY <3>2, <1>1 DEF Detach, Live
    <3>3. CASE Reload(c)
      BY <3>3, <1>1 DEF Reload, AtTab, Live, Types, SocketTypes
    <3> QED
      BY <1>3, <3>1, <3>2, <3>3
  <2>5. epoch'[c] = boot => /\ NoGap(u, OldestIndex, ReplayBoundary(u) + 1)
                            /\ ReplayBoundary(u) < Len(log)
    <3>0. SUFFICES ASSUME epoch'[c] = boot
                   PROVE  /\ NoGap(u, OldestIndex, ReplayBoundary(u) + 1)
                          /\ ReplayBoundary(u) < Len(log)
      OBVIOUS
    <3>1. CASE Attach(c)
      BY <3>0, <3>1, <1>1, <2>3 DEF Attach, Claims
    <3>2. CASE Detach(c)
      <4>1. u = store[c] /\ epoch[c] = boot /\ link[c] # "down" /\ ~CutsReplay(c)
        BY <3>0, <3>2, <2>3 DEF Detach, Gentle
      <4>2. CASE asked[c] # NoResume
        BY <4>1, <4>2, <1>1 DEF Claims
      <4>3. CASE asked[c] = NoResume
        <5>1. Live(c) /\ Current(c) = store[c]
          BY <4>1, <4>3, <1>1 DEF Live, HonestTab, Dated, Current, Resumed
        <5>2. PICK s \in Marks, v \in Marks, t \in Marks : Chain(c, s, v, t)
          BY <5>1, <1>1 DEF FullLive
        <5>3. /\ NoGap(store[c], OldestIndex, s.prov) /\ b < s.top /\ s.top <= Len(log)
              /\ s.top \in Int /\ s.prov \in Int
          BY <5>1, <5>2, MarkIs DEF Chain, Bears, Unbroken
        <5>4. \A i \in 1 .. Len(down[c]) : down[c][i].kind = "scroll" => b < down[c][i].first
          <6>1. ASSUME NEW i \in 1 .. Len(down[c]), down[c][i].kind = "scroll"
                PROVE  b < down[c][i].first
            <7>1. down[c][i] \in Msg /\ i \in DOMAIN down[c]
              BY <1>1
            <7>2. down[c][i].first \in Int
              BY <6>1, <7>1, MessageIs
            <7> QED
              BY <4>1, <6>1, <7>1, <7>2, <1>1 DEF CutsReplay
          <6> QED
            BY <6>1
        <5>5. b < s.prov
          <6>1. Leads(MarkSteps(log, boot), Marks, down[c], s, v) /\ v.prov = v.top
            BY <5>2 DEF Chain, Ends
          <6> HIDE DEF b
          <6> QED
            BY <6>1, <5>3, <5>4, <1>1, QuietClaims
        <5> QED
          BY <4>1, <5>3, <5>5, <1>1, NoGapLess
      <4> QED
        BY <4>2, <4>3
    <3>3. CASE Reload(c)
      <4>1. link[c] = "down" /\ u = FromSnapshot(Snapshot(store[c])) /\ epoch[c] = boot
        BY <3>0, <3>3, <1>1, <2>3 DEF Reload, Apply
      <4>2. NoGap(u, OldestIndex, ReplayBoundary(u) + 1) /\ ReplayBoundary(u) <= b
        BY <4>1, <1>1, RestoredWhole
      <4>3. b < Len(log)
        BY <4>1, <1>1 DEF Claims
      <4>4. ReplayBoundary(u) \in Int
        BY <1>1, <2>3, BoundaryIs DEF Types, TabTypes
      <4> QED
        BY <4>2, <4>3, <4>4, <1>1
    <3> QED
      BY <1>3, <3>1, <3>2, <3>3
  <2>6. Claims(c)'
    BY <2>1, <2>2, <2>3, <2>4, <2>5 DEF Claims
  <2> QED
    BY <2>4, <2>6 DEF FullTab
<1> QED
  BY <1>2, <1>3

LEMMA FullResume ==
  ASSUME FullInv, Types', Gentle, [Next]_vars, ~Restart, NEW c \in Client, Resume(c)
  PROVE  FullTab(c)'
<1> DEFINE n  == Len(Lines)
           P  == Smaller(First(c), n)
           b  == ReplayBoundary(store[c])
           st == Current(c)
<1>1. /\ Types /\ HonestTab(c) /\ Claims(c) /\ store[c] \in Stores /\ b \in Int
      /\ OldestIndex \in Int /\ Len(log) \in Int
      /\ asked[c] # NoResume /\ link[c] = "open" /\ log' = Lines /\ asked'[c] = NoResume
      /\ gen'[c] = gen[c] + 1 /\ UNCHANGED <<pass, boot, tabs>> /\ HonestInv
      /\ Mishaps \cap {"altReturn", "sharedDrain"} = {} /\ n \in Nat /\ Len(log) <= n
      /\ ~(Outdated(c) /\ First(c) > Oldest /\ Lines # <<>>)
  <2>1. /\ Types /\ HonestTab(c) /\ Claims(c) /\ store[c] \in Stores /\ b \in Int
        /\ OldestIndex \in Int /\ Len(log) \in Int /\ HonestInv /\ gen \in [Client -> Nat]
        /\ asked \in [Client -> Int]
    BY FullIs DEF FullInv, Types, SocketTypes
  <2>2. /\ ~(Outdated(c) /\ First(c) > Oldest /\ Lines # <<>>)
        /\ Mishaps \cap {"altReturn", "sharedDrain"} = {}
    BY DEF Resume, Gentle, First, Oldest, Lines
  <2>3. /\ asked[c] # NoResume /\ link[c] = "open" /\ log' = Lines
        /\ gen' = [gen EXCEPT ![c] = @ + 1] /\ asked' = [asked EXCEPT ![c] = NoResume]
        /\ UNCHANGED <<pass, boot, tabs>>
    BY <2>1, ResumeIs
  <2>4. n \in Nat /\ Len(log) <= n
    BY <2>1, CommittedIs DEF Lines, Types
  <2> QED
    BY <2>1, <2>2, <2>3, <2>4
<1>2. PICK w \in ScreenMsg, rest \in Seq(Msg) :
        /\ FullScreen(w)
        /\ mode = "main" => rest = <<w>> \o Replay(c)
        /\ mode = "alt" => rest = Replay(c) \o <<w>>
        /\ down' = [down EXCEPT ![c] = @ \o (<<Ack>> \o rest)]
  BY <1>1, ResumeIs
<1>3. PICK s \in Marks, t \in Marks, x \in Marks :
        /\ Leads(MarkSteps(Lines, boot), Marks, down[c] \o (<<Ack>> \o rest), s, t)
        /\ Complete(t, n) /\ Leads(MarkSteps(Lines, boot), Marks, Stale(c), t, x)
        /\ Complete(x, n)
        /\ s.at = "mute" /\ s.top = n /\ s.prov = P /\ Matches(st, s)
  BY <1>1, <1>2, ResumedMarks
<1>4. PICK u, F, o : /\ u = Current(c)' /\ u = st /\ F = Past' /\ o = OldestIndex' /\ o = Oldest
                     /\ Sound(st, n, P, F) /\ st = Resumed(store[c], epoch[c], boot)
                     /\ st \in Stores
  <2>1. Current(c)' = Current(c) /\ OldestIndex' = Oldest
    BY <1>1, FirstIs DEF Current, tabs
  <2> QED
    BY <1>1, <2>1, ResumedSound DEF Current
<1>5. /\ Oldest \in Int /\ Oldest >= 0 /\ OldestIndex <= Oldest /\ P \in Int /\ P <= First(c)
      /\ P <= n /\ (P <= asked[c] + 1 \/ P <= Oldest)
  BY <1>1, FirstIs
<1>6. Unbroken(u, o, s)
  <2> HIDE DEF b, P, n
  <2>1. ReplayBoundary(u) < n /\ (P <= Oldest \/ (u = store[c] /\ epoch[c] = boot /\ P <= b + 1))
    <3>1. CASE epoch[c] = boot
      <4>1. u = store[c] /\ b < Len(log) /\ asked[c] = b
        BY <1>1, <1>4, <3>1 DEF Resumed, Claims, b
      <4> QED
        BY <1>1, <1>5, <3>1, <4>1 DEF b
    <3>2. CASE epoch[c] # boot
      <4>1. ReplayBoundary(u) = -1 /\ (epoch[c] = 0 => b = -1)
        <5>1. epoch[c] = 0 => u = store[c] /\ Held(store[c]) = {}
          BY <1>1, <1>4 DEF Resumed, HonestTab, Pristine
        <5>2. epoch[c] # 0 => u = EmptyStore
          BY <1>4, <3>2 DEF Resumed
        <5> QED
          BY <1>1, <5>1, <5>2, EmptyIs, NothingClaimed DEF b
      <4>2. CASE epoch[c] = 0
        BY <1>1, <1>5, <4>1, <4>2 DEF Claims, b
      <4>3. CASE epoch[c] # 0
        <5>1. ~(First(c) > Oldest) \/ n = 0
          BY <1>1, <3>2, <4>3 DEF Outdated, n
        <5>2. First(c) \in Int
          BY <1>1, ReplayIs DEF Types, SocketTypes
        <5> QED
          BY <1>1, <1>5, <4>1, <5>1, <5>2
      <4> QED
        BY <4>2, <4>3
    <3> QED
      BY <3>1, <3>2
  <2>2. NoGap(u, o, P)
    <3>1. CASE P <= Oldest
      BY <1>4, <1>5, <3>1 DEF NoGap
    <3>2. CASE u = store[c] /\ epoch[c] = boot /\ P <= b + 1
      <4>1. NoGap(u, OldestIndex, b + 1) /\ b + 1 \in Int
        BY <1>1, <3>2 DEF Claims, b
      <4> QED
        BY <1>1, <1>4, <1>5, <3>2, <4>1, NoGapLess
    <3> QED
      BY <2>1, <3>1, <3>2
  <2> QED
    BY <1>3, <2>1, <2>2 DEF Unbroken
<1>7. PICK d, r : /\ d = down'[c] /\ d = down[c] \o (<<Ack>> \o rest)
                  /\ r = Rest(c)' /\ r = Stale(c)
  <2>1. down'[c] = down[c] \o (<<Ack>> \o rest)
    BY <1>1, <1>2 DEF Types, SocketTypes
  <2>2. c \in DOMAIN todo => todo[c] # gen[c] + 1
    BY <1>1 DEF Types, PassTypes, SocketTypes
  <2>3. Rest(c)' = Stale(c)
    BY <1>1, <2>2 DEF Rest, Sent, Stale, Chunks, pass
  <2> QED
    BY <2>1, <2>3
<1>8. /\ log' = Lines /\ boot' = boot /\ link'[c] = "open" /\ n \in Int /\ asked'[c] = NoResume
      /\ epoch' = epoch /\ store' = store
  BY <1>1 DEF tabs
<1> HIDE DEF st, P
<1>9. Bears(c, s)'
  <2>1. Sound(u, s.top, s.prov, F) /\ Matches(u, s) /\ s.top <= n
    BY <1>3, <1>4, <1>8
  <2> QED
    BY <1>3, <1>4, <1>8, <2>1 DEF Bears
<1>10. Ends(c, t, x)'
  BY <1>3, <1>8 DEF Ends, Complete
<1>11. Chain(c, s, t, x)'
  BY <1>3, <1>4, <1>6, <1>7, <1>8, <1>9, <1>10 DEF Chain
<1>12. Claims(c)'
  BY <1>8 DEF Claims
<1> QED
  BY <1>11, <1>12 DEF FullTab, FullLive

\* The next message leaves nothing missing below the next mark.
Filling(c) == \A s, u \in Marks :
  Bears(c, s) /\ Unbroken(Current(c), OldestIndex, s)
    /\ MarkStep(log, boot, s, Head(down[c]), u) /\ Bears(c, u)'
  => Unbroken(Current(c), OldestIndex, u)'

LEMMA FullReceived ==
  ASSUME FullInv, Types', NEW c \in Client, NEW kind, Arriving(c, kind), Consume(c),
         UNCHANGED AtTab, Live(c) => Carried(c) /\ Filling(c), link'[c] # "down",
         asked[c] # NoResume => epoch'[c] = epoch[c] /\ store'[c] = store[c]
  PROVE  FullTab(c)'
<1>1. /\ Types /\ Claims(c) /\ (Live(c) => FullLive(c)) /\ down[c] \in Seq(Msg)
      /\ log' = log /\ boot' = boot /\ asked' = asked /\ attached' = attached
      /\ OldestIndex' = OldestIndex /\ frame' = frame /\ todo' = todo /\ gen' = gen
  BY FullIs, AtTabKept DEF AtTab, pass
<1>2. Claims(c)'
  BY <1>1 DEF Claims, Arriving
<1>3. ASSUME Live(c)'
      PROVE  FullLive(c)'
  <2>1. Live(c)
    BY <1>1, <1>3 DEF Live, Arriving
  <2>2. PICK s \in Marks, v \in Marks, t \in Marks : Chain(c, s, v, t)
    BY <1>1, <2>1 DEF FullLive
  <2>3. down'[c] = Tail(down[c]) /\ down[c] # <<>> /\ Rest(c)' = Rest(c) /\ Head(down[c]) \in Msg
    BY <1>1 DEF Consume, Arriving, Types, SocketTypes, Rest, Sent
  <2>4. PICK u \in Marks : <<s, Head(down[c]), u>> \in MarkSteps(log, boot)
                           /\ Leads(MarkSteps(log, boot), Marks, Tail(down[c]), u, v)
    BY <1>1, <2>2, <2>3, LeadsTail DEF Chain
  <2>5. MarkStep(log, boot, s, Head(down[c]), u)
    BY <2>3, <2>4, MarkStepIs
  <2>6. Bears(c, u)'
    BY <2>1, <2>2, <2>5 DEF Carried, Chain
  <2>7. Unbroken(Current(c), OldestIndex, u)'
    BY <2>1, <2>2, <2>5, <2>6 DEF Filling, Chain
  <2>8. Chain(c, u, v, t)'
    BY <1>1, <2>2, <2>3, <2>4, <2>6, <2>7 DEF Chain, Ends
  <2> QED
    BY <2>8 DEF FullLive
<1> QED
  BY <1>2, <1>3 DEF FullTab

LEMMA FullAck ==
  ASSUME FullInv, Types', NEW c \in Client, RecvResumeAck(c)
  PROVE  FullTab(c)'
<1> DEFINE m  == Head(down[c])
           st == Resumed(store[c], epoch[c], m.epoch)
<1>1. /\ Arriving(c, "resumeAck") /\ Consume(c) /\ UNCHANGED AtTab
      /\ store'[c] = st /\ link'[c] = "acked" /\ Types /\ boot' = boot
      /\ OldestIndex' = OldestIndex
      /\ Live(c) => Carried(c)
  BY FullIs, HonestAck, AtTabKept DEF RecvResumeAck, Apply, FullInv
<1>2. asked[c] = NoResume /\ m.kind = "resumeAck"
  <2>1. 1 \in 1 .. Len(down[c]) /\ down[c][1].kind = "resumeAck"
    BY <1>1, FullIs DEF Arriving
  <2> QED
    BY <1>1, <2>1 DEF Types, SocketTypes, Arriving
<1> HIDE DEF m, st
<1>3. ASSUME NEW s \in Marks, NEW u \in Marks, Bears(c, s), Unbroken(Current(c), OldestIndex, s),
             MarkStep(log, boot, s, m, u)
      PROVE  Unbroken(Current(c), OldestIndex, u)'
  <2>1. s.at = "mute" /\ m.epoch = boot /\ u.top = s.top /\ u.prov = s.prov
    BY <1>2, <1>3 DEF MarkStep, AckMark
  <2>2. Current(c) = st /\ Current(c)' = st
    BY <1>1, <1>3, <2>1 DEF Bears, Current, st
  <2> QED
    BY <1>1, <1>3, <2>1, <2>2 DEF Unbroken
<1>4. Filling(c)
  BY <1>3 DEF Filling, m
<1> QED
  BY <1>1, <1>2, <1>4, FullReceived

LEMMA FullWindow ==
  ASSUME FullInv, Types', RoomAssumption, NEW c \in Client, RecvScreen(c)
  PROVE  FullTab(c)'
<1> DEFINE m  == Head(down[c])
           st == AtScreen(c, m)
<1>1. /\ Arriving(c, "screen") /\ Consume(c) /\ UNCHANGED AtTab /\ m \in ScreenMsg
      /\ store'[c] = st /\ link' = link /\ epoch' = epoch /\ Types /\ boot' = boot
      /\ OldestIndex' = OldestIndex /\ link[c] \in {"open", "acked"}
      /\ Live(c) => Carried(c)
  BY FullIs, HonestScreen, ScreenReceived, ArrivingIs, AtTabKept DEF Apply, FullInv
<1>2. ~m.cleared
  BY <1>1, PlainIs DEF FullInv, Plain, Arriving
<1>3. /\ store[c] \in Stores /\ store[c].erasedThrough = -1 /\ OldestIndex \in Int
      /\ asked[c] # NoResume => link[c] = "open"
      /\ st = IF link[c] = "open" THEN store[c] ELSE ApplyScreen(store[c], m)
  BY <1>1, <1>2, FullIs, MutedIs DEF AtScreen, Types, SocketTypes
<1> HIDE DEF m, st
<1>4. ASSUME NEW s \in Marks, NEW u \in Marks, Bears(c, s), Unbroken(Current(c), OldestIndex, s),
             MarkStep(log, boot, s, m, u)
      PROVE  Unbroken(Current(c), OldestIndex, u)'
  <2>1. CASE link[c] = "open"
    <3>1. u = s /\ Current(c)' = Current(c)
      BY <1>1, <1>3, <1>4, <2>1, WindowMarked DEF Bears, Current
    <3> QED
      BY <1>1, <1>4, <3>1
  <2>2. CASE link[c] = "acked"
    <3>1. s.at = "live" /\ Current(c) = store[c] /\ Current(c)' = ApplyScreen(store[c], m)
      BY <1>1, <1>3, <1>4, <2>2, MarkIs DEF Bears, Current
    <3>2. s.top <= m.base /\ s.prov <= m.base /\ u.top = m.base /\ u.prov = s.prov
      BY <1>1, <1>4, <3>1, WindowMarked
    <3>3. Unbroken(ApplyScreen(store[c], m), OldestIndex, u)
      BY <1>1, <1>2, <1>3, <1>4, <3>1, <3>2, ScreenWhole
    <3> QED
      BY <1>1, <3>1, <3>3
  <2> QED
    BY <1>1, <2>1, <2>2
<1>5. Filling(c)
  BY <1>4 DEF Filling, m
<1> QED
  BY <1>1, <1>3, <1>5, FullReceived

LEMMA FullScroll ==
  ASSUME FullInv, Types', RoomAssumption, NEW c \in Client, RecvScroll(c)
  PROVE  FullTab(c)'
<1> DEFINE m  == Head(down[c])
           st == AtScroll(c, m)
<1>1. /\ Arriving(c, "scroll") /\ Consume(c) /\ UNCHANGED AtTab /\ m \in ScrollMsg
      /\ store'[c] = st /\ link' = link /\ epoch' = epoch /\ Types /\ boot' = boot
      /\ OldestIndex' = OldestIndex /\ link[c] \in {"open", "acked"}
      /\ Live(c) => Carried(c)
  BY FullIs, HonestScroll, ArrivingIs, AtTabKept DEF Apply, FullInv, RecvScroll, AtScroll
<1>2. /\ store[c] \in Stores /\ store[c].erasedThrough = -1 /\ OldestIndex \in Int
      /\ asked[c] # NoResume => link[c] = "open"
      /\ st = IF link[c] = "open" THEN store[c] ELSE ApplyScroll(store[c], m)
  BY <1>1, FullIs DEF AtScroll, Types, SocketTypes
<1> HIDE DEF m, st
<1>3. ASSUME NEW s \in Marks, NEW u \in Marks, Bears(c, s), Unbroken(Current(c), OldestIndex, s),
             MarkStep(log, boot, s, m, u), Bears(c, u)'
      PROVE  Unbroken(Current(c), OldestIndex, u)'
  <2>1. CASE link[c] = "open"
    <3>1. u = s /\ Current(c)' = Current(c)
      BY <1>1, <1>2, <1>3, <2>1, LinesMarked DEF Bears, Current
    <3> QED
      BY <1>1, <1>3, <3>1
  <2>2. CASE link[c] = "acked"
    <3> DEFINE r == ApplyScroll(store[c], m)
    <3>1. s.at = "live" /\ Current(c) = store[c] /\ Current(c)' = r
      BY <1>1, <1>2, <1>3, <2>2, MarkIs DEF Bears, Current
    <3> HIDE DEF r
    <3> DEFINE end == m.first + Len(m.lines)
               x == store[c]
    <3>2. /\ m.first <= s.prov /\ u.top = Larger(s.top, end) /\ u.prov = Larger(s.prov, end)
          /\ s.buf = "main" \/ end <= s.room \/ end <= s.prov
      <4>1. LinesMark(log, s, m, u) /\ s.at # "mute"
        BY <1>1, <1>3, <3>1, LinesMarked
      <4> QED
        BY <4>1 DEF LinesMark
    <3>3. \/ ~(x.alt /\ x.win.height > 0)
          \/ end <= x.win.base
          \/ end <= s.prov
      <4>1. /\ Matches(x, s) /\ x.win.base \in Int /\ s.room \in Int /\ s.prov \in Int /\ end \in Int
        BY <1>1, <1>2, <1>3, <3>1, StoreIs, MarkIs, MessageIs DEF Bears
      <4> HIDE DEF end, x
      <4>2. x.alt /\ x.win.height > 0 => s.buf # "main" /\ s.room <= x.win.base
        BY <4>1, Zenon DEF Matches
      <4> QED
        BY <3>2, <4>1, <4>2
    <3>4. Filled(r, u.top)
      BY <1>3, <3>1 DEF Bears, Sound
    <3>5. Unbroken(r, OldestIndex, u)
      BY <1>1, <1>2, <1>3, <3>1, <3>2, <3>3, <3>4, ScrollWhole DEF r
    <3> QED
      BY <1>1, <3>1, <3>5
  <2> QED
    BY <1>1, <2>1, <2>2
<1>4. Filling(c)
  BY <1>3 DEF Filling, m
<1> QED
  BY <1>1, <1>2, <1>4, FullReceived

LEMMA FullInit == Init => FullInv
<1> SUFFICES ASSUME Init PROVE FullInv
  OBVIOUS
<1>1. HonestInv
  BY HonestInit
<1>2. Plain
  <2>1. <<>> \in Seq(PlainMsg)
    OBVIOUS
  <2> QED
    BY <2>1, EmptyIs DEF Init, Plain
<1>3. ASSUME NEW c \in Client
      PROVE  FullTab(c)
  BY EmptyIs DEF Init, FullTab, Claims, Live
<1> QED
  BY <1>1, <1>2, <1>3 DEF FullInv

LEMMA FullNext ==
  ASSUME Gentle, RoomAssumption
  PROVE  FullInv /\ [Next]_vars => FullInv'
<1> SUFFICES ASSUME FullInv, [Next]_vars PROVE FullInv'
  OBVIOUS
<1>1. HonestInv' /\ Types /\ Types'
  BY HonestNext DEF FullInv, HonestInv, ScreenInv, Gentle
<1>2. Plain'
  BY <1>1, PlainNext DEF FullInv, Gentle
<1>3. ASSUME NEW c \in Client
      PROVE  FullTab(c)'
  <2>1. CASE Attach(c) \/ Detach(c) \/ Reload(c) \/ Restart
    BY <1>1, <2>1, FullAdrift
  <2>2. CASE ~Restart /\ (WritePayloads(c) \/ Resume(c))
    BY <1>1, <2>2, FullWrite, FullResume
  <2>3. CASE RecvResumeAck(c) \/ RecvScreen(c) \/ RecvScroll(c)
    BY <1>1, <2>3, FullAck, FullWindow, FullScroll
  <2>4. CASE ~Restart /\ BuildFrame /\ c \in Reached /\ ~UNCHANGED <<pass, log>>
    BY <1>1, <2>4, FullBuild
  <2>5. CASE ~Restart /\ ~OwnStep(c) /\ (BuildFrame => c \notin Reached \/ UNCHANGED <<pass, log>>)
    BY <1>1, <2>5, Beside, FullStays DEF FullInv, Gentle
  <2> QED
    BY <2>1, <2>2, <2>3, <2>4, <2>5 DEF OwnStep
<1> QED
  BY <1>1, <1>2, <1>3 DEF FullInv

LEMMA FullEnough == FullInv => HistoryComplete
<1> SUFFICES ASSUME FullInv, NEW c \in Client, Settled(c), NEW a \in OldestIndex .. Committed - 1
             PROVE  a <= store[c].evictedThrough \/ Agrees(c, a)
  BY DEF HistoryComplete
<1>1. /\ Types /\ (Live(c) => FullLive(c)) /\ store[c] \in Stores
      /\ OldestIndex \in Int /\ Len(log) \in Int
  BY FullIs
<1>2. Live(c) /\ down[c] = <<>> /\ Rest(c) = <<>> /\ Current(c) = store[c]
  BY <1>1 DEF Settled, Live, Rest, Current, Types, SocketTypes, PassTypes
<1>3. PICK s \in Marks, v \in Marks, t \in Marks : Chain(c, s, v, t)
  BY <1>1, <1>2 DEF FullLive
<1>4. s = t
  <2>1. /\ Leads(MarkSteps(log, boot), Marks, <<>>, s, v)
        /\ Leads(MarkSteps(log, boot), Marks, <<>>, v, t)
    BY <1>2, <1>3 DEF Chain
  <2> QED
    BY <2>1, LeadsEmpty, Zenon
<1>5. /\ s.prov = Len(log) /\ NoGap(store[c], OldestIndex, s.prov)
      /\ Sound(store[c], s.top, s.prov, Past)
  BY <1>2, <1>3, <1>4 DEF Chain, Ends, Complete, Unbroken, Bears
<1>6. a \in Int /\ a < Len(log) /\ a >= OldestIndex
  BY <1>1 DEF Committed
<1>7. a \in Held(store[c]) \/ a <= store[c].evictedThrough
  BY <1>1, <1>5, <1>6 DEF NoGap, Has
<1>8. ASSUME a \in Held(store[c])
      PROVE  store[c].lines[a] = log[a + 1]
  <2>1. a \notin Drawn(store[c], Past)
    BY <1>1, <1>5, <1>6 DEF Sound, Kept
  <2>2. <<a, store[c].lines[a]>> \in Past
    BY <1>8, <2>1 DEF Drawn
  <2> QED
    BY <1>1, <1>6, <2>2 DEF Past, Genuine
<1> QED
  BY <1>7, <1>8 DEF Agrees

\* A tab with nothing under way holds every line the server can still read, as the
\* server would read it, except those its own limit made it evict: no frame dropped
\* with a socket, muted before the resumeAck, written out of date or cut in
\* messages leaves a gap, and no resume claims a line that was never received
\* (replayBoundary of store.ts, the replay of handleResume and the full frame
\* behind it).  For any screen, scrollback no deeper than one replay and store with
\* room for a screenful besides one eviction, when the child erases no saved lines
\* and none of four mishaps happens: an alternate screen entered anew over a main
\* screen that scrolled, a drain taken by another tab's resume, a claim made to a
\* restarted server, a replay cut short.
THEOREM HistorySafe ==
  ASSUME Gentle, RoomAssumption
  PROVE  Spec => []HistoryComplete
<1>1. Spec => []FullInv
  BY FullInit, FullNext, PTL DEF Spec
<1> QED
  BY <1>1, FullEnough, PTL

=============================================================================
