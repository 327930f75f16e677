------------------------ MODULE SessionManagerProofs ------------------------
(***************************************************************************)
(* Proofs about SessionManager, for every set of sessions, sockets and     *)
(* streams, every idle window and all mishaps: the display order names     *)
(* the live sessions, arrangements survive changes of the set, and the     *)
(* reaper spares whoever is present.                                       *)
(***************************************************************************)
EXTENDS SessionManager, FiniteSetTheorems, TLAPS

\* A session is being started, in the table, or on its way out; never two of
\* these, and never again after it was one of the last.
Stages ==
  /\ \A id \in sessions \cup starting \cup DOMAIN doomed : proc[id] # "none"
  /\ sessions \cap starting = {}
  /\ (sessions \cup starting) \cap DOMAIN doomed = {}

\* The counter is the number of clients.
Counted == activeClients = Cardinality(Present) + Cardinality(streaming)

\* The idle clock is never older than what it stands for.
Clocks ==
  /\ activeClients = 0 => idleFor <= absent
  /\ \A id \in sessions : idleFor <= age[id]

IInv == TypeOK /\ OrderIsLive /\ Stages /\ Counted /\ Clocks

-----------------------------------------------------------------------------
(* Sequences without repetition.                                           *)

LEMMA RemoveAtElements ==
  ASSUME NEW S, NEW s \in Seq(S), NEW i \in 1 .. Len(s)
  PROVE  /\ RemoveAt(s, i) \in Seq(S)
         /\ Len(RemoveAt(s, i)) = Len(s) - 1
         /\ \A j \in 1 .. Len(s) - 1 :
              RemoveAt(s, i)[j] = IF j < i THEN s[j] ELSE s[j + 1]
<1> DEFINE front == SubSeq(s, 1, i - 1)
           back  == SubSeq(s, i + 1, Len(s))
<1>1. /\ front \in Seq(S) /\ Len(front) = i - 1
      /\ \A j \in 1 .. i - 1 : front[j] = s[j]
  OBVIOUS
<1>2. /\ back \in Seq(S) /\ Len(back) = Len(s) - i
      /\ \A j \in 1 .. Len(s) - i : back[j] = s[j + i]
  OBVIOUS
<1>3. RemoveAt(s, i) = front \o back
  BY DEF RemoveAt
<1> HIDE DEF front, back
<1>4. /\ front \o back \in Seq(S)
      /\ Len(front \o back) = Len(s) - 1
  BY <1>1, <1>2
<1>5. ASSUME NEW j \in 1 .. Len(s) - 1
      PROVE  (front \o back)[j] = IF j < i THEN s[j] ELSE s[j + 1]
  <2>1. CASE j < i
    <3>1. j \in 1 .. i - 1
      BY <2>1
    <3>2. (front \o back)[j] = front[j]
      BY <1>1, <1>2, <3>1
    <3>3. QED
      BY <1>1, <2>1, <3>1, <3>2
  <2>2. CASE ~(j < i)
    <3>1. j - (i - 1) \in 1 .. Len(s) - i /\ j - (i - 1) + i = j + 1
      BY <2>2
    <3>2. (front \o back)[j] = back[j - (i - 1)]
      BY <1>1, <1>2, <2>2, <1>5
    <3>3. QED
      BY <1>2, <2>2, <3>1, <3>2
  <2>3. QED
    BY <2>1, <2>2
<1>6. QED
  BY <1>3, <1>4, <1>5

\* Taking the only occurrence of an element out of a sequence without
\* repetition leaves one of all the others, in the same order.
LEMMA RemoveDistinct ==
  ASSUME NEW S, NEW s \in Seq(S), IsInjective(s), NEW e \in ToSet(s)
  PROVE  LET r == RemoveAt(s, CHOOSE i \in DOMAIN s : s[i] = e)
         IN  /\ r \in Seq(S) /\ IsInjective(r) /\ ToSet(r) = ToSet(s) \ {e}
             /\ \A a, b \in ToSet(r) : Before(r, a, b) <=> Before(s, a, b)
<1> DEFINE k == CHOOSE i \in DOMAIN s : s[i] = e
           r == RemoveAt(s, k)
<1>1. k \in 1 .. Len(s) /\ s[k] = e
  BY DEF ToSet
<1> HIDE DEF k
<1>2. /\ r \in Seq(S) /\ Len(r) = Len(s) - 1
      /\ \A j \in 1 .. Len(s) - 1 : r[j] = IF j < k THEN s[j] ELSE s[j + 1]
  BY <1>1, RemoveAtElements
<1> HIDE DEF r
<1>3. \A i, j \in 1 .. Len(s) : s[i] = s[j] => i = j
  BY DEF IsInjective
<1>4. Len(s) \in Nat /\ DOMAIN s = 1 .. Len(s) /\ DOMAIN r = 1 .. Len(s) - 1
  BY <1>2
<1> DEFINE old(j) == IF j < k THEN j ELSE j + 1
<1>5. \A j \in 1 .. Len(s) - 1 : old(j) \in 1 .. Len(s) /\ old(j) # k /\ r[j] = s[old(j)]
  BY <1>1, <1>2, <1>4
<1>6. \A i \in 1 .. Len(s) : i # k => \E j \in 1 .. Len(s) - 1 : old(j) = i
  <2> SUFFICES ASSUME NEW i \in 1 .. Len(s), i # k
               PROVE  \E j \in 1 .. Len(s) - 1 : old(j) = i
    OBVIOUS
  <2>1. CASE i < k
    BY <1>1, <1>4, <2>1
  <2>2. CASE i > k
    <3>1. i - 1 \in 1 .. Len(s) - 1 /\ old(i - 1) = i
      BY <1>1, <1>4, <2>2
    <3>2. QED
      BY <3>1
  <2>3. QED
    BY <1>1, <1>4, <2>1, <2>2
<1>7. \A i, j \in 1 .. Len(s) - 1 : i < j <=> old(i) < old(j)
  BY <1>1, <1>4
<1> HIDE DEF old
<1>8. IsInjective(r)
  <2> SUFFICES ASSUME NEW i \in 1 .. Len(s) - 1, NEW j \in 1 .. Len(s) - 1, r[i] = r[j]
               PROVE  i = j
    BY <1>4 DEF IsInjective
  <2>1. old(i) = old(j)
    BY <1>3, <1>5
  <2>2. ~(i < j) /\ ~(j < i)
    <3>1. old(i) \in Int /\ old(j) \in Int
      BY <1>4, <1>5
    <3>2. QED
      BY <1>7, <2>1, <3>1
  <2>3. QED
    BY <2>2
<1>9. ToSet(r) = ToSet(s) \ {e}
  <2>1. ASSUME NEW x \in ToSet(r) PROVE x \in ToSet(s) \ {e}
    <3>1. PICK j \in 1 .. Len(s) - 1 : r[j] = x
      BY <1>4 DEF ToSet
    <3>2. s[old(j)] = x /\ old(j) \in 1 .. Len(s) /\ old(j) # k
      BY <1>5, <3>1
    <3>3. x # e
      BY <1>1, <1>3, <3>2
    <3>4. QED
      BY <1>4, <3>2, <3>3 DEF ToSet
  <2>2. ASSUME NEW x \in ToSet(s) \ {e} PROVE x \in ToSet(r)
    <3>1. PICK i \in 1 .. Len(s) : s[i] = x
      BY <1>4 DEF ToSet
    <3>2. i # k
      BY <1>1, <3>1
    <3>3. PICK j \in 1 .. Len(s) - 1 : old(j) = i
      BY <1>6, <3>2
    <3>4. QED
      BY <1>4, <1>5, <3>1, <3>3 DEF ToSet
  <2>3. QED
    BY <2>1, <2>2
<1>10. ASSUME NEW a \in ToSet(r), NEW b \in ToSet(r)
       PROVE  Before(r, a, b) <=> Before(s, a, b)
  <2>1. ASSUME Before(r, a, b) PROVE Before(s, a, b)
    <3>1. PICK i \in 1 .. Len(s) - 1, j \in 1 .. Len(s) - 1 : i < j /\ r[i] = a /\ r[j] = b
      BY <1>4, <2>1 DEF Before
    <3>2. /\ old(i) \in DOMAIN s /\ old(j) \in DOMAIN s /\ old(i) < old(j)
          /\ s[old(i)] = a /\ s[old(j)] = b
      BY <1>4, <1>5, <1>7, <3>1
    <3>3. QED
      BY <3>2 DEF Before
  <2>2. ASSUME Before(s, a, b) PROVE Before(r, a, b)
    <3>1. PICK i \in 1 .. Len(s), j \in 1 .. Len(s) : i < j /\ s[i] = a /\ s[j] = b
      BY <1>4, <2>2 DEF Before
    <3>2. i # k /\ j # k
      BY <1>1, <1>9, <3>1
    <3>3. PICK m \in 1 .. Len(s) - 1 : old(m) = i
      BY <1>6, <3>2
    <3>4. PICK n \in 1 .. Len(s) - 1 : old(n) = j
      BY <1>6, <3>2
    <3>5. m < n /\ r[m] = a /\ r[n] = b
      BY <1>5, <1>7, <3>1, <3>3, <3>4
    <3>6. QED
      BY <1>4, <3>5 DEF Before
  <2>3. QED
    BY <2>1, <2>2
<1>11. QED
  BY <1>2, <1>8, <1>9, <1>10 DEF k, r

\* A new element at the end of a sequence without repetition.
LEMMA AppendDistinct ==
  ASSUME NEW S, NEW s \in Seq(S), IsInjective(s), NEW e \in S, e \notin ToSet(s)
  PROVE  /\ Append(s, e) \in Seq(S) /\ IsInjective(Append(s, e))
         /\ ToSet(Append(s, e)) = ToSet(s) \cup {e}
         /\ \A a \in ToSet(s), b \in ToSet(s) \cup {e} :
              Before(Append(s, e), a, b) <=> (b = e \/ Before(s, a, b))
<1> DEFINE t == Append(s, e)
           n == Len(s)
<1>1. /\ t \in Seq(S) /\ Len(t) = n + 1 /\ n \in Nat
      /\ \A i \in 1 .. n : t[i] = s[i]
      /\ t[n + 1] = e
  OBVIOUS
<1>2. DOMAIN t = 1 .. n + 1 /\ DOMAIN s = 1 .. n
  BY <1>1
<1> HIDE DEF t, n
<1>3. \A i \in 1 .. n : s[i] # e /\ s[i] \in ToSet(s)
  BY <1>2 DEF ToSet
<1>4. \A i \in 1 .. n + 1 : i \in 1 .. n \/ i = n + 1
  BY <1>1
<1>5. \A i \in 1 .. n : i \in 1 .. n + 1
  BY <1>1
<1>6. IsInjective(t)
  <2> SUFFICES ASSUME NEW i \in 1 .. n + 1, NEW j \in 1 .. n + 1, t[i] = t[j] PROVE i = j
    BY <1>2 DEF IsInjective
  <2>1. CASE i \in 1 .. n /\ j \in 1 .. n
    BY <1>1, <1>2, <2>1 DEF IsInjective
  <2>2. CASE i = n + 1 \/ j = n + 1
    BY <1>1, <1>3, <1>4, <2>2
  <2>3. QED
    BY <1>4, <2>1, <2>2
<1>7. ToSet(t) = ToSet(s) \cup {e}
  <2>1. n + 1 \in 1 .. n + 1
    BY <1>1
  <2>2. QED
    BY <1>1, <1>2, <1>4, <1>5, <2>1 DEF ToSet
<1>8. ASSUME NEW a \in ToSet(s), NEW b \in ToSet(s) \cup {e}
      PROVE  Before(t, a, b) <=> (b = e \/ Before(s, a, b))
  <2>1. ASSUME Before(t, a, b) PROVE b = e \/ Before(s, a, b)
    <3>1. PICK i \in 1 .. n + 1, j \in 1 .. n + 1 : i < j /\ t[i] = a /\ t[j] = b
      BY <1>2, <2>1 DEF Before
    <3>2. i \in 1 .. n
      BY <1>1, <3>1
    <3>3. CASE j \in 1 .. n
      BY <1>1, <1>2, <3>1, <3>2, <3>3 DEF Before
    <3>4. CASE j = n + 1
      BY <1>1, <3>1, <3>4
    <3>5. QED
      BY <1>4, <3>3, <3>4
  <2>2. ASSUME b = e PROVE Before(t, a, b)
    <3>1. PICK i \in 1 .. n : s[i] = a
      BY <1>2 DEF ToSet
    <3>2. i \in 1 .. n + 1 /\ n + 1 \in 1 .. n + 1 /\ i < n + 1
      BY <1>1
    <3>3. QED
      BY <1>1, <1>2, <2>2, <3>1, <3>2 DEF Before
  <2>3. ASSUME Before(s, a, b) PROVE Before(t, a, b)
    BY <1>1, <1>2, <1>5, <2>3 DEF Before
  <2>4. QED
    BY <2>1, <2>2, <2>3
<1>9. QED
  BY <1>1, <1>6, <1>7, <1>8 DEF t

\* A list as long as the table, of live sessions, without repetition, names
\* each of them: the one check of SetSessionOrder does it all.
LEMMA AcceptedIsLive ==
  ASSUME IsFiniteSet(sessions), sessions \subseteq Session,
         NEW ids \in Arrangement, Accepted(ids)
  PROVE  ids \in Seq(Session) /\ IsInjective(ids) /\ ToSet(ids) = sessions
<1>1. PICK n \in Nat : ids \in [1 .. n -> Session]
  BY FS_CardinalityType, ManagerAssumption DEF Arrangement
<1>2. ids \in Seq(Session) /\ Len(ids) = n /\ DOMAIN ids = 1 .. n
  BY <1>1
<1>3. n = Cardinality(sessions) /\ \A i \in 1 .. n : ids[i] \in sessions
  BY <1>2 DEF Accepted
<1>4. ids \in Injection(1 .. n, sessions)
  BY <1>1, <1>3 DEF Accepted, Injection
<1>5. IsFiniteSet(1 .. n) /\ Cardinality(1 .. n) = n
  BY FS_Interval
<1>6. ids \in Surjection(1 .. n, sessions)
  BY <1>3, <1>4, <1>5, FS_Injection
<1>7. ToSet(ids) = sessions
  BY <1>2, <1>3, <1>6 DEF Surjection, ToSet
<1>8. QED
  BY <1>2, <1>7 DEF Accepted

-----------------------------------------------------------------------------
(* Counting the clients.                                                   *)

LEMMA FiniteClients ==
  ASSUME TypeOK
  PROVE  /\ IsFiniteSet(sessions) /\ IsFiniteSet(Present) /\ IsFiniteSet(streaming)
         /\ Cardinality(Present) \in Nat /\ Cardinality(streaming) \in Nat
         /\ Cardinality(Present) = 0 <=> Present = {}
         /\ Cardinality(streaming) = 0 <=> streaming = {}
<1>1. sessions \in SUBSET Session /\ Present \in SUBSET Viewer /\ streaming \in SUBSET Stream
  BY DEF TypeOK, Present
<1>2. IsFiniteSet(sessions) /\ IsFiniteSet(Present) /\ IsFiniteSet(streaming)
  BY <1>1, FS_Subset, ManagerAssumption
<1>3. QED
  BY <1>2, FS_CardinalityType, FS_EmptySet

\* Nobody is present when the counter is zero, and only then.
LEMMA NobodyCounted ==
  ASSUME TypeOK, Counted
  PROVE  activeClients = 0 <=> (Present = {} /\ streaming = {})
BY FiniteClients DEF Counted

\* A socket that begins to be served is one more; one that stops, one less.
LEMMA LookupCounts ==
  ASSUME TypeOK, Counted, NEW v \in Viewer, NEW id \in Session, Lookup(v, id)
  PROVE  Counted'
<1>1. v \notin Present /\ Present' = Present \cup {v}
  BY ManagerAssumption DEF Present, Lookup, TypeOK
<1>2. Cardinality(Present') = Cardinality(Present) + 1
  BY <1>1, FiniteClients, FS_AddElement
<1>3. QED
  BY <1>2, FiniteClients DEF Counted, Lookup, TypeOK

LEMMA StopServingCounts ==
  ASSUME TypeOK, Counted, NEW v \in Viewer, serving[v] # NoSession, StopServing(v)
  PROVE  Counted'
<1>1. v \in Present /\ Present' = Present \ {v}
  BY DEF Present, StopServing, TypeOK
<1>2. Cardinality(Present') = Cardinality(Present) - 1 /\ Cardinality(Present) # 0
  BY <1>1, FiniteClients, FS_RemoveElement
<1>3. QED
  BY <1>2, FiniteClients DEF Counted, StopServing, ClientDisconnected, TypeOK

LEMMA OpenStreamCounts ==
  ASSUME TypeOK, Counted, NEW s \in Stream, OpenStream(s)
  PROVE  Counted'
<1>1. Cardinality(streaming') = Cardinality(streaming) + 1
  BY FiniteClients, FS_AddElement DEF OpenStream
<1>2. Present' = Present
  BY DEF Present, OpenStream
<1>3. QED
  BY <1>1, <1>2, FiniteClients DEF Counted, OpenStream, TypeOK

LEMMA EndStreamCounts ==
  ASSUME TypeOK, Counted, NEW s \in Stream, EndStream(s)
  PROVE  Counted'
<1>1. Cardinality(streaming') = Cardinality(streaming) - 1 /\ Cardinality(streaming) # 0
  BY FiniteClients, FS_RemoveElement DEF EndStream
<1>2. Present' = Present
  BY DEF Present, EndStream
<1>3. QED
  BY <1>1, <1>2, FiniteClients DEF Counted, EndStream, ClientDisconnected, TypeOK

-----------------------------------------------------------------------------
(* The inductive invariant.                                                *)

LEMMA InitIInv == Init => IInv
<1> SUFFICES ASSUME Init PROVE IInv
  OBVIOUS
<1>1. TypeOK
  BY ManagerAssumption DEF Init, TypeOK, Unserved
<1>2. OrderIsLive
  BY DEF Init, OrderIsLive, IsInjective, ToSet
<1>3. Stages
  BY DEF Init, Stages
<1>4. Counted
  <2>1. Present = {} /\ streaming = {}
    BY DEF Init, Present, Unserved
  <2>2. QED
    BY <2>1, FS_EmptySet DEF Init, Counted
<1>5. Clocks
  BY DEF Init, Clocks
<1>6. QED
  BY <1>1, <1>2, <1>3, <1>4, <1>5 DEF IInv

LEMMA OlderType == ASSUME NEW n \in 0 .. Window PROVE Older(n) \in 0 .. Window /\ n <= Older(n)
BY ManagerAssumption DEF Older

LEMMA DisconnectType ==
  ASSUME TypeOK, ClientDisconnected
  PROVE  activeClients' \in Nat /\ idleFor' \in 0 .. Window
BY ManagerAssumption DEF TypeOK, ClientDisconnected

\* Taking a live session's id out of the order.
LEMMA DropIsLive ==
  ASSUME TypeOK, OrderIsLive, NEW id \in sessions
  PROVE  /\ DropFromOrder(id) \in Seq(Session) /\ IsInjective(DropFromOrder(id))
         /\ ToSet(DropFromOrder(id)) = sessions \ {id}
         /\ \A a, b \in sessions \ {id} :
              Before(DropFromOrder(id), a, b) <=> Before(order, a, b)
<1>1. order \in Seq(Session) /\ IsInjective(order) /\ id \in ToSet(order)
  BY DEF TypeOK, OrderIsLive
<1>2. /\ DropFromOrder(id) \in Seq(Session) /\ IsInjective(DropFromOrder(id))
      /\ ToSet(DropFromOrder(id)) = ToSet(order) \ {id}
      /\ \A a, b \in ToSet(DropFromOrder(id)) :
           Before(DropFromOrder(id), a, b) <=> Before(order, a, b)
  BY <1>1, RemoveDistinct DEF DropFromOrder
<1>3. QED
  BY <1>2 DEF OrderIsLive

\* What is doomed, and why, stays well formed.
LEMMA DoomType ==
  ASSUME TypeOK, NEW ids \in SUBSET Session, NEW why \in {"close", "reap", "shutdown"}
  PROVE  /\ DOMAIN Doom(ids, why) = DOMAIN doomed \cup ids
         /\ DOMAIN Doom(ids, why) \subseteq Session
         /\ Doom(ids, why) \in [DOMAIN Doom(ids, why) -> {"close", "reap", "shutdown"}]
BY DEF Doom, TypeOK

LEMMA TypeOKStep == IInv /\ [Next]_vars => TypeOK'
<1> SUFFICES ASSUME IInv, [Next]_vars PROVE TypeOK'
  OBVIOUS
<1> USE DEF IInv
<1>1. ASSUME NEW id \in Session, Start(id) PROVE TypeOK'
  BY <1>1 DEF Start, TypeOK, table, clients, closing
<1>2. ASSUME NEW id \in Session, Insert(id) PROVE TypeOK'
  <2>1. age' \in [sessions' -> 0 .. Window]
    <3>1. sessions' = sessions \cup {id}
      BY <1>2 DEF Insert
    <3>2. QED
      BY <1>2, <3>1, ManagerAssumption DEF Insert, TypeOK
  <2>2. order' \in Seq(Session)
    BY <1>2 DEF Insert, Newest, TypeOK
  <2>3. QED
    BY <1>2, <2>1, <2>2, ManagerAssumption DEF Insert, TypeOK, clients, closing
<1>3. ASSUME NEW id \in Session, Close(id) PROVE TypeOK'
  <2>1. order' \in Seq(Session)
    BY <1>3, DropIsLive DEF Close
  <2>2. age' \in [sessions' -> 0 .. Window]
    BY <1>3 DEF Close, Restrict, TypeOK
  <2>3. DOMAIN doomed' \subseteq Session /\ doomed' \in [DOMAIN doomed' -> {"close", "reap", "shutdown"}]
    BY <1>3, DoomType DEF Close
  <2>4. QED
    BY <1>3, <2>1, <2>2, <2>3 DEF Close, TypeOK, clients
<1>4. ASSUME NEW ids \in Arrangement, SetSessionOrder(ids) PROVE TypeOK'
  <2>1. ids \in Seq(Session)
    BY <1>4, AcceptedIsLive, FiniteClients DEF SetSessionOrder, TypeOK
  <2>2. QED
    BY <1>4, <2>1 DEF SetSessionOrder, TypeOK, clients, closing
<1>5. ASSUME NEW id \in Session, CloseHandler(id) PROVE TypeOK'
  BY <1>5 DEF CloseHandler, TypeOK, table, clients
<1>6. ASSUME NEW id \in Session, Exit(id) \/ Monitor(id) PROVE TypeOK'
  BY <1>6 DEF Exit, Monitor, TypeOK, table, clients, closing
<1>7. ASSUME NEW v \in Viewer, NEW id \in Session, Lookup(v, id) PROVE TypeOK'
  BY <1>7 DEF Lookup, TypeOK, table, closing
<1>8. ASSUME NEW v \in Viewer, HangUp(v) \/ ExitClose(v) PROVE TypeOK'
  <2>1. StopServing(v)
    BY <1>8 DEF HangUp, ExitClose
  <2>2. QED
    BY <2>1, DisconnectType, ManagerAssumption DEF StopServing, TypeOK, table, closing
<1>9. ASSUME NEW s \in Stream, OpenStream(s) PROVE TypeOK'
  BY <1>9 DEF OpenStream, TypeOK, table, closing
<1>10. ASSUME NEW s \in Stream, EndStream(s) PROVE TypeOK'
  BY <1>10, DisconnectType, ManagerAssumption DEF EndStream, TypeOK, table, closing
<1>11. ASSUME Reap PROVE TypeOK'
  <2>1. DOMAIN doomed' \subseteq Session /\ doomed' \in [DOMAIN doomed' -> {"close", "reap", "shutdown"}]
    BY <1>11, DoomType DEF Reap, TypeOK
  <2>2. QED
    BY <1>11, <2>1 DEF Reap, TypeOK, clients
<1>12. ASSUME Tick PROVE TypeOK'
  BY <1>12, OlderType, ManagerAssumption DEF Tick, TypeOK, table, closing
<1>13. ASSUME Shutdown PROVE TypeOK'
  <2>1. DOMAIN doomed' \subseteq Session /\ doomed' \in [DOMAIN doomed' -> {"close", "reap", "shutdown"}]
    BY <1>13, DoomType DEF Shutdown, TypeOK
  <2>2. QED
    BY <1>13, <2>1 DEF Shutdown, TypeOK, clients
<1>14. ASSUME ReaperStops \/ ShutdownReturns \/ ShutdownExpires PROVE TypeOK'
  BY <1>14 DEF ReaperStops, ShutdownReturns, ShutdownExpires, TypeOK, table, clients
<1>15. ASSUME UNCHANGED vars PROVE TypeOK'
  BY <1>15 DEF vars, table, clients, closing, TypeOK
<1>16. QED
  BY <1>1, <1>2, <1>3, <1>4, <1>5, <1>6, <1>7, <1>8, <1>9, <1>10, <1>11, <1>12,
     <1>13, <1>14, <1>15 DEF Next, Request, Handlers, Clients, Loops

LEMMA OrderStep == IInv /\ [Next]_vars => OrderIsLive'
<1> SUFFICES ASSUME IInv, [Next]_vars PROVE OrderIsLive'
  OBVIOUS
<1> USE DEF IInv
<1>1. ASSUME NEW id \in Session, Insert(id) PROVE OrderIsLive'
  <2>1. order \in Seq(Session) /\ IsInjective(order) /\ id \notin ToSet(order)
    BY <1>1 DEF Insert, TypeOK, OrderIsLive, Stages
  <2>2. IsInjective(order') /\ ToSet(order') = ToSet(order) \cup {id}
    BY <1>1, <2>1, AppendDistinct DEF Insert, Newest
  <2>3. QED
    BY <1>1, <2>2 DEF Insert, OrderIsLive
<1>2. ASSUME NEW id \in Session, Close(id) PROVE OrderIsLive'
  BY <1>2, DropIsLive DEF Close, OrderIsLive
<1>3. ASSUME NEW ids \in Arrangement, SetSessionOrder(ids) PROVE OrderIsLive'
  BY <1>3, AcceptedIsLive, FiniteClients DEF SetSessionOrder, OrderIsLive, TypeOK
<1>4. ASSUME Reap \/ Shutdown PROVE OrderIsLive'
  <2>1. sessions' = {} /\ order' = <<>>
    BY <1>4 DEF Reap, Shutdown
  <2>2. QED
    BY <2>1 DEF OrderIsLive, IsInjective, ToSet
<1>5. ASSUME UNCHANGED table PROVE OrderIsLive'
  BY <1>5 DEF table, OrderIsLive
<1>6. ASSUME NEW id \in Session, Start(id) \/ CloseHandler(id) \/ Exit(id) \/ Monitor(id)
      PROVE  UNCHANGED table
  BY <1>6 DEF Start, CloseHandler, Exit, Monitor
<1>7. Clients => UNCHANGED table
  BY DEF Clients, Lookup, HangUp, ExitClose, StopServing, OpenStream, EndStream
<1>8. Tick \/ ReaperStops \/ ShutdownReturns \/ ShutdownExpires => UNCHANGED table
  BY DEF Tick, ReaperStops, ShutdownReturns, ShutdownExpires
<1>9. UNCHANGED vars => UNCHANGED table
  BY DEF vars
<1>10. QED
  BY <1>1, <1>2, <1>3, <1>4, <1>5, <1>6, <1>7, <1>8, <1>9
     DEF Next, Request, Handlers, Loops

LEMMA StagesStep == IInv /\ [Next]_vars => Stages'
<1> SUFFICES ASSUME IInv, [Next]_vars PROVE Stages'
  OBVIOUS
<1> USE DEF IInv
<1>1. ASSUME NEW id \in Session, Start(id) PROVE Stages'
  BY <1>1 DEF Start, Stages, TypeOK, table, closing
<1>2. ASSUME NEW id \in Session, Insert(id) PROVE Stages'
  BY <1>2 DEF Insert, Stages, TypeOK, closing
<1>3. ASSUME NEW id \in Session, Close(id) PROVE Stages'
  <2>1. DOMAIN doomed' = DOMAIN doomed \cup {id}
    BY <1>3, DoomType DEF Close
  <2>2. QED
    BY <1>3, <2>1 DEF Close, Stages
<1>4. ASSUME Reap \/ Shutdown PROVE Stages'
  <2>1. DOMAIN doomed' = DOMAIN doomed \cup sessions
    BY <1>4, DoomType DEF Reap, Shutdown, TypeOK
  <2>2. QED
    BY <1>4, <2>1 DEF Reap, Shutdown, Stages
<1>5. ASSUME NEW id \in Session, CloseHandler(id) PROVE Stages'
  BY <1>5 DEF CloseHandler, Stages, TypeOK, table
<1>6. ASSUME NEW id \in Session, Exit(id) \/ Monitor(id) PROVE Stages'
  BY <1>6 DEF Exit, Monitor, Stages, TypeOK, table, closing
<1>7. ASSUME UNCHANGED <<sessions, starting, doomed, proc>> PROVE Stages'
  BY <1>7 DEF Stages
<1>8. \A ids \in Arrangement : SetSessionOrder(ids) => UNCHANGED <<sessions, starting, doomed, proc>>
  BY DEF SetSessionOrder, closing
<1>9. Clients => UNCHANGED <<sessions, starting, doomed, proc>>
  BY DEF Clients, Lookup, HangUp, ExitClose, StopServing, OpenStream, EndStream, table, closing
<1>10. Tick \/ ReaperStops \/ ShutdownReturns \/ ShutdownExpires
         => UNCHANGED <<sessions, starting, doomed, proc>>
  BY DEF Tick, ReaperStops, ShutdownReturns, ShutdownExpires, table, closing
<1>11. UNCHANGED vars => UNCHANGED <<sessions, starting, doomed, proc>>
  BY DEF vars, table, closing
<1>12. QED
  BY <1>1, <1>2, <1>3, <1>4, <1>5, <1>6, <1>7, <1>8, <1>9, <1>10, <1>11
     DEF Next, Request, Handlers, Loops

\* Only a client's coming and going changes who is counted.
LEMMA ClientsAlone ==
  ASSUME [Next]_vars
  PROVE  Clients \/ UNCHANGED <<activeClients, serving, streaming>>
<1>1. ASSUME NEW id \in Session,
             Start(id) \/ Insert(id) \/ Close(id) \/ CloseHandler(id) \/ Exit(id) \/ Monitor(id)
      PROVE  UNCHANGED <<activeClients, serving, streaming>>
  BY <1>1 DEF Start, Insert, Close, CloseHandler, Exit, Monitor, clients
<1>2. \A ids \in Arrangement : SetSessionOrder(ids) => UNCHANGED <<activeClients, serving, streaming>>
  BY DEF SetSessionOrder, clients
<1>3. Loops => UNCHANGED <<activeClients, serving, streaming>>
  BY DEF Loops, Reap, Tick, Shutdown, ReaperStops, ShutdownReturns, ShutdownExpires, clients
<1>4. UNCHANGED vars => UNCHANGED <<activeClients, serving, streaming>>
  BY DEF vars, clients
<1>5. QED
  BY <1>1, <1>2, <1>3, <1>4 DEF Next, Request, Handlers

LEMMA CountedStep == IInv /\ [Next]_vars => Counted'
<1> SUFFICES ASSUME IInv, [Next]_vars PROVE Counted'
  OBVIOUS
<1> USE DEF IInv
<1>1. CASE Clients
  <2>1. \A v \in Viewer : ExitClose(v) => serving[v] # NoSession /\ StopServing(v)
    BY ManagerAssumption DEF ExitClose
  <2>2. \A v \in Viewer : HangUp(v) => serving[v] # NoSession /\ StopServing(v)
    BY DEF HangUp
  <2>3. QED
    BY <1>1, <2>1, <2>2, LookupCounts, StopServingCounts, OpenStreamCounts, EndStreamCounts
       DEF Clients
<1>2. CASE UNCHANGED <<activeClients, serving, streaming>>
  BY <1>2 DEF Counted, Present
<1>3. QED
  BY <1>1, <1>2, ClientsAlone

LEMMA ClocksStep == IInv /\ [Next]_vars => Clocks'
<1> SUFFICES ASSUME IInv, [Next]_vars PROVE Clocks'
  OBVIOUS
<1> USE DEF IInv
<1>1. ASSUME NEW id \in Session, Insert(id) PROVE Clocks'
  <2>1. idleFor' = 0 /\ absent' = absent /\ absent \in 0 .. Window
    BY <1>1 DEF Insert, clients, TypeOK
  <2>2. \A i \in sessions' : age'[i] \in 0 .. Window
    BY <1>1, TypeOKStep DEF TypeOK
  <2>3. QED
    BY <2>1, <2>2, ManagerAssumption DEF Clocks
<1>2. ASSUME NEW id \in Session, Close(id) PROVE Clocks'
  BY <1>2 DEF Close, Restrict, Clocks, clients
<1>3. ASSUME Reap \/ Shutdown PROVE Clocks'
  BY <1>3 DEF Reap, Shutdown, Clocks, clients
<1>4. ASSUME ClientDisconnected, absent' = 0, UNCHANGED <<table, age>> PROVE Clocks'
  <2>1. idleFor' = 0 \/ (activeClients' # 0 /\ idleFor' = idleFor)
    BY <1>4 DEF ClientDisconnected, TypeOK
  <2>2. \A i \in sessions : age[i] \in 0 .. Window
    BY DEF TypeOK
  <2>3. QED
    BY <1>4, <2>1, <2>2, ManagerAssumption DEF Clocks, table
<1>5. ASSUME NEW v \in Viewer, HangUp(v) \/ ExitClose(v) PROVE Clocks'
  BY <1>4, <1>5 DEF HangUp, ExitClose, StopServing
<1>6. ASSUME NEW s \in Stream, EndStream(s) PROVE Clocks'
  BY <1>4, <1>6 DEF EndStream
<1>7. ASSUME activeClients' # 0, UNCHANGED <<sessions, idleFor, age>> PROVE Clocks'
  BY <1>7 DEF Clocks
<1>8. ASSUME NEW v \in Viewer, NEW id \in Session, Lookup(v, id) PROVE Clocks'
  BY <1>7, <1>8 DEF Lookup, TypeOK, table
<1>9. ASSUME NEW s \in Stream, OpenStream(s) PROVE Clocks'
  BY <1>7, <1>9 DEF OpenStream, TypeOK, table
<1>10. ASSUME Tick PROVE Clocks'
  <2>1. \A m, n \in 0 .. Window : m <= n => Older(m) <= Older(n)
    BY ManagerAssumption DEF Older
  <2>2. \A id \in sessions' : idleFor' <= age'[id]
    <3>1. \A id \in sessions : idleFor \in 0 .. Window /\ age[id] \in 0 .. Window /\ idleFor <= age[id]
      BY DEF TypeOK, Clocks
    <3>2. \A id \in sessions : Older(idleFor) <= Older(age[id])
      BY <2>1, <3>1
    <3>3. sessions' = sessions /\ idleFor' = Older(idleFor)
          /\ \A id \in sessions : age'[id] = Older(age[id])
      BY <1>10 DEF Tick, table
    <3>4. QED
      BY <3>2, <3>3
  <2>3. ASSUME activeClients' = 0 PROVE idleFor' <= absent'
    <3>1. activeClients = 0
      BY <1>10, <2>3 DEF Tick
    <3>2. absent' = Older(absent) /\ idleFor' = Older(idleFor)
      BY <1>10, <3>1, NobodyCounted DEF Tick
    <3>3. idleFor <= absent /\ idleFor \in 0 .. Window /\ absent \in 0 .. Window
      BY <3>1 DEF Clocks, TypeOK
    <3>4. QED
      BY <2>1, <3>2, <3>3
  <2>4. QED
    BY <2>2, <2>3 DEF Clocks
<1>11. ASSUME UNCHANGED <<sessions, activeClients, idleFor, absent, age>> PROVE Clocks'
  BY <1>11 DEF Clocks
<1>12. ASSUME NEW id \in Session, Start(id) \/ CloseHandler(id) \/ Exit(id) \/ Monitor(id)
       PROVE  UNCHANGED <<sessions, activeClients, idleFor, absent, age>>
  BY <1>12 DEF Start, CloseHandler, Exit, Monitor, table, clients
<1>13. \A ids \in Arrangement :
         SetSessionOrder(ids) => UNCHANGED <<sessions, activeClients, idleFor, absent, age>>
  BY DEF SetSessionOrder, clients
<1>14. ReaperStops \/ ShutdownReturns \/ ShutdownExpires \/ UNCHANGED vars
         => UNCHANGED <<sessions, activeClients, idleFor, absent, age>>
  BY DEF ReaperStops, ShutdownReturns, ShutdownExpires, vars, table, clients
<1>15. QED
  BY <1>1, <1>2, <1>3, <1>5, <1>6, <1>8, <1>9, <1>10, <1>11, <1>12, <1>13, <1>14
     DEF Next, Request, Handlers, Clients, Loops

LEMMA IInvStep == IInv /\ [Next]_vars => IInv'
BY TypeOKStep, OrderStep, StagesStep, CountedStep, ClocksStep DEF IInv

LEMMA IInvAlways == Spec => []IInv
BY InitIInv, IInvStep, PTL DEF Spec

-----------------------------------------------------------------------------
(* The theorems.                                                           *)

\* The display order names every live session exactly once (create, Close,
\* SetSessionOrder, maybeReap and Shutdown on one table).
THEOREM OrderAlwaysLive == Spec => [](TypeOK /\ OrderIsLive)
<1>1. IInv => TypeOK /\ OrderIsLive
  BY DEF IInv
<1>2. QED
  BY <1>1, IInvAlways, PTL

\* Sessions that stay keep their arrangement when others come or go, and the
\* one that comes goes last (create's append, dropFromOrderLocked's delete).
THEOREM ArrangementAlwaysKept == Spec => ArrangementKept
<1>1. ASSUME IInv, [Next]_vars PROVE KeepsArrangement
  <2> USE <1>1 DEF IInv
  <2>1. ASSUME NEW id \in Session, Insert(id) PROVE KeepsArrangement
    <3>1. order \in Seq(Session) /\ IsInjective(order) /\ ToSet(order) = sessions
      BY DEF TypeOK, OrderIsLive
    <3>2. id \notin sessions /\ sessions' = sessions \cup {id} /\ order' = Append(order, id)
      BY <2>1 DEF Insert, Newest, Stages
    <3>3. \A a \in sessions, b \in sessions \cup {id} :
            Before(order', a, b) <=> (b = id \/ Before(order, a, b))
      BY <3>1, <3>2, AppendDistinct
    <3>4. QED
      BY <3>2, <3>3 DEF KeepsArrangement
  <2>2. ASSUME NEW id \in Session, Close(id) PROVE KeepsArrangement
    <3>1. id \in sessions /\ sessions' = sessions \ {id} /\ order' = DropFromOrder(id)
      BY <2>2 DEF Close
    <3>2. \A a, b \in sessions \ {id} : Before(DropFromOrder(id), a, b) <=> Before(order, a, b)
      BY <3>1, DropIsLive
    <3>3. QED
      BY <3>1, <3>2 DEF KeepsArrangement
  <2>3. ASSUME Reap \/ Shutdown PROVE KeepsArrangement
    BY <2>3 DEF Reap, Shutdown, KeepsArrangement
  <2>4. ASSUME NEW id \in Session, Start(id) \/ CloseHandler(id) \/ Exit(id) \/ Monitor(id)
        PROVE  UNCHANGED sessions
    BY <2>4 DEF Start, CloseHandler, Exit, Monitor, table
  <2>5. \A ids \in Arrangement : SetSessionOrder(ids) => UNCHANGED sessions
    BY DEF SetSessionOrder
  <2>6. Clients => UNCHANGED sessions
    BY DEF Clients, Lookup, HangUp, ExitClose, StopServing, OpenStream, EndStream, table
  <2>7. Tick \/ ReaperStops \/ ShutdownReturns \/ ShutdownExpires \/ UNCHANGED vars
          => UNCHANGED sessions
    BY DEF Tick, ReaperStops, ShutdownReturns, ShutdownExpires, vars, table
  <2>8. UNCHANGED sessions => KeepsArrangement
    BY DEF KeepsArrangement
  <2>9. QED
    BY <2>1, <2>2, <2>3, <2>4, <2>5, <2>6, <2>7, <2>8 DEF Next, Request, Handlers, Loops
<1>2. QED
  BY <1>1, IInvAlways, PTL DEF Spec, ArrangementKept

\* The reaper takes nothing while somebody is there, nor before a whole window
\* has passed without anybody and since the session was created (maybeReap
\* against WebSocketHandler, EventsHandler and create).
THEOREM ReaperAlwaysSpares == Spec => ReapSparesPresent
<1>1. ASSUME IInv, [Next]_vars PROVE SparesPresent
  <2> USE <1>1 DEF IInv
  <2>1. ASSUME Reap PROVE SparesPresent
    <3>1. activeClients = 0
      BY <2>1 DEF Reap, TypeOK
    <3>2. Present = {} /\ streaming = {}
      BY <3>1, NobodyCounted
    <3>3. idleFor = Window /\ absent = Window
      BY <2>1, <3>1, ManagerAssumption DEF Reap, IdleWindowPassed, Clocks, TypeOK
    <3>4. \A id \in sessions : age[id] = Window
      <4>1. \A id \in sessions : age[id] \in 0 .. Window /\ idleFor <= age[id]
        BY DEF TypeOK, Clocks
      <4>2. QED
        BY <3>3, <4>1, ManagerAssumption
    <3>5. QED
      BY <3>2, <3>3, <3>4 DEF SparesPresent
  <2>2. ASSUME NEW ids \in SUBSET Session, NEW why \in {"close", "shutdown"},
               doomed' = Doom(ids, why)
        PROVE  SparesPresent
    <3>1. SUFFICES ASSUME NEW id \in DOMAIN doomed', doomed'[id] = "reap", id \in sessions
                   PROVE  FALSE
      BY DEF SparesPresent
    <3>2. id \notin DOMAIN doomed
      BY <3>1 DEF Stages
    <3>3. id \in ids /\ doomed'[id] = why
      BY <2>2, <3>1, <3>2 DEF Doom
    <3>4. QED
      BY <3>1, <3>3
  <2>3. ASSUME NEW id \in Session, Close(id) PROVE SparesPresent
    BY <2>2, <2>3 DEF Close
  <2>4. ASSUME Shutdown PROVE SparesPresent
    BY <2>2, <2>4 DEF Shutdown, TypeOK
  <2>5. ASSUME DOMAIN doomed' \subseteq DOMAIN doomed PROVE SparesPresent
    BY <2>5 DEF SparesPresent, Stages
  <2>6. \A id \in Session : CloseHandler(id) => DOMAIN doomed' \subseteq DOMAIN doomed
    BY DEF CloseHandler
  <2>7. ASSUME NEW id \in Session, Start(id) \/ Insert(id) \/ Exit(id) \/ Monitor(id)
        PROVE  UNCHANGED doomed
    BY <2>7 DEF Start, Insert, Exit, Monitor, closing
  <2>8. \A ids \in Arrangement : SetSessionOrder(ids) => UNCHANGED doomed
    BY DEF SetSessionOrder, closing
  <2>9. Clients => UNCHANGED doomed
    BY DEF Clients, Lookup, HangUp, ExitClose, StopServing, OpenStream, EndStream, closing
  <2>10. Tick \/ ReaperStops \/ ShutdownReturns \/ ShutdownExpires \/ UNCHANGED vars
           => UNCHANGED doomed
    BY DEF Tick, ReaperStops, ShutdownReturns, ShutdownExpires, vars, closing
  <2>11. UNCHANGED doomed => DOMAIN doomed' \subseteq DOMAIN doomed
    OBVIOUS
  <2>12. QED
    BY <2>1, <2>3, <2>4, <2>5, <2>6, <2>7, <2>8, <2>9, <2>10, <2>11
       DEF Next, Request, Handlers, Loops
<1>2. QED
  BY <1>1, IInvAlways, PTL DEF Spec, ReapSparesPresent

-----------------------------------------------------------------------------
(* Shutdown, when its caller has no session on its way in or out.          *)

\* From Shutdown on the table stays empty, and whatever still runs is one of
\* the sessions it waits for.
Quiet ==
  /\ shut # "no" => sessions = {} /\ starting = {}
  /\ shut = "waiting" => \A id \in Session : proc[id] \notin Ended => id \in victims
  /\ shut = "done" => \A id \in Session : proc[id] \in Ended

LEMMA QuietStep ==
  ASSUME Mishaps = {}, TypeOK, Quiet, [Next]_vars
  PROVE  Quiet'
<1>1. ASSUME NEW id \in Session, Start(id) \/ Insert(id) \/ Close(id) PROVE Quiet'
  BY <1>1 DEF Start, Insert, Close, Quiet, closing
<1>2. ASSUME NEW ids \in Arrangement, SetSessionOrder(ids) PROVE Quiet'
  BY <1>2 DEF SetSessionOrder, Quiet, closing
<1>3. ASSUME NEW id \in Session, CloseHandler(id) \/ Exit(id) \/ Monitor(id) PROVE Quiet'
  <2>1. \A i \in Session : proc[i] \in Ended => proc'[i] \in Ended
    BY <1>3 DEF CloseHandler, Exit, Monitor, TypeOK, Ended
  <2>2. UNCHANGED <<sessions, starting, shut, victims>>
    BY <1>3 DEF CloseHandler, Exit, Monitor, table, closing
  <2>3. QED
    BY <2>1, <2>2 DEF Quiet
<1>4. ASSUME UNCHANGED <<sessions, starting, shut, victims, proc>> PROVE Quiet'
  BY <1>4 DEF Quiet
<1>5. Clients \/ Tick \/ ReaperStops \/ UNCHANGED vars
        => UNCHANGED <<sessions, starting, shut, victims, proc>>
  BY DEF Clients, Lookup, HangUp, ExitClose, StopServing, OpenStream, EndStream,
         Tick, ReaperStops, vars, table, closing
<1>6. ASSUME Reap PROVE Quiet'
  BY <1>6 DEF Reap, Quiet
<1>7. ASSUME Shutdown PROVE Quiet'
  <2>1. starting = {} /\ \A id \in Session : proc[id] \notin Ended => id \in sessions
    BY <1>7 DEF Shutdown
  <2>2. /\ shut' = "waiting" /\ victims' = sessions /\ sessions' = {}
        /\ UNCHANGED <<starting, proc>>
    BY <1>7 DEF Shutdown
  <2>3. QED
    BY <2>1, <2>2 DEF Quiet
<1>8. ASSUME ShutdownReturns PROVE Quiet'
  <2>1. \A id \in Session : proc[id] \in Ended
    BY <1>8 DEF ShutdownReturns, AllDone, Quiet, Ended
  <2>2. shut = "waiting" /\ shut' = "done" /\ UNCHANGED <<sessions, starting, proc>>
    BY <1>8 DEF ShutdownReturns, table
  <2>3. QED
    BY <2>1, <2>2 DEF Quiet
<1>9. ASSUME ShutdownExpires PROVE Quiet'
  BY <1>9 DEF ShutdownExpires, Quiet, table
<1>10. QED
  BY <1>1, <1>2, <1>3, <1>4, <1>5, <1>6, <1>7, <1>8, <1>9 DEF Next, Request, Handlers, Loops

\* When no session is being created, closed or reaped around it, Shutdown
\* returns nil only once every process is gone, teardown and all.
THEOREM ShutdownAlwaysComplete ==
  ASSUME Mishaps = {}
  PROVE  Spec => []ShutdownComplete
<1>1. Init => Quiet
  BY DEF Init, Quiet
<1>2. IInv /\ Quiet /\ [Next]_vars => Quiet'
  BY QuietStep DEF IInv
<1>3. Quiet => ShutdownComplete
  BY DEF Quiet, ShutdownComplete
<1>4. QED
  BY <1>1, <1>2, <1>3, IInvAlways, PTL DEF Spec

=============================================================================
