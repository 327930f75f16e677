---------------------------- MODULE RetainedLog ----------------------------
(***************************************************************************)
(* What the engine promises about committed history: every line that       *)
(* scrolls off the main screen gets the next absolute index, at most       *)
(* capacity of the newest lines can be read back, an index keeps its line  *)
(* for as long as it can be read, and an index given up never comes back.  *)
(* ScrollbackRing (terminal/scrollback.go) implements this log.            *)
(***************************************************************************)
EXTENDS Integers

CONSTANTS Line       \* the lines a child can print

VARIABLES capacity,  \* how many lines may be retained; 0 retains none
          committed, \* lines ever committed: the index of the next one
          oldest,    \* the lowest index that can still be read
          retained   \* the lines that can be read, by absolute index

logVars == <<capacity, committed, oldest, retained>>

LogInit ==
  /\ capacity \in Nat
  /\ committed = 0 /\ oldest = 0
  /\ retained = [a \in {} |-> a]

\* One line enters history; the oldest one leaves when there is no room.
Commit(l) ==
  LET low == IF committed + 1 - oldest > capacity THEN oldest + 1 ELSE oldest IN
  /\ capacity > 0
  /\ committed' = committed + 1
  /\ oldest' = low
  /\ retained' = [a \in low .. committed |->
                    IF a = committed THEN l ELSE retained[a]]
  /\ UNCHANGED capacity

\* With no capacity a burst only moves the index space forward.
Skip ==
  /\ capacity = 0
  /\ committed' \in Int /\ committed' > committed
  /\ oldest' = committed'
  /\ UNCHANGED <<capacity, retained>>

\* The application erased its scrollback: nothing is readable, no index is reused.
Forget ==
  /\ oldest' = committed
  /\ retained' = [a \in {} |-> a]
  /\ UNCHANGED <<capacity, committed>>

LogNext == (\E l \in Line : Commit(l)) \/ Skip \/ Forget

LogSpec == LogInit /\ [][LogNext]_logVars
=============================================================================
