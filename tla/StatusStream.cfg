\* Two sessions, three changes, one strip that is cut off once, room for one event.
SPECIFICATION FairSpec
CONSTANTS
  Session = {s1, s2}
  Strip = {t1}
  Conn = {c1, c2}
  NoConn = NoConn
  Reported <- Reports
  Class = {"done"}
  Name = {"", "pinned"}
  QueueCap = 1
  SubCap = 1
  MaxChanges = 3
  MaxLosses = 1
  Mishaps = {}
INVARIANTS StripAgrees NotifiedOnce LatchKept TurnEndShown
PROPERTY StripsConverge
CHECK_DEADLOCK FALSE
