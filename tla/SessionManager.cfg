\* Two sessions, two sockets and a status stream, an idle window of two ticks.
SPECIFICATION FairSpec
CONSTANTS
  Session = {s1, s2}
  NoSession = NoSession
  Viewer = {v1, v2}
  Stream = {t1}
  Window = 2
  Mishaps = {}
INVARIANTS OrderIsLive ShutdownComplete
PROPERTIES ArrangementKept ReapSparesPresent AbandonedReaped
CHECK_DEADLOCK FALSE
