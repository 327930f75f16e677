SPECIFICATION FairSpec
CONSTANTS
  Session = {s1}
  Inherited <- MCInherited
  Configured <- MCConfigured
  MaxPids = 4
  MaxAttaches = 1
  Mishaps = {}
INVARIANTS ExitKnown TreeGone OnlyOwnSignalled
PROPERTIES TeardownEnds ClientsTold
CHECK_DEADLOCK FALSE
