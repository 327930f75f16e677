SPECIFICATION Spec
CONSTANTS
  Sizes <- MCSizes
  FirstSize <- MCFirst
  Counts = {1, 2}
  Glyphs = {1, 2}
  DecModes = {3, 6, 7, 41, 45, 69, 1047, 1049}
  TabSize = 2
  MaxSettings = 3
  Mishaps = {}
INVARIANTS OnScreen PendingAtEdge RegionConfines
CHECK_DEADLOCK FALSE
