SPECIFICATION GridSpec
CONSTANTS
  Sizes <- MCSizes
  FirstSize <- MCFirst
  Counts = {1, 2}
  Glyphs = {1, 2}
  DecModes = {6, 69, 1049}
  TabSize = 2
  MaxSettings = 4
  MaxAutolinkRows = 3
  MaxWrapped = 2
  Mishaps = {}
INVARIANTS ChainKept EditsExact
CHECK_DEADLOCK FALSE
