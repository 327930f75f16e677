SPECIFICATION Spec
CONSTANTS
  Client = {c1}
  Height = 2
  Depth = 2
  ReplayMax = 2
  ChunkLines = 1
  Drawing = {"alt", "rewrite", "erase"}
  Mishaps = {}
  MaxChunks = 4
  MaxWire = 2
  MaxAttaches = 2
  MaxBoots = 1
  MaxIndex = 6
  MaxLines = 3
INVARIANTS ClaimIsHonest ScreenShown HistoryComplete
CHECK_DEADLOCK FALSE
