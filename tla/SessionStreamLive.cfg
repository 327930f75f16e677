SPECIFICATION FairSpec
CONSTANTS
  Client = {c1}
  Height = 2
  Depth = 2
  ReplayMax = 2
  ChunkLines = 1
  Drawing = {"alt", "rewrite"}
  Mishaps = {}
  MaxChunks = 2
  MaxWire = 2
  MaxAttaches = 2
  MaxBoots = 1
  MaxIndex = 6
  MaxLines = 6
PROPERTY Converges
CHECK_DEADLOCK FALSE
