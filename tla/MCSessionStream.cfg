SPECIFICATION Spec
CONSTANTS
  Client = {c1, c2}
  Height = 2
  Depth = 2
  ReplayMax = 2
  ChunkLines = 1
  Drawing = {"forget"}
  Mishaps = {"lateClear", "staleClaim"}
  MaxChunks = 2
  MaxWire = 2
  MaxAttaches = 3
  MaxBoots = 2
  MaxIndex = 6
  MaxLines = 6
INVARIANTS ScreenShown ClaimIsHonest
CHECK_DEADLOCK FALSE
SYMMETRY TabSymmetry
