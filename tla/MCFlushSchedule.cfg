SPECIFICATION Spec
CONSTANTS
  Client = {a, b}
  Sizes <- MCSizes
  DefaultSize <- MCDefaultSize
  FlushInterval = 1
  Quiet = 2
  SettleCap = 3
  MaxRearms = 1
  SyncHold = 2
  HealDebounce = 1
  Mishaps = {}
SYMMETRY Interchangeable
INVARIANTS FramesWhole FlushedInTime SizeIsAClients
CHECK_DEADLOCK FALSE
