SPECIFICATION FairSpec
CONSTANTS
  MaxInput = 2
  MaxSockets = 2
  MaxBoots = 2
  MaxFrames = 1
  OutboxCap = 2
  Mishaps = {"reload"}
INVARIANTS OutboxIsTail OrderedOnce NoSilentLoss ByteConservation
PROPERTY AckedEventually
CHECK_DEADLOCK FALSE
