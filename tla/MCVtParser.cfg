SPECIFICATION Spec
CONSTANTS
  Repertoires <- MCRepertoires
  maxParams = 3
  maxGroup = 2
  maxIntermed = 2
  maxString = 2
  maxArg = 11
  MaxText = 4
INVARIANTS ControlsAsWritten StringsAsWritten TextAsWritten
CHECK_DEADLOCK FALSE
