SPECIFICATION Spec
CONSTANTS
  Line = {l1, l2}
  Configured <- MCConfigured
  MaxBatch = 2
  MaxCommitted = 8
INVARIANT PagesCompose
PROPERTIES
  ImplementsLog
  IndexIdentity
CHECK_DEADLOCK FALSE
