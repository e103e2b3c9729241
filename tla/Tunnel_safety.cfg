SPECIFICATION TunnelSpec
CONSTANTS
  MAXLINE = 2
  SendBuffer = 2
  MaxBytes = 4
  Resets = TRUE
INVARIANTS
  TunnelTypeOK
  NoStrandedData
  PassedInOrder
  NeverRepeats
  ClosedWhenDrained
CHECK_DEADLOCK FALSE
