SPECIFICATION FairTunnelSpec
CONSTANTS
  MAXLINE = 2
  SendBuffer <- AmpleBuffer
  MaxBytes = 4
  Resets = FALSE
PROPERTIES
  ImplementsPipe
  DataIsRead
  LoneEofCloses
CHECK_DEADLOCK FALSE
