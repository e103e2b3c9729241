SPECIFICATION FairTunnelSpec
CONSTANTS
  MAXLINE = 2
  SendBuffer <- AmpleBuffer
  MaxBytes = 2
  Resets = FALSE
PROPERTIES
  EndClosesTunnel
CHECK_DEADLOCK FALSE
