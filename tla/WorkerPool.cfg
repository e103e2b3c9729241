SPECIFICATION FairPoolSpec
CONSTANTS
  CONNFD_POOL_SIZE = 3
  c1 = c1
  c2 = c2
  c3 = c3
  c4 = c4
  Conns <- FourConns
  AddrLens <- MCAddrLens
  Failures = TRUE
INVARIANTS
  PoolTypeOK
  OwnIndex
  PublishedSlots
  PoolCompleteBeforeAccept
  AddedIsServed
  DispatchBalanced
PROPERTIES
  PoolComesUp
  ConnectionsDispatched
CHECK_DEADLOCK FALSE
