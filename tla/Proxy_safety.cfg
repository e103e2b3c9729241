SPECIFICATION ProxySpec
CONSTANTS
  CONNFD_POOL_SIZE = 2
  c1 = c1
  c2 = c2
  c3 = c3
  Conns <- ThreeConns
  AddrLens <- MCAddrLens
  Failures = TRUE
  Fds <- FewFds
  EPOLL_EVENTS = 2
  MaxRequests = 1
SYMMETRY ClientSymmetry
INVARIANTS
  ProxyTypeOK
  OperatesOnOwn
  ServedIsDisarmed
  NoLostConnection
  NoDescriptorLeak
  CloseErrorOnlyByTunnel
CHECK_DEADLOCK FALSE
