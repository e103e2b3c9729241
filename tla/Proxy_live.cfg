SPECIFICATION FairProxySpec
CONSTANTS
  CONNFD_POOL_SIZE = 1
  c1 = c1
  c2 = c2
  c3 = c3
  Conns <- TwoConns
  AddrLens <- MCAddrLens
  Failures = FALSE
  Fds <- FewFds
  EPOLL_EVENTS = 1
  MaxRequests = 3
PROPERTIES
  ReadableServed
CHECK_DEADLOCK FALSE
