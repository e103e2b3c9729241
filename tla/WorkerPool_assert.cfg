SPECIFICATION PoolSpec
CONSTANTS
  CONNFD_POOL_SIZE = 2
  c1 = c1
  c2 = c2
  c3 = c3
  c4 = c4
  Conns <- ThreeConns
  AddrLens <- MCAddrLens
  Failures = FALSE
INVARIANT AssertHolds
CHECK_DEADLOCK FALSE
