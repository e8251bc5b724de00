CONSTANTS
  THREAD_NUM = 2
  MAX_CONNECT = 4
  IntHalf = 128
  SizeMod = 65536
  Conns <- TwoConns
  Window <- TwoAndOne
  PoolSize = 5
SPECIFICATION FairSpec
CHECK_DEADLOCK FALSE
INVARIANT TypeOK
INVARIANT PackagesAccounted
PROPERTY BatchEnds
