CONSTANTS
  THREAD_NUM = 3
  MAX_CONNECT = 3
  IntHalf = 128
  SizeMod = 65536
  MaxRetry = 0
  MaxHandled = 2
  EpollResults <- AnyBatch
SPECIFICATION Spec
INVARIANT Barrier
