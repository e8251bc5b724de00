CONSTANTS
  THREAD_NUM = 3
  MAX_CONNECT = 4
  IntHalf = 128
  SizeMod = 65536
  MaxRetry = 3
  MaxHandled = 2
  EpollResults <- FewAndMany
SPECIFICATION FairSpec
INVARIANT TypeOK
INVARIANT BarrierUnlessOverwritten
INVARIANT BatchHandledOnce
INVARIANT OnlyReportedUnlessOverwritten
INVARIANT RetryBoundUnlessOverwritten
PROPERTY BatchFinishes
