CONSTANTS
  NumFds = 2
  NumInfos = 1
  Ids <- TwoIds
  THREAD_NUM = 1
  ConnectLimit = 2
  SizeMod = 16
  GARBAGE_LIMIT = 1
  MaxConns = 2
  MaxRequests = 1
  MaxDisturbances = 3
SPECIFICATION Spec
CHECK_DEADLOCK FALSE
INVARIANT AnswersReachAsker
