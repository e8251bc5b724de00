CONSTANTS
  NumFds = 3
  NumInfos = 2
  Ids <- TwoIds
  THREAD_NUM = 2
  ConnectLimit = 2
  SizeMod = 16
  GARBAGE_LIMIT = 1
  MaxConns = 3
  MaxRequests = 2
  MaxDisturbances = 0
SPECIFICATION FairSpec
CHECK_DEADLOCK FALSE
INVARIANT TypeOK
INVARIANT AnswersReachAskerUndisturbed
INVARIANT ConnectionsAccounted
INVARIANT EntriesMatchConnections
INVARIANT FrontStays
PROPERTY AcceptGoesOn
