CONSTANTS
  Requests <- SomeRequests
  Remains <- SomeRemains
  Radix = 2
  MaxConns = 2
  MaxInbox = 2
SPECIFICATION Spec
CHECK_DEADLOCK FALSE
INVARIANT TypeOK
 
INVARIANT BufferFreedOnce
 
INVARIANT ClosesAfterReply
