CONSTANTS
  dispatcher = dispatcher
  helper = helper
  collector = collector
  application = application
  NoPackage = NoPackage
  Signalers <- FourUsers
  Waiters <- FourUsers
  MaxCount = 4
  NumPackages = 3
SPECIFICATION PoolSpec
SYMMETRY AnyUser
CHECK_DEADLOCK FALSE
INVARIANT PoolTypeOK
INVARIANT PackagesAccounted
INVARIANT GetFindsPackage
INVARIANT AsleepMeansEmpty
