CONSTANTS
  p1 = p1
  p2 = p2
  p3 = p3
  p4 = p4
  NoPackage = NoPackage
  Packages <- ThreePackages
  MaxRequests = 2
  MaxWrites = 3
SPECIFICATION FairSpec
CHECK_DEADLOCK FALSE
INVARIANT TypeOK
INVARIANT ClosedOnce
INVARIANT PackageAccounted
PROPERTY SentInOrder
PROPERTY DepartureNoticed
PROPERTY CloseHonouredUnlessTaken
