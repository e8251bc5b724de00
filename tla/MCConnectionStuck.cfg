CONSTANTS
  p1 = p1
  p2 = p2
  p3 = p3
  p4 = p4
  NoPackage = NoPackage
  Packages <- FourPackages
  MaxRequests = 1
  MaxWrites = 2
SPECIFICATION FairSpec
CHECK_DEADLOCK FALSE
PROPERTY WriteFinishes
