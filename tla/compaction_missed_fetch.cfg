\* One object, a service that ends twice, plans that grow old and stop half way.
CONSTANTS
  Objects = {o1}
  Areas = {a1}
  Regions = {r1}
  Points = {p1, p2}
  None = None
  p1 = p1
  p2 = p2
  a1 = a1
  r1 = r1
  Cover <- PointCover
  Resolve <- OneRegion
  QuietBoot = TRUE
  MaxLog = 8
  MaxStops = 2
  MaxPlans = 2
  MaxMisses = 1
SPECIFICATION Spec
\* Behaviours end when the log is full and nothing is left to delete.
CHECK_DEADLOCK FALSE
INVARIANTS
  RecoveryUnaffected
