\* An area that is registered for one region and then for another.
CONSTANTS
  Objects = {o1}
  Areas = {a1}
  Regions = {r1, r2}
  Points = {p1, p2, p3}
  None = None
  p1 = p1
  p2 = p2
  p3 = p3
  p4 = p4
  a1 = a1
  a2 = a2
  r1 = r1
  r2 = r2
  Elsewhere = Elsewhere
  Cover <- PointCover
  Resolve <- Hysteresis
  MaxInFlight = 1
  MaxFaults = 0
  MaxAreaOps = 2
  MaxOps = 1
  MaxCrashes = 0
  MaxAreaWrites = 2
  Scenes = {"moves"}
SPECIFICATION ScenesSpec
\* Behaviours end when no command, crash or area write is left.
CHECK_DEADLOCK FALSE
INVARIANTS
  OneRegionEach
