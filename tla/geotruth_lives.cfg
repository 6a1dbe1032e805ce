\* One object: a process that ends twice over two areas, and one that ends once over two regions.
CONSTANTS
  Objects = {o1}
  Areas = {a1, a2}
  Regions = {r1, r2}
  Points = {p1, p3, p4}
  None = None
  p1 = p1
  p2 = p2
  p3 = p3
  p4 = p4
  a1 = a1
  a2 = a2
  r1 = r1
  r2 = r2
  Elsewhere = Elsewhere
  Cover <- PointCover
  Resolve <- Hysteresis
  MaxInFlight = 1
  MaxFaults = 1
  MaxAreaOps = 0
  MaxOps = 3
  MaxCrashes = 2
  MaxAreaWrites = 0
  Scenes = {"crash", "live"}
SPECIFICATION ScenesFairSpec
\* Behaviours end when no command, crash or area write is left.
CHECK_DEADLOCK FALSE
INVARIANTS
  
  GeofenceAlternates
  AckedIsDurable
  ProjectionsBeforeNextCommit
  EventsFollowGeometry
  IdleIsProjected
PROPERTIES
  ImplementsHistory
  EveryCommandAnswered
  CommitIsProjected
