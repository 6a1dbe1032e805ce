\* An object that leaves a region and comes back.
CONSTANTS
  Objects = {o1}
  Areas = {a1}
  Regions = {r1, r2}
  Points = {p1, p2, p3}
  None = None
  p1 = p1
  p2 = p2
  p3 = p3
  a1 = a1
  r1 = r1
  r2 = r2
  Cover <- OneAreaCover
  Resolve <- Hysteresis
  MaxInFlight = 1
  MaxFaults = 0
  MaxAreaOps = 0
  MaxOps = 4
SPECIFICATION Spec
\* Behaviours end when the last command is answered.
CHECK_DEADLOCK FALSE
INVARIANTS
  EventsFollowGeometry
