\* An object that crosses two regions and comes back, an area that comes and goes, a query.
CONSTANTS
  Objects = {o1}
  Areas = {a1}
  Regions = {r1, r2}
  Points = {p1, p2}
  None = None
  p1 = p1
  p2 = p2
  a1 = a1
  r1 = r1
  r2 = r2
  Cover <- CoverAll
  Resolve <- EachItsRegion
  Order <- TwoRegions
  Queries = {q1}
  MaxAreaOps = 3
  MaxLives = 2
  Kinds = {"object", "regionOf", "region", "area", "all"}
SPECIFICATION ScenesSpec
\* Behaviours may end when the registrations are used up.
CHECK_DEADLOCK FALSE
INVARIANTS
  NoCyclicWait
  OnlyTheFlagRaces
  AnswersWereTrue
PROPERTIES
  TasksAreAtomic
