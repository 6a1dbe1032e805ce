\* A server consumer that disappears, no failing calls.
CONSTANTS
  Subs = {s1, s2}
  s1 = s1
  s2 = s2
  s3 = s3
  SubjectOf <- SubPatterns
  Messages <- MessageSubjects
  MaxDispatch = 3
  MaxServers = 3
  MaxDrops = 1
  MaxFaults = 0
SPECIFICATION Spec
\* Behaviours end when the wrapper is closed.
CHECK_DEADLOCK FALSE
INVARIANTS
  OneDispatcher
