\* The parts of the service around the dispatcher, one at a time.
CONSTANTS
  None = None
  ScanObjects = {o1, o2}
  Areas = {a1}
  CommitTypes = {position, removed}
  Batch = 2
  MaxCommits = 3
  MaxRecoveryFaults = 0
  MaxRepairFaults = 1
  MaxLostAcks = 1
  MaxScanCrashes = 2
  Procs = {p1, p2}
  Other = Other
  MaxOthers = 2
  MaxFaults = 2
  Objects = {o1, o2, o3}
  Workers = {w1}
  Pool = {g1}
  InboxCap <- OneSlot
  ResultCap = 1
  CommitCap = 1
  CommitResultCap = 1
  MaxInFlight = 1
  MaxCommands = 4
  Conns = {c1, c2}
  Outlives = FALSE
  MaxPathCommands = 3
  MaxTimeouts = 2
  MaxLost = 1
  MaxCrashes = 1
  Writers = {w1, w2}
  Refreshes = {r1, r2}
  MaxBytes = 2
  WarnBytes = 1
  CriticalBytes = 2
  MinBytesDelta = 2
  MaxFreed = 1
  MaxCallFaults = 2
  Publishers = 3
SPECIFICATION ServiceSpec
\* Every part but the monitor comes to an end.
CHECK_DEADLOCK FALSE
INVARIANTS
  RecoveredIsLatest
  ProjectionsAreRepaired
  NothingRepairedTwice
  EpochsAreUnique
  NeverStuck
  AckedIsStored
  NoConnectionLeft
PROPERTIES
  RefusedIsAdvised
