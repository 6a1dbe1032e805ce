\* A fetch of the first scan fails or breaks off.
CONSTANTS
  Objects = {o1}
  Areas = {a1}
  None = None
  CommitTypes = {position, removed}
  Batch = 1
  MaxCommits = 2
  MaxRecoveryFaults = 1
  MaxRepairFaults = 0
  MaxLostAcks = 0
  MaxCrashes = 1
SPECIFICATION BootSpec
\* Behaviours end when the process has ended for the last time.
CHECK_DEADLOCK FALSE
INVARIANTS
  RecoveredIsLatest
