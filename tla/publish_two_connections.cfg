\* Two publisher connections, two publishes that are not acknowledged in time.
CONSTANTS
  Conns = {c1, c2}
  None = None
  Outlives = FALSE
  MaxCommands = 2
  MaxTimeouts = 2
  MaxLost = 0
  MaxCrashes = 0
SPECIFICATION PathSpec
\* Behaviours end when the last command is answered.
CHECK_DEADLOCK FALSE
INVARIANTS
  NewestIsLast
