CONSTANTS
  Readers = {}
  Calls = {"crash"}
  QuietRollback = TRUE
  MaxWriters = 2
  MaxSegments = 1
  MaxOpstamp = 1
  None = None
SPECIFICATION Spec
INVARIANTS ResumeNotBlocked
\* The bounds stop it.
CHECK_DEADLOCK FALSE
