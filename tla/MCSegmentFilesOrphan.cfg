CONSTANTS
  Readers = {}
  Calls = {"rollback"}
  QuietRollback = FALSE
  MaxWriters = 2
  MaxSegments = 1
  MaxOpstamp = 1
  None = None
SPECIFICATION Spec
INVARIANTS NoOrphan
\* The bounds stop it.
CHECK_DEADLOCK FALSE
