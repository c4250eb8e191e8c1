CONSTANTS
  Readers = {}
  Calls = {"rollback"}
  QuietRollback = FALSE
  MaxWriters = 2
  MaxSegments = 2
  MaxOpstamp = 1
  None = None
SPECIFICATION Spec
PROPERTIES KilledIgnored
\* The bounds stop it.
CHECK_DEADLOCK FALSE
