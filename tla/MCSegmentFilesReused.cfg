CONSTANTS
  Readers = {}
  Calls = {"merge_call", "gc", "first_delete", "crash"}
  QuietRollback = TRUE
  MaxWriters = 3
  MaxSegments = 1
  MaxOpstamp = 1
  None = None
SPECIFICATION Spec
INVARIANTS LivingFilesExist
\* The bounds stop it.
CHECK_DEADLOCK FALSE
