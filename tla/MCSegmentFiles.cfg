CONSTANTS
  Readers = {r1}
  Calls = {"merge", "merge_call", "gc", "first_delete", "rollback", "crash", "power_loss"}
  QuietRollback = TRUE
  MaxWriters = 2
  MaxSegments = 2
  MaxOpstamp = 1
  None = None
SPECIFICATION Spec
INVARIANTS TypeOK PublishedFilesDurable LivingFilesExist ReaderFindsFiles NoOrphan
\* The bounds stop it.
CHECK_DEADLOCK FALSE
