CONSTANTS
  Readers = {r1}
  Calls = {"gc", "rollback", "crash", "power_loss"}
  QuietRollback = TRUE
  MaxWriters = 3
  MaxSegments = 1
  MaxOpstamp = 2
  None = None
SPECIFICATION Spec
PROPERTIES EarlierCommitsSurvive
\* The bounds stop it.
CHECK_DEADLOCK FALSE
