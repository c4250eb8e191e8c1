CONSTANTS
  Readers = {}
  Calls = {"power_loss"}
  QuietRollback = TRUE
  MaxWriters = 2
  MaxSegments = 1
  MaxOpstamp = 1
  None = None
SPECIFICATION Spec
PROPERTIES CommitSurvives
\* The bounds stop it.
CHECK_DEADLOCK FALSE
