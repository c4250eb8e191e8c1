CONSTANTS
  Clients = {c1}
  Workers = {w1}
  Merges = {m1}
  Terms = {t1, t2}
  Groups <- Steps
  Calls = {"run"}
  OwnerCalls = {"commit", "rollback", "merge"}
  MaxOps = 5
  MaxCommits = 2
  MaxSegments = 3
  PIPELINE_MAX_SIZE_IN_DOCS = 1
  None = None
SPECIFICATION Spec
INVARIANTS NoDeleteSkipped
CHECK_DEADLOCK FALSE
