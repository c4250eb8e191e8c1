CONSTANTS
  Clients = {c1, c2}
  Workers = {w1}
  Merges = {}
  Terms = {t1, t2}
  Groups <- Updates
  Calls = {"run", "delete_term"}
  OwnerCalls = {"commit"}
  MaxOps = 3
  MaxCommits = 1
  MaxSegments = 3
  PIPELINE_MAX_SIZE_IN_DOCS = 1
  None = None
SPECIFICATION Spec
INVARIANTS DeletesOnlyEarlier
CHECK_DEADLOCK FALSE
