CONSTANTS
  Clients = {c1}
  Workers = {w1}
  Merges = {m1}
  Terms = {t1}
  Groups <- Pairs
  Calls = {"add_document", "delete_term"}
  OwnerCalls = {"commit", "rollback", "merge"}
  MaxOps = 2
  MaxCommits = 2
  MaxSegments = 3
  PIPELINE_MAX_SIZE_IN_DOCS = 1
  None = None
SPECIFICATION Spec
INVARIANTS DeletesOnlyEarlier
CHECK_DEADLOCK FALSE
