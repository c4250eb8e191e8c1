CONSTANTS
  Clients = {c1}
  Workers = {w1}
  Merges = {}
  Terms = {t1}
  Groups <- Pairs
  Calls = {"add_document", "delete_term", "delete_all_documents"}
  OwnerCalls = {"commit"}
  MaxOps = 4
  MaxCommits = 1
  MaxSegments = 3
  PIPELINE_MAX_SIZE_IN_DOCS = 1
  None = None
SPECIFICATION Spec
INVARIANTS DeletesOnlyEarlier
CHECK_DEADLOCK FALSE
