CONSTANTS
  Clients = {c1, c2}
  Workers = {w1, w2}
  Merges = {}
  Terms = {t1}
  Groups <- Updates
  Calls = {"add_document", "delete_term", "run"}
  OwnerCalls = {"commit", "commit_future", "rollback"}
  MaxOps = 3
  MaxCommits = 3
  MaxSegments = 3
  PIPELINE_MAX_SIZE_IN_DOCS = 1
  None = None
SPECIFICATION Spec
INVARIANTS PublishedExact NoDeleteSkipped
SYMMETRY Symmetric
CHECK_DEADLOCK FALSE
