CONSTANTS
  Clients = {c1}
  Workers = {w1}
  Merges = {m1}
  Terms = {t1, t2}
  Groups <- Pairs
  Calls = {"add_document", "delete_term"}
  OwnerCalls = {"commit_future"}
  MaxOps = 3
  MaxCommits = 1
  MaxSegments = 5
  PIPELINE_MAX_SIZE_IN_DOCS = 1
  None = None
SPECIFICATION Spec
INVARIANTS NoDeleteSkipped
SYMMETRY Symmetric
CHECK_DEADLOCK FALSE
