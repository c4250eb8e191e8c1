CONSTANTS
  Clients = {c1}
  Workers = {w1}
  Merges = {m1}
  Terms = {t1, t2}
  Groups <- Pairs
  Calls = {"run", "delete_term"}
  OwnerCalls = {"commit", "merge"}
  MaxOps = 5
  MaxCommits = 2
  MaxSegments = 3
  PIPELINE_MAX_SIZE_IN_DOCS = 1
  None = None
SPECIFICATION Spec
INVARIANTS TypeOK PublishedExact NoDocumentTwice NoDeleteSkipped
PROPERTIES MergesInvisible
SYMMETRY Symmetric
CHECK_DEADLOCK FALSE
