CONSTANTS
  Clients = {c1}
  Workers = {w1}
  Merges = {m1}
  Terms = {t1}
  Groups <- Pairs
  Calls = {"add_document", "delete_all_documents"}
  OwnerCalls = {"commit", "commit_future"}
  MaxOps = 3
  MaxCommits = 2
  MaxSegments = 2
  PIPELINE_MAX_SIZE_IN_DOCS = 1
  None = None
SPECIFICATION FairSpec
INVARIANTS NoDocumentTwice
PROPERTIES CommitReturns MergeEnds
CHECK_DEADLOCK FALSE
