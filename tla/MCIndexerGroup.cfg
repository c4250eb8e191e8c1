CONSTANTS
  Clients = {c1, c2}
  Workers = {w1}
  Merges = {}
  Terms = {t1}
  Groups <- Replacements
  Calls = {"run", "add_document"}
  OwnerCalls = {"commit"}
  MaxOps = 3
  MaxCommits = 1
  MaxSegments = 3
  PIPELINE_MAX_SIZE_IN_DOCS = 1
  None = None
SPECIFICATION Spec
INVARIANTS DeletesReachEarlier
CHECK_DEADLOCK FALSE
