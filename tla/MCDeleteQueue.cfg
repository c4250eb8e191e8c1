CONSTANTS
  Cursors = {c1, c2, c3}
  Nowhere = Nowhere
  MaxOps = 2
  MaxLists = 2
SPECIFICATION Spec
INVARIANTS TypeOK OneOpenBlock
PROPERTY ImplementsDeleteLog
CHECK_DEADLOCK FALSE
