CONSTANTS
  N = 2
  Posters = {p1}
  Owner = p1
  MaxDepth = 1
  MaxPosts = 1
  ROUNDS_UNTIL_SLEEPY = 0
  JEC_RANGE = 2
  NoJob = NoJob
SPECIFICATION FairSpec
INVARIANTS TypeOK LatchWakeNotLost JobsConserved
PROPERTIES SetLatchStaysSet PostsComplete ForksJoin PoolStops
\* A stop before the end violates the properties themselves.
CHECK_DEADLOCK FALSE
