CONSTANTS
  N = 2
  Posters = {p1, p2}
  Owner = p1
  MaxDepth = 0
  MaxPosts = 1
  ROUNDS_UNTIL_SLEEPY = 1
  JEC_RANGE = 2
  NoJob = NoJob
SPECIFICATION Spec
INVARIANT InjectedHasTaker
INVARIANT BroadcastNotLost
INVARIANT NoWorkAfterDrop
INVARIANT CountersExact
INVARIANT InjectedNotStranded
