CONSTANTS
  NumThreads = 2
  Main = main
  Foreign = {x}
  CrossCalls = {"scope"}
  MaxCalls = 2
  MaxSpawns = 1
  MaxPanics = 0
  MaxEvents = 3
  None = None
SPECIFICATION Spec
INVARIANT NotifiedRegistryAlive
