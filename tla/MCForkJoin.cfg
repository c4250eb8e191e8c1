CONSTANTS
  NumThreads = 2
  Main = main
  Foreign = {x}
  CrossCalls = {"install"}
  MaxCalls = 2
  MaxSpawns = 3
  MaxPanics = 2
  MaxEvents = 4
  None = None
SPECIFICATION Spec
INVARIANTS TypeOK FramesOutliveJobs NotifiedRegistryAlive PanicsReported StopsWhenIdle NobodyStuck
