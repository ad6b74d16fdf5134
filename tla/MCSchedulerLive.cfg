\* Liveness: no symmetry, and fewer tasks.
CONSTANTS
  Main = Main
  Nobody = Nobody
  Capacity = 2
  Workers = {w1, w2}
  Fuel = 2
SPECIFICATION FairSpec
PROPERTIES QueuedTasksRun ClosedRuntimeStops
