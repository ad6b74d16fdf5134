CONSTANTS
  Coroutines = {c1, c2}
  SqEntries = 4
  Interval = 2
SPECIFICATION DriverSpec
INVARIANT WakerFindsSqe
CHECK_DEADLOCK FALSE
