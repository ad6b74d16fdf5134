CONSTANTS
  Entries = {e1, e2}
  Mult = 2
  Levels = 3
  MaxTime = 9
SPECIFICATION TimerSpec
INVARIANT WakesInTime
CHECK_DEADLOCK FALSE
