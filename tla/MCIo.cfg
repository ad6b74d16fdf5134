CONSTANTS
  Entries = {e1, e2}
  Mult = 2
  Levels = 3
  MaxTime = 7
  Coroutines = {c1, c2}
  SqEntries = 3
  Interval = 3
  Size = 2
  MaxBytes = 5
  MaxAsk = 3
  Flags = {2, 3}
  Tasks = {m, t1, t2}
  MainTask = m
  IoInterval = 3
  GlobalInterval = 2
  Objects = {o1, o2, o3}
  Numbers = {3, 4}
  None = None
  Threads = {w1, w2}
  Handles = {h1, h2}
  MaxWritten = 2
  MaxAtOnce = 2
  SeekTo = {0}
  Depth = 2
SPECIFICATION Spec
INVARIANTS ExpiresOnTime WakesInTime  ReadInOrder WrittenInOrder OneOwner
  ReadsAndWritesWhole
PROPERTIES  ScheduledTaskRuns
CHECK_DEADLOCK FALSE
