\* Two workers and enough tasks to overflow, share and fetch them back.
CONSTANTS
  w1 = w1
  w2 = w2
  w3 = w3
  t1 = t1
  t2 = t2
  t3 = t3
  t4 = t4
  t5 = t5
  t6 = t6
  NoTask = NoTask
  Capacity = 4
  Modulus = 16
  Start = 14
  Workers = {w1, w2}
  Tasks = {t1, t2, t3, t4, t5, t6}
  Spawned <- SixTasks
SPECIFICATION FairSpec
INVARIANTS BatchFits
PROPERTIES ScheduledTasksRun
\* Every worker asks again when it finds nothing, which changes no state.
CHECK_DEADLOCK FALSE
