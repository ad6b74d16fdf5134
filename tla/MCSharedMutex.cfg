CONSTANTS
  Writers = {w1, w2}
  Readers = {r1, r2}
SPECIFICATION SharedSpec
INVARIANT UnlocksLockedMutex
CHECK_DEADLOCK FALSE
