\* Two coroutines, one of which may call try_lock.
CONSTANTS
  Coroutines = {p1, p2}
  Nobody = Nobody
  Unlocked = Unlocked
  Locked = Locked
SPECIFICATION TrySpec
INVARIANTS UnlockedOnlyWhenHeld
CHECK_DEADLOCK FALSE
