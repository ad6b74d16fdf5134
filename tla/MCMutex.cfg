\* Four coroutines that lock and unlock for ever.
CONSTANTS
  Coroutines = {p1, p2, p3, p4}
  Nobody = Nobody
  Unlocked = Unlocked
  Locked = Locked
SPECIFICATION FairSpec
INVARIANTS TypeOK MutualExclusion HandOverFindsWaiter WaitersListed SomebodyInCharge
PROPERTIES ImplementsFifoLock WaiterIsServed
