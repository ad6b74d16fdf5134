\* Two workers and tasks enough to overflow a ring.
CONSTANTS
  Main = Main
  Nobody = Nobody
  Capacity = 2
  Workers = {w1, w2}
  Fuel = 5
SYMMETRY Symmetry
SPECIFICATION Spec
INVARIANTS TypeOK IdleCounts NoLostWakeup WakesLiveWorkers
