\* Three workers, so that two may search and a notifier has a choice; one task.
CONSTANTS
  Main = Main
  Nobody = Nobody
  Capacity = 2
  Workers = {w1, w2, w3}
  Fuel = 1
SYMMETRY Symmetry
SPECIFICATION Spec
INVARIANTS SleeperToWake ChosenIsWoken
