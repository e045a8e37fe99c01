SPECIFICATION Spec
CONSTANTS
  Ceilings = {1, 2}
  MaxLimit = 2
INVARIANTS
  NothingLeaks
  ConfinedBeforeRunning
  CeilingsHold
