SPECIFICATION DSpec
CONSTANTS
  Operations = {"o1"}
  Costs = {0, 2}
  Usages <- NothingCharged
  LateUnknown = TRUE
  MaxAttempts = 2
  MaxObs = 4
  MaxDisputes = 1
  MaxGen = 3
  MaxFaults = 1
INVARIANTS
  ReadsOnce
  PhaseBounds
PROPERTIES
  ImplementsOneShot
  EntriesConclude
