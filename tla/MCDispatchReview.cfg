SPECIFICATION DSpec
CONSTANTS
  Operations = {"o1"}
  Costs = {0}
  Usages <- NothingCharged
  LateUnknown = TRUE
  MaxAttempts = 2
  MaxObs = 4
  MaxDisputes = 1
  MaxGen = 1
  MaxFaults = 1
PROPERTY
  ReviewedIsTried
