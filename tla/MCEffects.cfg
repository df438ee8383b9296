SPECIFICATION ESpec
CONSTANTS
  Operations = {"o1"}
  Costs = {0, 2}
  Usages <- MCUsages
  LateUnknown = FALSE
  MaxAttempts = 3
  MaxObs = 4
  MaxDisputes = 1
  MaxGen = 2
INVARIANTS
  ETypeOK
  OneDispatch
  ReleasedNeverClaimed
  ConclusionsProven
  ObligationsMatchState
  ConcludedSettles
  PaidUncertaintyRetains
PROPERTY
  ConclusionsStand
CHECK_DEADLOCK FALSE
