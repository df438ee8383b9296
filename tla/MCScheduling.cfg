SPECIFICATION Spec
CONSTANTS
  Schedules = {s1}
  Responsibilities = {r1}
  Expressions = {{1, 2, 3, 4}, {1, 4}}
  CatchUp = 1
  MinInterval = 1
  CycleBudget = 2
  Horizon = 2
  MaxInstants = 2
  MaxScan = 2
  Batch = 2
  MaxTime = 4
  MaxChanges = 3
  MaxDrafts = 1
  MaxFaults = 1
INVARIANTS
  InstantsOnce
  NextWakeTrue
PROPERTIES
  PauseStands
  DueIsDecided
CHECK_DEADLOCK FALSE
