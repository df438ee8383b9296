SPECIFICATION Spec
CONSTANTS
  Schedules = {s1}
  Responsibilities = {}
  Expressions = {{1, 2, 3, 4, 5, 6}}
  CatchUp = 1
  MinInterval = 1
  CycleBudget = 2
  Horizon = 4
  MaxInstants = 2
  MaxScan = 10
  Batch = 2
  MaxTime = 4
  MaxChanges = 3
  MaxDrafts = 1
  MaxFaults = 1
PROPERTIES
  CatchUpRuns
CHECK_DEADLOCK FALSE
