SPECIFICATION XSpec
CONSTANTS
  Modes = {"independent"}
  Window = 1
  Deadline = 2
  StepLimit = 2
  MaxRuns = 1
  MaxAttempts = 1
  MaxGen = 2
INVARIANT RunningMeansLive
CHECK_DEADLOCK FALSE
