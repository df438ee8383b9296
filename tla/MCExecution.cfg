SPECIFICATION XSpec
CONSTANTS
  Modes = {"independent", "manual"}
  Window = 1
  Deadline = 2
  StepLimit = 2
  MaxRuns = 2
  MaxAttempts = 2
  MaxGen = 2
INVARIANTS
  SuccessIsProven
  StepsShared
  ReadyIsQueued
  StaleAreFenced
PROPERTIES
  IntentStopsWork
  RunsAreLeased
  LapsedIsFenced
CHECK_DEADLOCK FALSE
