SPECIFICATION SSpec
CONSTANTS
  Callers = {"c1", "c2"}
  Inputs = {"x", "y"}
  Kinds = {"plain", "io"}
  ConnectAttempts = 2
  UnknownReplays = 1
  MaxSent = 3
  MaxCrashes = 1
INVARIANTS
  AppliedOnce
  ToldIsTrue
PROPERTIES
  DispositionStands
  CallEnds
CHECK_DEADLOCK FALSE
