SPECIFICATION JSpec
CONSTANTS
  Ids = {"a", "b"}
  Finished = 2
  MaxInodes = 3
  MaxFaults = 1
INVARIANT
  PutIsDurable
