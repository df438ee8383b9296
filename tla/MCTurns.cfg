SPECIFICATION TSpec
CONSTANTS
  MaxMessages = 2
  StepLimit = 2
  MaxTurns = 1
  MaxOps = 3
  MaxGen = 2
  MaxFaults = 2
CHECK_DEADLOCK FALSE
INVARIANT
  AnswerIsFinal
PROPERTIES
  NoSecondDispatch
  AnswersArrive
