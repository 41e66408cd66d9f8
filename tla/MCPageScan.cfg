SPECIFICATION Spec
CONSTANTS
  NumPages = 5
  MaxCount = 3
INVARIANT LoopIsOperator
PROPERTY Terminates
CHECK_DEADLOCK FALSE
