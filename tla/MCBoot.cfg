SPECIFICATION Spec
CONSTANTS
  N = 3
INVARIANT CpusConfigured
PROPERTY BootCompletes
CHECK_DEADLOCK FALSE
CONSTANT LapicIds <- Orders
