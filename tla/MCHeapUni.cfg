SPECIFICATION Spec
CONSTANTS
  Cpus = {c1}
  NumPages = 7
  PageUnits = 4
  BlockSizes = {1, 2, 4, 8, 16, 32}
  InitPages = 1
  Sizes = {1, 3}
  Totals = {}
  MaxLive = 2
PROPERTIES RetryFinds CallsReturnWhileMemoryLasts
CHECK_DEADLOCK FALSE
