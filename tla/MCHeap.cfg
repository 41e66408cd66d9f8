SPECIFICATION Spec
CONSTANTS
  Cpus = {c1, c2}
  NumPages = 3
  PageUnits = 4
  BlockSizes = {1, 2, 4, 8, 16}
  InitPages = 1
  Sizes = {1, 3}
  Totals = {2}
  MaxLive = 2
SYMMETRY CpuSymmetry
INVARIANTS Tiled WalkReadsHeaders LivePointersSafe
CHECK_DEADLOCK FALSE
