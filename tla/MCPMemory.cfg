SPECIFICATION Spec
CONSTANTS
  Cpus = {c1, c2}
  NumPages = 5
  UsablePages = {3, 4}
  BitmapBase = 2
  PageBits = 8
  MaxCount = 3
  MaxLive = 2
  RamModulus = 1
INVARIANTS TypeOK NoDoubleAllocation
PROPERTIES LockReleased Refinement OnePageComplete
