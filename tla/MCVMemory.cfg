SPECIFICATION Spec
CONSTANTS
  c1 = c1
  c2 = c2
  CPUs = {c1, c2}
  m1 = m1
  m2 = m2
  Maps = {m1, m2}
  Depth = 2
  Index = {0, 1}
  TablePages = {11, 12, 13}
  DataPages = {101, 102}
  Flags <- DefaultFlags
  KernelTop = 10
  MaxCalls = 3
SYMMETRY Symmetry
CONSTRAINT Intact
PROPERTY MapTakesEffect
PROPERTY OnlyItsAddress
CHECK_DEADLOCK FALSE
