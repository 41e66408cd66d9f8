SPECIFICATION Spec
CONSTANTS
  Cpus = {c1, c2}
  Bsp = c1
  Threads = {t1, t2, t3, t4, t5}
  Procs = {p1, p2, p3}
  Ops = {"createThread", "createProc"}
  MaxTable = 2
  MaxVec = 5
SYMMETRY Slots
INVARIANTS SingleRunner RunningIsCurrent RunsWhereCreated
CHECK_DEADLOCK FALSE
