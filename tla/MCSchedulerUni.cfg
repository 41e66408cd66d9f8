SPECIFICATION Spec
CONSTANTS
  Cpus = {c1}
  Bsp = c1
  Threads = {t1, t2, t3, t4}
  Procs = {p1, p2}
  Ops = {"createThread", "createProc", "blockSelf", "blockThread", "blockOwnProc", "blockProc", "unblock", "exitThread", "exitProc"}
  MaxTable = 2
  MaxVec = 3
SYMMETRY Slots
PROPERTIES ExitedStaysDead FreedHasExited
CHECK_DEADLOCK FALSE
