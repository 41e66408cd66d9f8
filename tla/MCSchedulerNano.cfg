SPECIFICATION Spec
CONSTANTS
  Cpus = {c1}
  Bsp = c1
  Threads = {t1, t2, t3}
  Procs = {p1, p2}
  Ops = {}
  MaxTable = 2
  MaxVec = 2
PROPERTY ReadyThreadsRun
