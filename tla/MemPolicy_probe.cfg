SPECIFICATION Spec
CONSTANTS
  t1 = t1
  t2 = t2
  r1 = r1
  Threads = {t1, t2}
  NNodes = 2
  CpuNodes = {0}
  Supports <- NewKernel
  Regions = {}
  CpusetMoves = TRUE
  ReadsFail = TRUE
  Calls = {"has", "membind", "localalloc"}
  Flags = {}
  MaxOps = 2
SYMMETRY MCSymmetry
INVARIANTS TypeOK ManySettled ProbeRestores
CONSTRAINT ThreeCalls
CHECK_DEADLOCK FALSE
