SPECIFICATION Spec
CONSTANTS
  t1 = t1
  t2 = t2
  r1 = r1
  Threads = {t1, t2}
  NNodes = 1
  CpuNodes = {0}
  Supports <- NewKernel
  Regions = {}
  CpusetMoves = FALSE
  ReadsFail = FALSE
  Calls = {"has"}
  Flags = {}
  MaxOps = 1
INVARIANTS HasManyTruthful
CHECK_DEADLOCK FALSE
