SPECIFICATION Spec
CONSTANTS
  t1 = t1
  t2 = t2
  r1 = r1
  Threads = {t1}
  NNodes = 2
  CpuNodes = {0}
  Supports <- OldKernel
  Regions = {r1}
  CpusetMoves = TRUE
  ReadsFail = TRUE
  Calls <- AllCalls
  Flags = {"exit_on_error", "exit_on_warn", "fail_alloc"}
  MaxOps = 4
INVARIANTS LooseUsable AllocHasPolicy
PROPERTIES BindConfines ReadBack
CONSTRAINT LaterCallsOnCache
CHECK_DEADLOCK FALSE
