SPECIFICATION Spec
CONSTANTS
    t1 = t1  t2 = t2  x1 = x1  x2 = x2
    Threads <- TwoThreads
    Tables <- TwoTables
    NULL = NULL
    Known <- WithHole
    Args <- HoleArgs
    MaxNode = 3
    MaxFile = 3
    StoreReorder = FALSE
    HotAdd = FALSE
    HotRemove = FALSE
    MaxCalls = 2
SYMMETRY SymmetryTwo
INVARIANTS TypeOK TableSafety TableStays LeakBound AnswersRight
PROPERTIES TableStable
CHECK_DEADLOCK FALSE
