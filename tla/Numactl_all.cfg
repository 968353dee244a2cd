SPECIFICATION Spec
CONSTANTS
    NNodes = 2
    NPossible = 3
    Allowed = {0, 1}
    PageSize = 2
    SizeMax = 15
    MaxObject = 6
    Cpus = {0, 1}
    CpusAllowed = {0, 1}
    Features <- AllFeatures
    Before <- SomeObjects
    Sizes = {1, 2, 4, 14}
    MaxOpts = 5
INVARIANTS TypeOK ExecAsAsked SegmentAsAsked RegionBacked ReportsTrue
PROPERTIES SettlesOnce
CHECK_DEADLOCK FALSE
