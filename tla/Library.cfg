SPECIFICATION Spec
CONSTANTS
    IntBits = 4
    Machines <- MCMachines
    MaxFaults = 1
    FirstTry = 2
    LastTry = 16
    GuessedCpus = 8
    ClassDir <- MCClassDir
    DevNumber <- MCDevNumber
    PciOf <- MCPciOf
    NodeFile <- MCNodeFile
    FileDev <- MCFileDev
    Replies <- MCReplies
    IfName <- MCIfName
    NUMA_NUM_NODES = 32
    Strings <- MCStrings
    NodeSets = {{}, {0}, {0, 1}, {2}, {1, 3}}
    MaxCalls = 2
INVARIANTS TypeOK MeasuredRight ListsRight NodeOfCpuRight OwnMemory
PROPERTIES RunConfined MapsUsedRight BindTogether
CHECK_DEADLOCK FALSE
