SPECIFICATION Spec
CONSTANTS
    AllNodes <- MCAllNodes
    Sources <- MCSources
    Consumers <- MCConsumers
    MayFail <- MCMayFail
    MayStop <- MCMayStop
    Elapsed <- MCElapsed
    StartTime = 5
    MaxCommands = 2
    MaxFiles = 2
    IntervalSize = 3
    NumIntervals = 3
    INT_MAX = 3
    PrintLimit = 4
    INT64_MAX = 1000
INVARIANTS
    TypeOK
    ProfileIsComplete
    ProfileIsTruthful
    ClosedOnceAtTheEnd
    ReportMatchesFiles
PROPERTIES
    ScheduleReturns
    ReaderEnds
CHECK_DEADLOCK FALSE
