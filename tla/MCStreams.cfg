SPECIFICATION Spec
CONSTANTS
    p1 = p1
    p2 = p2
    p3 = p3
    c1 = c1
    c2 = c2
    e1 = e1
    e2 = e2
    e3 = e3
    NoPacket = NoPacket
    NoOffset = NoOffset
    INT64_MIN = 0
    INT64_MAX = 8
    Producers <- MCProducers
    GraphInputs <- MCGraphInputs
    Consumers <- MCConsumers
    Graphs <- MCGraphs
    MaxQueueSize <- MCMaxQueueSize
    MaxAllowance = 2
    Offset <- MCOffset
    Behaviours <- MCBehaviours
    MaxInvocations <- MCMaxInvocations
INVARIANTS
    TypeOK
    Lossless
    InputSetsSettled
    ClosedMeansExhausted
    FullIsRecorded
PROPERTIES
    BoundsNeverRecede
    NothingWaitsForEver
CHECK_DEADLOCK FALSE
