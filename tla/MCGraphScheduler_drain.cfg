SPECIFICATION Spec
CONSTANTS
    src = src
    mid = mid
    snk = snk
    q0 = q0
    q1 = q1
    w1 = w1
    w2 = w2
    app = app
    inp = inp
    e1 = e1
    e2 = e2
    e3 = e3
    NoNode = NoNode
    NoQueue = NoQueue
    Nodes <- ChainNodes
    AllNodes <- Chain
    Queues <- OneQueueSet
    AllQueues <- OneQueue
    WithExecutor <- OneQueueSet
    QueueOf <- AllOnDefault
    MaxInFlight <- OneInFlight
    Sources <- SrcOnly
    Layer <- Layers
    NodeId <- Ids
    Workers <- TwoWorkers
    WorkerQueue <- PoolOnDefault
    Apps <- OneApp
    Scripts <- JustRun
    GraphInputs <- None
    Edges <- DiamondEdges
    Consumer <- DiamondConsumer
    InputPorts <- DiamondPorts
    Mirrors <- DiamondMirrors
    Supply <- Supply1
    Flushers <- MidOnly
    MayStop <- None
    MayFail <- None
    HasErrorCb = FALSE
INVARIANTS
    TypeOK
    DoneFollowsInputs
    NoOutputDropped
    IdleMeansDrained
    EveryPacketConsumed
SYMMETRY PoolSymmetry
CHECK_DEADLOCK FALSE
