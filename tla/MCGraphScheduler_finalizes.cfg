SPECIFICATION FairSpec
CONSTANTS
    src = src
    mid = mid
    snk = snk
    q0 = q0
    q1 = q1
    w1 = w1
    w2 = w2
    app = app
    inp = inp
    e1 = e1
    e2 = e2
    e3 = e3
    NoNode = NoNode
    NoQueue = NoQueue
    Nodes <- PairNodes
    AllNodes <- Pair
    Queues <- OneQueueSet
    AllQueues <- OneQueue
    WithExecutor <- OneQueueSet
    QueueOf <- AllOnDefault
    MaxInFlight <- OneInFlight
    Sources <- SrcOnly
    Layer <- Layers
    NodeId <- Ids
    Workers <- TwoWorkers
    WorkerQueue <- PoolOnDefault
    Apps <- OneApp
    Scripts <- PauseResume
    GraphInputs <- None
    Edges <- PairEdges
    Consumer <- PairConsumer
    InputPorts <- PairPorts
    Mirrors <- PairMirrors
    Supply <- Supply1
    Flushers <- None
    MayStop <- None
    MayFail <- None
    HasErrorCb = FALSE
PROPERTIES
    EventuallyFinalized
CHECK_DEADLOCK FALSE
