SPECIFICATION Spec
CONSTANTS
    src = src
    mid = mid
    snk = snk
    q0 = q0
    q1 = q1
    w1 = w1
    w2 = w2
    app = app
    inp = inp
    e1 = e1
    e2 = e2
    e3 = e3
    NoNode = NoNode
    NoQueue = NoQueue
    Nodes <- FedNodes
    AllNodes <- Fed
    Queues <- OneQueueSet
    AllQueues <- OneQueue
    WithExecutor <- OneQueueSet
    QueueOf <- AllOnDefault
    MaxInFlight <- OneInFlight
    Sources <- None
    Layer <- Layers
    NodeId <- Ids
    Workers <- TwoWorkers
    WorkerQueue <- PoolOnDefault
    Apps <- OneApp
    Scripts <- FeedAndClose
    GraphInputs <- InpOnly
    Edges <- ChainEdges
    Consumer <- ChainConsumer
    InputPorts <- FedPorts
    Mirrors <- FedMirrors
    Supply <- Supply1
    Flushers <- MidOnly
    MayStop <- None
    MayFail <- None
    HasErrorCb = FALSE
INVARIANTS
    TerminatedMeansFinalized
PROPERTIES
    DoneIsFinal
SYMMETRY PoolSymmetry
CHECK_DEADLOCK FALSE
