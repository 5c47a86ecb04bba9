SPECIFICATION Spec
CONSTANTS
    src = src
    mid = mid
    snk = snk
    q0 = q0
    q1 = q1
    w1 = w1
    w2 = w2
    app = app
    inp = inp
    e1 = e1
    e2 = e2
    e3 = e3
    NoNode = NoNode
    NoQueue = NoQueue
    Nodes <- ChainNodes
    AllNodes <- Chain
    Queues <- TwoQueuesSet
    AllQueues <- TwoQueues
    WithExecutor <- TwoQueuesSet
    QueueOf <- SourceElsewhere
    MaxInFlight <- OneInFlight
    Sources <- SrcOnly
    Layer <- Layers
    NodeId <- Ids
    Workers <- TwoWorkers
    WorkerQueue <- PoolEach
    Apps <- OneApp
    Scripts <- JustRun
    GraphInputs <- None
    Edges <- ChainEdges
    Consumer <- ChainConsumer
    InputPorts <- ChainPorts
    Mirrors <- ChainMirrors
    Supply <- Supply1
    Flushers <- None
    MayStop <- None
    MayFail <- None
    HasErrorCb = FALSE
INVARIANTS
    TerminatedMeansFinalized
CHECK_DEADLOCK FALSE
