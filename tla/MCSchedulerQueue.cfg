SPECIFICATION FairSpec
CONSTANTS
    src = src
    n1 = n1
    q0 = q0
    w1 = w1
    w2 = w2
    app = app
    NoNode = NoNode
    NoQueue = NoQueue
    Nodes <- SourceAndConsumer
    Queues <- OneQueue
    WithExecutor <- OneQueue
    QueueOf <- AllOnDefault
    MaxInFlight <- OneInFlight
    Sources <- OneSource
    Layer <- Layers
    NodeId <- Ids
    Workers <- TwoWorkers
    Clients <- OneClient
    WorkerQueue <- PoolOfTwo
    MaxTasks = 2
INVARIANTS
    TypeOK
    MaxInFlightRespected
    IdleMeansQuiescent
    NoStrandedItem
    IndInv
PROPERTIES
    RunningQueueProgresses
