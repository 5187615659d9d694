CONSTANTS
    p1 = p1
    p2 = p2
    w1 = w1
    w2 = w2
    w3 = w3
    t1 = t1
    t2 = t2
    NoTask = NoTask
    NoThread = NoThread
    MAX_THREADS = 4
    MAX_QUEUE = 3
    thread_num = 0
    queue_capacity = 3
    MaxWaiting = 4
    Producers <- OneProducer
    Workers <- ThreeWorkers
    Tasks <- TwoTasks
    Spurious <- ThreeWorkers
    CreateMayFail = TRUE
    MayDestroy = TRUE
    ConcurrentDestroy = TRUE
SPECIFICATION Spec
INVARIANT TypeOK
INVARIANT SlotFree
INVARIANT EnoughAwake
PROPERTY FifoQueue
SYMMETRY Symmetry
CHECK_DEADLOCK FALSE
