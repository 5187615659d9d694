CONSTANTS
    p1 = p1
    p2 = p2
    w1 = w1
    w2 = w2
    w3 = w3
    t1 = t1
    t2 = t2
    NoTask = NoTask
    NoThread = NoThread
    MAX_THREADS = 4
    MAX_QUEUE = 2
    thread_num = 2
    queue_capacity = 3
    MaxWaiting = 4
    Producers <- OneProducer
    Workers <- TwoWorkers
    Tasks <- TwoTasks
    Spurious <- NoSpurious
    CreateMayFail = FALSE
    MayDestroy = TRUE
    ConcurrentDestroy = FALSE
SPECIFICATION FairSpec
PROPERTY FifoQueueLive
PROPERTY AddReturns
CHECK_DEADLOCK FALSE
