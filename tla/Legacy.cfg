CONSTANTS
    c1 = c1
    c2 = c2
    w1 = w1
    w2 = w2
    w3 = w3
    t1 = t1
    t2 = t2
    NoTask = NoTask
    NoThread = NoThread
    queue_size = 2
    Workers <- ThreeWorkers
    Clients <- TwoClients
    Creator = c1
    Destroyers <- TwoClients
    Modes <- BothModes
    Tasks <- TwoTasks
SPECIFICATION FairSpec
INVARIANT TypeOK
INVARIANT GracefulDrains
INVARIANT FreeNeverRefuses
PROPERTY FifoQueue
PROPERTY EveryTaskRuns
PROPERTY DestroyReturns
CHECK_DEADLOCK FALSE
