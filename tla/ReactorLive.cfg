CONSTANTS
    r1 = r1
    r2 = r2
    x1 = x1
    x2 = x2
    x3 = x3
    w1 = w1
    w2 = w2
    NoRequest = NoRequest
    NoTimer = NoTimer
    Listener = Listener
    Requests <- TwoRequests
    Timers <- ThreeTimers
    Workers <- OneWorker
    TIMER_TIME_OUT = 1
    QUEUE_SIZE = 1
    MAXEVENTS = 1
    MaxBacklog = 2
    Faults <- NoFaults
    Prompt = TRUE
SPECIFICATION FairSpec
PROPERTY EventReachesWorker
PROPERTY ReclaimedUnderTraffic
CHECK_DEADLOCK FALSE
