CONSTANTS
    r1 = r1
    r2 = r2
    x1 = x1
    x2 = x2
    x3 = x3
    w1 = w1
    w2 = w2
    NoRequest = NoRequest
    NoTimer = NoTimer
    Listener = Listener
    Requests <- TwoRequests
    Timers <- ThreeTimers
    Workers <- TwoWorkers
    TIMER_TIME_OUT = 2
    QUEUE_SIZE = 1
    MAXEVENTS = 2
    MaxBacklog = 2
    Faults <- NoFaults
    Prompt = FALSE
SPECIFICATION Spec
INVARIANT NoDoubleFree
CHECK_DEADLOCK FALSE
