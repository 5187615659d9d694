CONSTANTS
    w1 = w1
    w2 = w2
    Lines <- RequestLines
    Workers <- TwoWorkers
    Requests <- GoodRequests
    Decimal <- Digit
    Payload <- ThreeB
    MaxRequests = 2
    AnyCut = FALSE
    FirstErrno = "0"
    MAX_BUFF = 18
    MAX_READ_TIMES = 2
    Faults <- NoFaults
SPECIFICATION FairSpec
PROPERTY GoneClientDropped
