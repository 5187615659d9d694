CONSTANTS
    w1 = w1
    w2 = w2
    Lines <- RequestLines
    Workers <- TwoWorkers
    Requests <- AllRequests
    Decimal <- Digit
    Payload <- ThreeB
    MaxRequests = 3
    AnyCut = FALSE
    FirstErrno = "0"
    MAX_BUFF = 18
    MAX_READ_TIMES = 2
    Faults <- AllFaults
SPECIFICATION FairSpec
INVARIANT TypeOK
INVARIANT AnsweredAsSent
PROPERTY RefusesOnlyBad
PROPERTY NoneLeftWaiting
PROPERTY GoneClientDroppedInTheEnd
