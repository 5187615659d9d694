CONSTANTS
    w1 = w1
    w2 = w2
    Lines <- RequestLines
    Workers <- TwoWorkers
    Requests <- SomeRequests
    Decimal <- Digit
    Payload <- ThreeB
    MaxRequests = 2
    AnyCut = FALSE
    FirstErrno = "0"
    MAX_BUFF = 18
    MAX_READ_TIMES = 2
    Faults <- AllFaults
    HeaderLen = 2
    BodyLens <- UpToTwo
    Room = 3
    MaxAnswers = 3
    Descriptors = {"first", "second"}
    MaxSent = 4
    BufSize = 2
    MaxLen = 3
    Drains = TRUE
    Ports = {80, 1024, 8888, 65535, 65536}
    PoolThreads = 4
    MaxClients = 2
SPECIFICATION MCSpec
INVARIANT AnswerTypeOK
INVARIANT AnsweredAsSent
INVARIANT WholeResponses
INVARIANT LinesAsSent
PROPERTY WorkerReturns
PROPERTY EarlyNoneLeftWaiting
PROPERTY WriterFinishes
PROPERTY EarlyClientAccepted
CHECK_DEADLOCK FALSE
