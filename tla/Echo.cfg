CONSTANTS
    c1 = c1
    c2 = c2
    Clients <- TwoClients
    NoClient = NoClient
    Text <- TextAB
    Upper <- UpperAB
    Room = 1
    BUFSIZE = 2
    Faults <- AllFaults
    TableSize = 1
    OPEN_MAX = 2
    Checks = 2
    Timeout = 1
SPECIFICATION FairSpec
INVARIANT EchoTypeOK
INVARIANT EchoExact
INVARIANT SlotsConsistent
PROPERTY ImplementsEcho
PROPERTY CatchesUp
PROPERTY EndsAfterClient
PROPERTY ZombiesReaped
CONSTRAINT FirstIsC1
CONSTRAINT OneFault
CHECK_DEADLOCK FALSE
