CONSTANTS
    MaxConns = 3
    MaxFd = 2
    Requests = {r1, r2}
    Closed = Closed
SPECIFICATION WatcherFairSpec
INVARIANTS
    TasksHaveReaders
    DescriptorsOwned
    AcknowledgedIsKept
PROPERTY EveryReaderGoes
CHECK_DEADLOCK FALSE
