CONSTANTS
    Procs = {p1, p2}
    NoOne = NoOne
    Orphan = Orphan
    Foreign = Foreign
    InitialLocks = {Orphan}
    RetryAttempts = 1
    MaxMishaps = 0
SPECIFICATION Spec
INVARIANT AtMostOneInstance
CHECK_DEADLOCK FALSE
