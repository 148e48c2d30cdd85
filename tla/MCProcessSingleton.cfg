CONSTANTS
    Procs = {p1, p2}
    NoOne = NoOne
    Orphan = Orphan
    Foreign = Foreign
    InitialLocks = {NoOne, Orphan, Foreign}
    RetryAttempts = 2
    MaxMishaps = 1
SPECIFICATION FairSpec
INVARIANTS
    SharersAreDisplaced
    UntroubledIsSafe
    NotifiedWasServed
PROPERTIES
    EveryStartDecides
    LoneStartTakesOver
CHECK_DEADLOCK FALSE
