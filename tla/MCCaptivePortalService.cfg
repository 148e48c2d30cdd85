CONSTANTS
    InitialBackoffNoPortal = 3
    InitialBackoffPortal = 1
    MaximumBackoff = 5
    NumErrorsToIgnore = 1
    JitterTenths = 3
    RetryAfters = {0, 2}
    MaxChecks = 4
    MaxPrefChanges = 2
    ElapsedCap = 6
SPECIFICATION ServiceSpec
INVARIANTS
    StateConsistent
PROPERTIES
    ProbesThrottled
    ImplementsCheck
    EveryRequestAnswered
