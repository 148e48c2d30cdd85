CONSTANTS
    OperationCost = 2
    DurationInDays = 1
    HoursPerDay = 2
    HourlyBudgets = {0, 1}
    NotCached = NotCached
    MaxHours = 5
    MaxPending = 3
SPECIFICATION Spec
INVARIANTS
    BudgetsInOrder
    CacheMatchesDatabase
PROPERTY ImplementsLedger
