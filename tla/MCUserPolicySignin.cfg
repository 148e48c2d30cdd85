SPECIFICATION Spec
CONSTANTS
    MaxContent = 2
    ContentsPerObject = 2
    UnnamedContents = {}
    NoObject = NoObject
    NoPolicy = NoPolicy
    NoInvalidation = NoInvalidation
INVARIANTS
    PolicyConsistent
    NoChangeForgotten
PROPERTY InvalidationsSettle
CHECK_DEADLOCK FALSE
