CONSTANT MaxRequests = 4
SPECIFICATION FairSpec
INVARIANTS
    AnsweredOnce
    NothingLost
    DetachIsLast
    SentInOrder
PROPERTIES
    SilentAfterwards
    EveryRequestAnswered
CHECK_DEADLOCK FALSE
