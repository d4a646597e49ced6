SPECIFICATION FairSpec
CONSTANTS
    FirstPrice = 1
    SecondPrice = 1
    Documents = {1, 2, 3}
    TooLong = {1}
    Failing = {3}
    Heard <- MCHeard
    Workers = {w1, w2}
    Limit = 2
    Budget = 1
    MaxAttempts = 1
    MaxAborts = 1
    Counted = 0
INVARIANTS
    QueueTypeOK
    OneWorkerPerDocument
    SpendingStaysNearBudget
    RetriesStayBounded
    RepaymentsStayBounded
PROPERTY BacklogDrains
