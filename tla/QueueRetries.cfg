SPECIFICATION Spec
CONSTANTS
    FirstPrice = 1
    SecondPrice = 2
    Documents = {1}
    TooLong = {}
    Failing = {1}
    Heard = {"verified", "refused"}
    Workers = {w1}
    Limit = 1
    Budget = 3
    MaxAttempts = 2
    MaxAborts = 0
    Counted = 4
INVARIANT AttemptsAreBounded
