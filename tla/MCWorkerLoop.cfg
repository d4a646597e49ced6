SPECIFICATION FairSpec
CONSTANTS
    u1 = u1
    u2 = u2
    o1 = o1
    o2 = o2
    Urls = {u1, u2}
    Origins = {o1, o2}
    OriginOf <- MCOriginOf
    MaxAttempts = 3
    BackoffBase = 2
    MaxBackoff = 60
    RetryAfters <- MCRetryAfters
    NoHeader = NoHeader
    Slices = 1
    MaxEscapes = 1
    MaxStarts = 1
INVARIANTS
    RobotsRespected
    OutcomeExplained
    WaitsBounded
PROPERTIES
    KeepsPolling
    ShutdownHonoured
