SPECIFICATION FairSpec
CONSTANTS
    d1 = d1
    d2 = d2
    d3 = d3
    d4 = d4
    port = port
    n1 = n1
    n2 = n2
    Documents = {d1, d2, d3, d4}
    TopicOf <- MCTopicOf
    PublishedAt <- MCPublishedAt
    NamesOf <- MCNamesOf
    Workers = {w1, w2}
    Names = {n1, n2}
    Window = 2
    CandidateLimit = 2
    NoDocument = NoDocument
    MaxCrashes = 1
INVARIANTS
    OneClusterPerEvent
    ClusterRowsTrue
    ClashesBounded
PROPERTIES
    EveryDocumentLands
CHECK_DEADLOCK FALSE
