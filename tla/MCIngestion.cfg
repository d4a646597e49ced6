SPECIFICATION Spec
CONSTANTS
    Editions = {"e1", "e2", "bad"}
    NoEtag = NoEtag
    NoRow = NoRow
    Sources = {1, 2}
    Serves <- MCServes
    Items = {"i1", "i2", "broken"}
    Publishes <- MCPublishes
    Unstorable = {"broken"}
    Fatal = {"bad"}
    Replies = {"blocked", "failed", "tagged"}
    Workers = {w1, w2}
    Forms <- MCForms
    Interval = 1
    MaxCrashes = 1
INVARIANTS
    ValidatorsHideNothing
    NothingBeforeReview
    OneWorkerPerSource
PROPERTIES
    PollingIsPolite
SYMMETRY AnyWorkerFirst
