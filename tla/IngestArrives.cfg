SPECIFICATION FairSpec
CONSTANTS
    Editions = {"e1", "e2", "bad"}
    NoEtag = NoEtag
    NoRow = NoRow
    Sources = {1, 2}
    Serves <- MendedServes
    Items = {"i1", "i2", "broken"}
    Publishes <- MCPublishes
    Unstorable = {"broken"}
    Fatal = {"bad"}
    Replies = {"tagged", "untagged"}
    Workers = {w1, w2}
    Forms <- OneForm
    Interval = 1
    MaxCrashes = 1
PROPERTY GoodFeedsArrive
