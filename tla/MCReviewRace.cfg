SPECIFICATION RaceSpec
CONSTANTS
    Levels <- MCLevels
    AlwaysReview <- MCAlwaysReview
    Cores = {"c1"}
    Titles = {"t1"}
    Places = {"p"}
    Actors = {"a"}
    Sectors = {"s"}
    Reports <- MCReports
    NoRow = NoRow
    Events = {e1}
    Reviewers = {h1, h2}
    NoPage = NoPage
    Workers = {w1, w2}
    NoTx = NoTx
SYMMETRY MCSymmetry
INVARIANTS
    OnlyMixedSessionsMisplace
PROPERTIES
    ConfidenceNeverRises
    SerialSessionsAreAtomic
