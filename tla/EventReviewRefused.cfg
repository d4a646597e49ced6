SPECIFICATION Spec
CONSTANTS
    Levels <- MCLevels
    AlwaysReview <- MCAlwaysReview
    Cores = {"c1", "c2"}
    Titles = {"t1", "t2"}
    Places = {"p"}
    Actors = {"a"}
    Sectors = {}
    Reports <- MCReports
    NoRow = NoRow
    Events = {e1}
    Reviewers = {h1, h2}
    NoPage = NoPage
INVARIANT NoReportRefused
