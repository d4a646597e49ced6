SPECIFICATION ReadSpec
CONSTANTS
    Levels <- MCLevels
    AlwaysReview <- MCAlwaysReview
    Cores = {"c1", "c2"}
    Titles = {"t1"}
    Places = {"p"}
    Actors = {"a"}
    Sectors = {}
    Reports <- MCReports
    NoRow = NoRow
    Events = {e1}
    Reviewers = {h1, h2}
    NoPage = NoPage
    LastDay = 2
SYMMETRY MCSymmetry
INVARIANTS
    TypeOK
    EveryRecordHasAPlace
    RecordsComply
    ApprovalCoversContent
    AuditExplainsStatus
    BriefingsMissNothing
    NamesAreSupported
    ViewsAgree
PROPERTIES
    ReviewPolicyHolds
