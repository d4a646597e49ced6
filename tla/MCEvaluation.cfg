SPECIFICATION Spec
CONSTANTS
    Jobs = {j1, j2}
    Revisions = {"first", "second", "third"}
    Version <- MCVersion
    Broken <- MCBroken
    Scenarios <- MCScenarios
    Documents = {"closure", "setup", "update", "repeat", "notice"}
    Setup = {"setup"}
    Contents = {"closed", "reopened"}
    Script <- MCScript
    Expected <- MCExpected
    NoJob = NoJob
    MaxReports = 1
INVARIANTS
    NothingSyntheticStays
    GateIsRight
    RunsAreWhole
    OneExamplePerDocument
SYMMETRY AnyJobFirst
CHECK_DEADLOCK FALSE
