CONSTANTS
    SweepFiles <- MCSweepFiles
    ConfigFiles <- MCConfigFiles
    Policies <- MCPolicies
    MinCap = 2
    Tokens = {1, 3, 5, 8}
    Outcomes <- MCOutcomes
    Margin = 2
    Loads = {"low", "high"}
    Seeds = {"s1"}
    ExpectedRate <- MCExpectedRate
    Matrix <- MCMatrix
SPECIFICATION ExperimentSpec
INVARIANTS
    TighterNeverLonger
    RowsOwnPoints
    FilesKept
    AuditAccepts
    SameHashSameLimits
\* An experiment ends.
CHECK_DEADLOCK FALSE
