CONSTANTS
    N = 7
    ArrivalTimes <- Gaps
    Services = {2}
    MaxInFlight = 2
    TightenAt <- MCTightenAt
    RelaxAt <- MCRelaxAt
    TightenHold = 0
    RelaxHold = 2
    Unit = 2
    MaxTime = 30
SPECIFICATION TraceSpec
INVARIANTS
    EpisodesAgree
    LittlesLaw
    PeaksAgree
    ResidenceAgrees
    ThrashAuditPasses
\* A simulation ends.
CHECK_DEADLOCK FALSE
