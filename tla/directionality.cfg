CONSTANTS
    N = 6
    ArrivalTimes <- Gaps
    Services = {1}
    MaxInFlight = 1
    TightenAt <- MCTightenAt
    RelaxAt <- MCRelaxAt
    TightenHold = 0
    RelaxHold = 2
    Unit = 2
    MaxTime = 30
SPECIFICATION TraceSpec
INVARIANT DirectionKept
CHECK_DEADLOCK FALSE
