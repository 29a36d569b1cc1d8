CONSTANTS
    Depths <- MCDepths
    TightenAt <- MCTightenAt
    RelaxAt <- MCRelaxAt
    TightenHold = 1
    RelaxHold = 2
    MaxTime = 7
SPECIFICATION HistSpec
INVARIANTS
    TypeOK
    TargetHasHold
    HoldsAreAudited
    ActsPromptly
PROPERTIES
    RisesOnOwnEvidence
    FallsOneHoldAtATime
\* The clock of the model stops.
CHECK_DEADLOCK FALSE
