CONSTANTS
    Reqs = {r1, r2, r3}
    CancellableCallers = {}
    Closers = {}
    CancellableClosers = {}
    MaxInFlight = 1
    Capacity = 2
    Timeout = 1
    MaxTime = 2
    Selectable <- AnyWaiting
    TightenAt <- MCTightenAt
    RelaxAt <- MCRelaxAt
    TightenHold = 1
    RelaxHold = 1
CONSTRAINT PlainOutcomes
ACTION_CONSTRAINT SettledFirst
SYMMETRY Symmetry
SPECIFICATION AdaptiveSpec
PROPERTIES
    DepthFollowsQueue
\* The run of a queue ends when every request is over.
CHECK_DEADLOCK FALSE
