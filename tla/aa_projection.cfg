CONSTANTS
    Reqs = {r1, r2, r3, r4}
    CancellableCallers = {}
    Closers = {c1}
    CancellableClosers = {c1}
    MaxInFlight = 2
    Capacity = 2
    Timeout = 1
    MaxTime = 2
    Selectable <- AnyWaiting
    TightenAt <- MCTightenAt
    RelaxAt <- MCRelaxAt
    TightenHold = 1
    RelaxHold = 1
CONSTRAINT PlainOutcomes
ACTION_CONSTRAINT SettledFirst
SYMMETRY Symmetry
SPECIFICATION AdaptiveSpec
INVARIANTS
    WorkConserving
PROPERTIES
    LoopIsAtomic
    ProjectionExact
\* The run of a queue ends when every request and aclose is over.
CHECK_DEADLOCK FALSE
