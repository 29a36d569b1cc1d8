CONSTANTS
    Reqs = {r1, r2, r3}
    CancellableCallers = {r1}
    Closers = {c1}
    CancellableClosers = {c1}
    MaxInFlight = 1
    Capacity = 1
    Timeout = 1
    MaxTime = 1
    Selectable <- AnyWaiting
CONSTRAINT TwoEntries
SYMMETRY Symmetry
SPECIFICATION Spec
INVARIANTS
    TypeOK
    IndexConsistent
    BackendsBounded
    Watched
    CancelledCallerDrains
    CloseJoins
PROPERTIES
    ImplementsContract
    StatusAtDeadline
    NoDispatchAfterClose
\* The run of a queue ends when every request and aclose is over.
CHECK_DEADLOCK FALSE
