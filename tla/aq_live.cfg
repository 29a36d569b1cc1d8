CONSTANTS
    Reqs = {r1, r2}
    CancellableCallers = {r1}
    Closers = {c1}
    CancellableClosers = {}
    MaxInFlight = 1
    Capacity = 1
    Timeout = 1
    MaxTime = 1
    Selectable <- AnyWaiting
SPECIFICATION LoopSpec
PROPERTIES
    EveryCallerAnswered
    CloseEnds
\* The run of a queue ends when every request and aclose is over.
CHECK_DEADLOCK FALSE
