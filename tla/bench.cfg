CONSTANTS
    Reqs = {r1, r2, r3}
    Repetitions = 2
    MaxInFlight = 1
    Capacity = 1
CONSTRAINT TwoCalls
SYMMETRY Symmetry
SPECIFICATION BenchSpec
INVARIANTS
    TypeOK
    NeverStuck
    NothingOutlivesRun
    DrainedBeforeClose
    RecordsComplete
    CancellationKept
PROPERTIES
    RecordsOwnTelemetry
\* The program stops at the end of the run.
CHECK_DEADLOCK FALSE
