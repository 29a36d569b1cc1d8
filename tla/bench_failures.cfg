CONSTANTS
    Reqs = {r1, r2}
    Repetitions = 1
    MaxInFlight = 1
    Capacity = 1
SYMMETRY Symmetry
SPECIFICATION BenchSpec
INVARIANTS
    FailuresRecorded
\* The program stops at the end of the run.
CHECK_DEADLOCK FALSE
