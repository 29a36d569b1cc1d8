SPECIFICATION Spec
CONSTANTS
    short = short
    long = long
    Kinds <- MCKinds
    Class <- MCClass
    Budget <- MCBudget
    Service <- MCService
    CostWeight = 12
    SlackWeight = 1
    WaitingWeight = 2
    AgingThreshold = 5
    AgingLevels = 2
    MarginNum = 3
    MarginDen = 2
    CeilingFloor = 1
    CeilingCap = 7
    Capacity = 4
    Slots = {1, 2}
    MaxService = 2
    MaxLateness = 1
    MaxAge = 16
INVARIANTS
    AgedBeforeYounger
    FifoWithinKind
    WaitBounded
