SPECIFICATION LimiterFairSpec
CONSTANTS
    Caller = {c1, c2}
    EventLimit = {0, 1, 2, 3}
    MaxWindow = 3
INVARIANTS WindowRespected
PROPERTIES WaitReturns
