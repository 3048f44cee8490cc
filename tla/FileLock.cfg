SPECIFICATION FairSpec
CONSTANTS
    Client = {c1, c2}
    NoOwner = NoOwner
    Interval = 1
    EmptyLimit = 2
    MaxFresheners = 2
    MaxFaults = 1
    FaultKind = {"crash", "io"}
INVARIANTS MutualExclusion ExclusiveUntilForced StaleOnlyAfterFault
PROPERTIES LockIsObtained
