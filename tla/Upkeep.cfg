SPECIFICATION MCSpec
CONSTANTS
    Instance = {p1, p2}
    NoInstance = NoInstance
    IssuerCount = 1
    ReusePrivateKeys = {FALSE, TRUE}
    MaxIssued = 2
    FaultKind = {"store", "delete"}
    MaxFaults = 1
    TaskSets = {{"revoke"}, {"clean"}, {"ari"}, {"ca"}}
SYMMETRY InstanceSymmetry
INVARIANTS NeverMixed RevokedGone
PROPERTIES IssuedUnderUpkeep LeakedKeyReplaced
