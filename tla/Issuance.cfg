SPECIFICATION Spec
CONSTANTS
    Instance = {p1, p2}
    NoInstance = NoInstance
    IssuerCount = 2
    ReusePrivateKeys = {FALSE}
    MaxIssued = 3
    FaultKind = {"crash", "load", "store", "delete"}
    MaxFaults = 2
SYMMETRY InstanceSymmetry
INVARIANTS StoredResourcesWhole
PROPERTIES IssuedOnlyIfNeeded NeverOlder
