SPECIFICATION Spec
CONSTANTS
    Instance = {p1, p2}
    NoInstance = NoInstance
    Plan <- MixedPlan
    IssuerCount = 1
    AppServer = {p2}
    FaultKind = {"crash", "listen", "zerosslListen", "store", "delete", "dns", "cname", "status",
                 "cancel"}
    MaxFaults = 1
INVARIANTS Answered  NothingLeft NoDraftLeft
