SPECIFICATION FairSpec
CONSTANTS
    Instance = {p1, p2}
    NoInstance = NoInstance
    IssuerCount = 1
    ReusePrivateKeys = {FALSE}
    MaxIssued = 2
    FaultKind = {"crash", "lock"}
    MaxFaults = 1
PROPERTIES OperationsEnd 
