SPECIFICATION Spec
CONSTANTS
    Instance = {a, b}
    Setups <- EachAlone
    Lifetime = 12
    RatioDenominator = 4
    RenewCheckInterval = 1
    OCSPCheckInterval = 2
    Validity = 6
    MaxAge = 1
    RetryAfter = 2
    WindowLength = 1
    Windows = {2, 7}
    MaxFailures = 2
SYMMETRY InstanceSymmetry
CHECK_DEADLOCK FALSE
INVARIANTS TriedInTime  StapleValid RevocationNoticed
PROPERTIES WindowAwaited
