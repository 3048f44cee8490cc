SPECIFICATION Spec
CONSTANTS
    Client = {c1, c2}
    c1 = c1
    c2 = c2
    Background = Background
    Nobody = Nobody
    Setups <- SafetySetups
    MaxIssued = 2
SYMMETRY ClientSymmetry
INVARIANTS
    OneWorker
    FoundIsServed
    AskedBefore
