SPECIFICATION FairSpec
CONSTANTS
    Worker = {w1, w2}
    Nobody = Nobody
    FaultKind = {"io", "store", "crash", "reset"}
    MaxFaults = 2
    MaxAccounts = 3
INVARIANTS AccountNotMixed TestCertsDiscarded
PROPERTIES RegisteredOnce IssueEnds AccountRecovers
