SPECIFICATION FairSpec
CONSTANTS
    Workers = {w1, w2}
    AccountType = "DEMO"
    MaxOps = 2
    MaxPairs = 3
    MaxClaims = 2
    MaxPolls = 2
    MaxFaults = 1
INVARIANTS
    TypeOK
    SuspendedNotExecutable
    StoredPairSurvives
PROPERTIES
    OperationEnds
CHECK_DEADLOCK FALSE
