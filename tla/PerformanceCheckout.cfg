SPECIFICATION FairSpec
CONSTANTS
    Admins = {a1}
    Customers = {c1, c2}
    Deliverers = {d1, d2}
    NumPeriods = 2
    Pnl <- MCProfits
    FeeScaled = 200000
    MaxSessions = 3
    MaxInvoices = 1
    MaxRepeats = 2
    MaxOverlaps = 0
    CallsFail = FALSE
    MaxFaults = 0
INVARIANTS
    SessionIsTracked
PROPERTIES
    CollectedIsRecorded
CHECK_DEADLOCK FALSE
