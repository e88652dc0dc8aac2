SPECIFICATION Spec
CONSTANTS
    Admins = {a1}
    Customers = {c1}
    Deliverers = {d1, d2}
    NumPeriods = 2
    Pnl <- MCProfits
    FeeScaled = 200000
    MaxSessions = 2
    MaxInvoices = 1
    MaxRepeats = 1
    MaxOverlaps = 1
    CallsFail = TRUE
    MaxFaults = 1
SYMMETRY Symmetry
INVARIANTS
    TypeOK
    PaidWasCollected
    OneOutstanding
    FeePaidOnce
CHECK_DEADLOCK FALSE
