CONSTANTS
    PCs = {pc}
    HostWorkers = {w}
    PlaceKeys = {p}
    CloseKeys = {c}
    ReadKeys = {r}
    MaxCommands = 1
    MaxMinted = 3
    MaxFaults = 1
SPECIFICATION FairSpec
INVARIANTS TypeOK SentAtMostOnce RowsAreTrue
PROPERTIES ImplementsChannel QueueDrains
CHECK_DEADLOCK FALSE
