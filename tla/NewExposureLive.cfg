\* Every dispatch ends; no authority change.
SPECIFICATION FairSpec
CONSTANTS
    Signals = {s1}
    Dispatches = {d1, d2}
    Revokers = {r1}
    Editors = {}
    Grants <- MCGrants2
    Confs <- MCNoConfs
    InitialMode = "FULL_AUTO"
    MaxChanges = 0
PROPERTIES
    DispatchEnds
CHECK_DEADLOCK FALSE
