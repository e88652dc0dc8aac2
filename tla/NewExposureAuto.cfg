\* FULL_AUTO: two concurrent deliveries of one signal while authority changes once.
SPECIFICATION Spec
CONSTANTS
    Signals = {s1}
    Dispatches = {d1, d2}
    Revokers = {r1}
    Editors = {e1}
    Grants <- MCGrants2
    Confs <- MCNoConfs
    InitialMode = "FULL_AUTO"
    MaxChanges = 1
INVARIANTS
    RejectedTradeNeverSent
PROPERTIES
    ControlStopsCommitment
    KillSwitchStopsCommitment
    RevocationFencesCommitment
SYMMETRY Symmetry
CHECK_DEADLOCK FALSE
