\* SEMI_AUTO: a delivery and two confirmations of its proposal.
SPECIFICATION Spec
CONSTANTS
    Signals = {s1}
    Dispatches = {d1, d2, d3}
    Revokers = {r1}
    Editors = {}
    Grants <- MCGrants3
    Confs <- MCConfs1
    InitialMode = "SEMI_AUTO"
    MaxChanges = 0
INVARIANTS
    TypeOK
    ConfirmationSpentWithGrant
SYMMETRY Symmetry
CHECK_DEADLOCK FALSE
