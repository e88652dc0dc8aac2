\* The dispatch and two overlapping runs meet a partial fill.
SPECIFICATION Spec
CONSTANTS
    Requested = 2
    Runs = {r1, r2}
    Families = {"other"}
    MaxFaults = 0
INVARIANT
    FillNotDoubled
