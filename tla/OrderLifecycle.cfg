\* One dispatch, one reconciliation worker, every provider behaviour, one fault.
SPECIFICATION FairSpec
CONSTANTS
    Requested = 2
    Runs = {r1}
    Families = {"ctrader", "other"}
    MaxFaults = 1
INVARIANTS
    TypeOK
    AtMostOnePlacement
    RejectedTradeHasNoPosition
    NotSentIsTrue
    ExposureIsReal
PROPERTIES
    TerminalIsFinal
    ReservationConverges
