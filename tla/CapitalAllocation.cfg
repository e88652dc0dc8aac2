\* Two decisions, two deliveries; capped and uncapped sessions.
SPECIFICATION FairSpec
CONSTANTS
    Intents = {i1, i2}
    Workers = {w1, w2}
    Instrument <- MCInstrument
    Strategy <- MCStrategy
    MaxCapital = 2
    Sizes = {1}
INVARIANTS
    TypeOK
    BudgetHolds
PROPERTIES
    ReservedOnce
    InFlightEnds
CHECK_DEADLOCK FALSE
