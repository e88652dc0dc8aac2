\* One decision, delivered once.
SPECIFICATION Spec
CONSTANTS
    Intents = {i1}
    Workers = {w1}
    Instrument <- MCInstrument
    Strategy <- MCStrategy
    MaxCapital = 2
    Sizes = {1}
INVARIANTS
    ReleasedIsUnexposed
CHECK_DEADLOCK FALSE
