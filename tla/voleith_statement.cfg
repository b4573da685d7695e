SPECIFICATION StatementSpec
CONSTANTS
    NumChains = 5
    FlagBits = 3
    IndexBits = 4
    PosBits = 2
    SumBits = 4
    Rows = 6
    Height = 2
INVARIANTS
    StatementSound
    HonestWitnessHolds
CHECK_DEADLOCK FALSE
