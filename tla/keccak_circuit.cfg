SPECIFICATION KeccakSpec
CONSTANTS
    Degrees = {16, 32, 64}
    Inputs <- ThreeInputs
    Flips <- Falsified
INVARIANTS
    DigestExact
    HonestMeets
    SameOrder
CHECK_DEADLOCK FALSE
