SPECIFICATION Spec
CONSTANTS
    NumChains = 4
    MaxSteps = 3
    ScheduleLen = 5
    ByteSize = 6
INVARIANTS
    ChainEndsExact
    EachChainOnce
    HonestWitnessHolds
CHECK_DEADLOCK FALSE
