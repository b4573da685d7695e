CONSTANTS
    NumChains = 5
    MaxSteps = 2
    ScheduleLen = 3
    LaneSize = 6
    IndexSize = 6
SPECIFICATION Spec
INVARIANTS
    NoLaneWraps
    CheckedChainsAreExact
    CheckImpliesTargetSum
    HonestScheduleAccepted
CHECK_DEADLOCK FALSE
