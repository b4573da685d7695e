SPECIFICATION FairTool
CONSTANTS
    p1 = p1
    p2 = p2
    m1 = m1
    m2 = m2
    Procs <- TwoProcs
    Messages <- TwoMessages
    Chunks = 2
    Hole = Hole
    Capacity = 2
    Absent = Absent
    Torn = Torn
    Scenarios <- AllScenarios
INVARIANTS
    VerdictRight
    CacheSettles
    FullDiskKeepsLeaves
PROPERTY
    CommandReturns
CHECK_DEADLOCK FALSE
