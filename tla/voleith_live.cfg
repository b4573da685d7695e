SPECIFICATION FairSpec
CONSTANTS
    p1 = p1
    p2 = p2
    m1 = m1
    m2 = m2
    Procs <- TwoProcs
    Users <- OneUser
    Messages <- OneMessage
    Capacity = 1
    MaxKeys = 1
    MaxCommits = 1
PROPERTIES
    CommandsReturn
