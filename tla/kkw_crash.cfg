SPECIFICATION Spec
CONSTANTS
    s1 = s1
    s2 = s2
    m1 = m1
    m2 = m2
    User = user
    Messages <- OneMessage
    Capacity = 2
    MaxKeys = 1
    MaxCommits = 2
    Scenarios <- OneKill
SYMMETRY Symmetry
INVARIANTS
    LeafUsedOnce
