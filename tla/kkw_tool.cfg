SPECIFICATION Spec
CONSTANTS
    s1 = s1
    s2 = s2
    m1 = m1
    m2 = m2
    User = user
    Messages <- TwoMessages
    Capacity = 2
    MaxKeys = 2
    MaxCommits = 2
    Scenarios <- AloneOrDisturbed
SYMMETRY Symmetry
INVARIANTS
    CounterCounts
    BlindSigBacked
