SPECIFICATION Spec
CONSTANTS
    s1 = s1
    s2 = s2
    m1 = m1
    Hole = Hole
    User = user
    Messages <- OneMessage
    Capacity = 2
    MaxSigners = 2
    MaxGens = 2
    MaxCommits = 2
    Scenarios <- AloneOrDisturbed
SYMMETRY Symmetry
INVARIANTS
    EverySignerSigned
    NoGap
    CountersCount
PROPERTY
    CosignersAreOneTime
