SPECIFICATION Spec
CONSTANTS
    t1 = t1
    t2 = t2
    Threads <- TwoThreads
    N = 3
    M = 3
    Tau = 2
    W = 3
    Shares <- TwoShares
    Tapes <- TwoTapes
SYMMETRY Symmetry
INVARIANTS
    ChallengeIsASet
    HonestProofAccepted
    OnlyWholeFileAccepted
    NoProofWithoutWitness
    ForgeryNeedsTheChallenge
    GatesExact
    GatesBind
CHECK_DEADLOCK FALSE
