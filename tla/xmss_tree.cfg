CONSTANTS
    m1 = m1
    H = 5
    Heights <- MCHeights
    Messages = {m1}
SPECIFICATION TreeSpec
INVARIANTS
    CacheCoherent
    RootIndependentOfSplit
    SignaturesVerify
