SPECIFICATION Spec
CONSTANTS
    p1 = p1
    p2 = p2
    m1 = m1
    m2 = m2
    Procs <- TwoProcs
    Users <- OneUser
    Messages <- TwoMessages
    Capacity = 2
    MaxKeys = 2
    MaxCommits = 2
INVARIANTS
    TypeOK
    LeafUsedOnce
    OneMore
    PubHasKey
    OpeningStoredFirst
PROPERTIES
    ImplementsOneTimeSigner
    NoRollback
