SPECIFICATION FairSpec
CONSTANTS
    Roots = {r1, r2, r3}
    MaxReplicas = 4
    MajorityNum = 1
    MajorityDen = 2
    GateMayThrow = TRUE
INVARIANTS
    TallyIsTheMajority
    OrderIrrelevant
    GarbageHasNoVote
PROPERTY JudgedUnlessOneThrew
CHECK_DEADLOCK FALSE
