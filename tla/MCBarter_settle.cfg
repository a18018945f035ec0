SPECIFICATION BarterSpec
CONSTANTS
    Workers = {w1, w2, w3}
    Amounts <- PassedAmounts
    ShardCounts <- PassedCounts
    RewardPerShard = 2
    SlashNum = 1
    SlashDen = 1
    MaxEvents = 4
    MaxCalls = 3
    MajorityNum = 1
    MajorityDen = 2
    Draws = 2
SYMMETRY Symmetry
INVARIANTS
    BarterTypeOK
    BooksBalance
    ForfeitedMeansAudited
    HonestIsNotSlashed
    PaidIsRightOrUnseen
CHECK_DEADLOCK FALSE
