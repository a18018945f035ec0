SPECIFICATION FairSpec
CONSTANTS
    Shards = {s1}
    Workers = {w1, w2}
    Redundancy = 2
    LeaseMs = 1
    MaxAttempts = 8
    ClockMayStepBack = FALSE
    Horizon = 2
PROPERTY EventuallySettled
