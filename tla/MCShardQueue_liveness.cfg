SPECIFICATION FairSpec
CONSTANTS
    Shards = {s1, s2}
    Workers = {w1, w2, w3}
    Redundancy = 1
    LeaseMs = 1
    MaxAttempts = 3
    ClockMayStepBack = FALSE
    Horizon = 6
PROPERTY EventuallySettled
