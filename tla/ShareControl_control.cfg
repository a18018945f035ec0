SPECIFICATION Spec
CONSTANTS
    Whole = 10
    GpuShare = 4
    CpuShare = 2
    MaxIdle = 12
    TickMs = 6
    QuietMs = 2
    Duration = 40
    EnergyMax = 6
    BurstLengths = {1, 3}
    Delays = {0, 1}
    Factors = {80, 40, 18}
INVARIANTS
    TypeOK
    PostedWithinShare
    EnergyWithinOneTick
CHECK_DEADLOCK FALSE
