SPECIFICATION Spec
CONSTANTS
    Shards = {s1, s2}
    Workers = {w1, w2, w3}
    Redundancy = 2
    LeaseMs = 1
    MaxAttempts = 2
    ClockMayStepBack = TRUE
    Horizon = 2
SYMMETRY Symmetry
INVARIANTS
    TypeOK
    SlotBound
    ReplicaIndependence
    SettledConsistent
    OneLeasePerWorker
PROPERTIES
    HistoryOnlyGrows
    ImplementsReplicaSet
