SPECIFICATION FairSession
CONSTANTS
    MaxCalls = 1
    MaxSamples = 1
INVARIANTS
    RevocationIsForGood
    OverMeansReleased
    PreemptedMeansPaused
    SessionTypeOK
    RepliesMatchCalls
    OneBurstWhileAwaited
    SampleAfterBurstIsRight
PROPERTIES
    NoBurstPastALimit
    OverUnlessOvertaken
    LimitsEndTheSession
    QuietUserIsServed
    CallsSettle
CHECK_DEADLOCK FALSE
