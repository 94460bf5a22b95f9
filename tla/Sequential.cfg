SPECIFICATION SequentialSpec
CONSTANTS
    MaxTotal = 15
    MaxDelay = 7
    Parameters <- SomeParameters
    MaxParameters = 3
    Second = 1000
    IntervalDefault = 5000
    IntervalMin = 100
    TimeoutDefaultMax = 5000
    FallDefault = 3
    RiseDefault = 2
    RehandshakeMin = 30000
    RehandshakeMax = 100000
    KeepintvlDefault = 1
    KeepcntDefault = 3
    KeepaliveTimeMax = 50
    KeepcntMax = 127
    Tunable = TRUE
    BlockSize = 3
    MaxShown = 2
INVARIANTS
    StatisticsSound
    ConfSound
    OrderFree
    LastCounts
    AnswerSound
PROPERTIES
    AverageFollowsSample
\* A directive and an answer end.
CHECK_DEADLOCK FALSE
