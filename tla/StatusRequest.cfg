CONSTANTS
    Sizes <- TwoAndOne
    Batch = 1
    WarnAfter = 1
    LogEvery = 2
    MaxTime = 6
SPECIFICATION FairSpec
INVARIANTS TimerIffWaiting HeldUntilEnd
PROPERTIES ImplementsStatusReport ReportsApart RequestEnds
