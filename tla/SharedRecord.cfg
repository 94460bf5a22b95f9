CONSTANTS
    p1 = p1
    p2 = p2
    p3 = p3
    pidA = pidA
    pidB = pidB
    pidC = pidC
    pidD = pidD
    Procs <- TwoProcs
    Pids <- ThreePids
    NoPid = NoPid
    NoValue = NoValue
    MaxVersion = 2
    PidReuse = FALSE
SPECIFICATION FairSpec
INVARIANTS HolderProtected RoutingBit
PROPERTIES ImplementsAtomicRecord OrphanReleased
