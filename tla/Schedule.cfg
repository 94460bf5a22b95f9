CONSTANTS
    pidA = pidA
    pidB = pidB
    pidC = pidC
    NumWorkers = 2
    NumPeers = 1
    Pids <- TwoPids
    NoPid = NoPid
    CheckInterval = 2
    CheckTimeout = 1
    Grace = 1
    Floor = 1
    RiseCount = 1
    FallCount = 1
    MaxCount = 1
    MaxInstance = 2
    MaxTerm = 2
    MaxRound = 2
    Udp <- NoPeer
    Lag = 1
    MaxInherited = 0
    MaxTime = 4
    LastClaim = 4
SPECIFICATION Spec
SYMMETRY Symmetry
INVARIANTS TypeOK RunningIffWorking NoLostTimer
PROPERTIES DeadlineMovesWithPhase NoEarlyTakeover ImplementsPeerRounds
