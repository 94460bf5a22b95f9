CONSTANTS
    pidA = pidA
    pidB = pidB
    pidC = pidC
    NumWorkers = 1
    NumPeers = 1
    Pids <- TwoPids
    NoPid = NoPid
    CheckInterval = 3
    CheckTimeout = 2
    Grace = 1
    Floor = 1
    RiseCount = 2
    FallCount = 2
    MaxCount = 3
    MaxInstance = 1
    MaxTerm = 2
    MaxRound = 3
    Udp <- AllPeers
    Lag = 0
    MaxInherited = 3
    MaxTime = 7
    LastClaim = 5
SPECIFICATION FairSpec
INVARIANTS RoundBudget
PROPERTIES ImplementsPeerRounds RoundEnds
