CONSTANTS
    pidA = pidA
    pidB = pidB
    pidC = pidC
    NumWorkers = 2
    NumPeers = 1
    Pids <- TwoPids
    NoPid = NoPid
    CheckInterval = 4
    CheckTimeout = 1
    Grace = 1
    Floor = 1
    RiseCount = 1
    FallCount = 1
    MaxCount = 1
    MaxInstance = 1
    MaxTerm = 2
    MaxRound = 2
    Udp <- NoPeer
    Lag = 0
    MaxInherited = 0
    MaxTime = 6
    LastClaim = 6
SPECIFICATION Spec
SYMMETRY Symmetry
PROPERTIES RoundSpacing
