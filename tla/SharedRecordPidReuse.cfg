CONSTANTS
    p1 = p1
    p2 = p2
    p3 = p3
    pidA = pidA
    pidB = pidB
    pidC = pidC
    pidD = pidD
    Procs <- ThreeProcs
    Pids <- FourPids
    NoPid = NoPid
    NoValue = NoValue
    MaxVersion = 1
    PidReuse = TRUE
SPECIFICATION Spec
SYMMETRY SymmetryThree
INVARIANT HolderProtected
