\* A timeout of two units, three tries of an interrupted call.
SPECIFICATION FairSpec
CONSTANTS
    CheckTimeout = 2
    Retries = 3
INVARIANTS
    RefusalKept
    SentOnce
    NoLostEvent
PROPERTIES
    FailureConfirmed
    RoundEnds
