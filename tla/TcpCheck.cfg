\* A timeout of two units, connections renewed at the age of three, two bytes
\* that may be discarded and up to three on the way.
SPECIFICATION Spec
CONSTANTS
    CheckTimeout = 2
    Rehandshake = 3
    KeepConnection = TRUE
    DiscardMax = 2
    MaxUnread = 3
INVARIANTS
    RoundStructure
    FailureFromRound
    SampleIsHandshake
    NoLostEvent
PROPERTIES
    SuccessOnOpen
    DiscardLimit
\* The process stops its checks for good when nginx tells it to quit.
CHECK_DEADLOCK FALSE
