\* The constants of TcpCheck.cfg, for one documented property.
SPECIFICATION Spec
CONSTANTS
    CheckTimeout = 2
    Rehandshake = 3
    KeepConnection = TRUE
    DiscardMax = 2
    MaxUnread = 3
INVARIANTS
    FailureOnNewConnection
CHECK_DEADLOCK FALSE
