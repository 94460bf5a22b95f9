\* Loads of both modules, three in a row of each, with up to two peers of two
\* identities that share a bucket.
SPECIFICATION Spec
CONSTANTS
    a = a
    b = b
    c = c
    Modules = {"http", "stream"}
    Identities = {a, b}
    Hash <- HashValues
    MaxGeneration = 3
    MaxPeers = 2
INVARIANTS
    OneHeir
    NoneForgotten
    HistoryOfIdentity
\* At the largest generation a load is refused.
CHECK_DEADLOCK FALSE
