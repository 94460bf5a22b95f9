SPECIFICATION FairSpec
CONSTANTS
    NumWorkers = 2
    NumPeers = 2
    Batch = 1
    Grace = 1
    Preference = 1
    Score <- FirstPreferred
    Sound = {1}
    MaxDeaths = 1
PROPERTIES
    ActivatedOnce
    PeersFound
