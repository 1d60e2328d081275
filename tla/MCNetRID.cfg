SPECIFICATION Spec
CONSTANTS
    Providers <- MCProviders
    Observers <- MCObservers
    Tracks <- MCTracks
    StartDelay = 1
    Realtime = 5
    Latency = 2
    Buffer = 5
    PollInterval = 1
    MinDiagonal = 2
    DetailsDiagonal = 4
    MaxDiagonal = 6
    MaxDelay = 1
    MaxFaults = 1
    None = None
INVARIANTS FindingsJustified SuccessMeansObserved
