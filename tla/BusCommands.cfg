SPECIFICATION Spec
CONSTANTS
    c1 = c1
    c2 = c2
    NoCorr = NoCorr
    Everyone = Everyone
    NoRequest = NoRequest
    Nodes = {0, 1}
    Corrs = {c1, c2}
    QueueCapacity = 3
    OfflineThreshold = 1
    SeqMod = 2
    HealthPolls = 1
    MaxAir = 1
    MaxHandoffs = 0
    MaxSweeps = 0
SYMMETRY Swap
INVARIANT TypeOK
INVARIANT AcceptedIsOwed
INVARIANT SyncBeforePolls
