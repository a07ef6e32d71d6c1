SPECIFICATION LiveSpec
CONSTANTS
    c1 = c1
    c2 = c2
    NoCorr = NoCorr
    Everyone = Everyone
    NoRequest = NoRequest
    Nodes = {0}
    Corrs = {c1}
    QueueCapacity = 4
    OfflineThreshold = 3
    SeqMod = 2
    HealthPolls = 1
    MaxAir = 1
    MaxHandoffs = 1
    MaxSweeps = 1
INVARIANT AnswerIsOwn
PROPERTY AnswersCome
PROPERTY SweepsEnd
