SPECIFICATION FairSpec
CONSTANTS
    sq1 = sq1
    Squares = {sq1}
    Contents = {0, 1}
    Bare = 0
    SeqMod = 3
    None = None
    MaxConns = 2
    MaxLost = 1
    MaxAir = 1
INVARIANT TypeOK
INVARIANT OnlineIsRead
INVARIANT TrustedIsTrue
PROPERTY TornHeals
