SPECIFICATION Spec
CONSTANTS
    Half = 1
    Pieces <- MCPieces
    Nobody = "-"
    Positions <- MCPositions
    At <- MCAt
    Moves <- MCMoves
    Params <- MCParams
    Deal <- MCDeal
    Polarity <- MCPolarity
    AutoMaskStreak = 1
    Tolerance = 1
    Scenes <- MCScenes
    Mounts = {0, 2}
    Suspicious <- MCSuspicious
    Flaky <- MCFlaky
    MaxPly = 2
    MaxEffort = 9
CHECK_DEADLOCK FALSE
INVARIANT MasksAreOwned
INVARIANT TagsFollowPieces
PROPERTY ImplementsGameRecord
PROPERTY CleanMoveIsRead
PROPERTY CommitsOnlyArrivals
