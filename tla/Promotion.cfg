SPECIFICATION Spec
CONSTANTS
    Half = 1
    Pieces <- MCPieces
    Nobody = "-"
    Positions <- MCPositions
    At <- MCAt
    Moves <- MCMoves
    Params <- MCParams
    Deal <- MCDeal
    Polarity <- MCPolarity
    AutoMaskStreak = 1
    Tolerance = 1
    Scenes <- MCScenes
    Mounts = {}
    Suspicious = {}
    Flaky = {}
    MaxPly = 2
    MaxEffort = 10
CHECK_DEADLOCK FALSE
PROPERTY PromotionIsRead
