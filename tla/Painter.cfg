SPECIFICATION Spec
CONSTANTS
    Half = 2
    Sides <- MCSides
    MaxBarWrites = 4
    MaxFrames = 1
    Palettes = {"p"}
    FirstPalette = "p"
    Maps <- MCMaps
    FirstMap <- MCFirstMap
    Edges <- MCEdges
    FirstEdges <- MCFirstEdges
    Mounts = {2}
    Scenes <- MCScenes
    Plugged <- MCHalfBoard
    Probed <- MCProbed
    Firmwares <- MCFirmwares
    Flaky <- MCFlaky
    MaxBatches = 2
    MaxEffort = 3
CHECK_DEADLOCK FALSE
INVARIANT NothingLitUnnoticed
INVARIANT OneSensorColour
INVARIANT VenueSurvives
PROPERTY FrameIsShown
PROPERTY BarsAreShown
