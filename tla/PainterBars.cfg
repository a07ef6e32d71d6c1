SPECIFICATION Spec
CONSTANTS
    Half = 2
    Sides <- MCSides
    MaxBarWrites = 4
    MaxFrames = 1
    Palettes = {"p"}
    FirstPalette = "p"
    Maps <- MCMaps
    FirstMap <- MCFirstMap
    Edges <- MCEdges
    FirstEdges <- MCFirstEdges
    Mounts = {2}
    Scenes <- MCScenes
    Plugged <- MCBoard
    Probed = {}
    Firmwares <- NoFirmware
    Flaky <- Steady
    MaxBatches = 2
    MaxEffort = 2
CHECK_DEADLOCK FALSE
PROPERTY BarsAreShown
