SPECIFICATION FairSpec
CONSTANTS
  Positions <- MCPositions
  Home = 0
  NoPos = NoPos
  Deals = {0}
  Fens = {2}
  Legal <- MCLegal
  Ending <- MCEnding
  Score <- MCScore
  Decrees = {2}
  PlyLimits = {2}
  DrawBand = 1
  Ops <- EngineOps
  Faults = {}
  MaxSeq = 3
  MaxQueue = 2
  MaxRestarts = 0
INVARIANT PendingIsAwaited
INVARIANT SameRuler
PROPERTY ScoringEnds
