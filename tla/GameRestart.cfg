SPECIFICATION Spec
CONSTANTS
  Positions <- MCPositions
  Home = 0
  NoPos = NoPos
  Deals = {0}
  Fens = {2}
  Legal <- MCLegal
  Ending <- MCEnding
  Score <- MCScore
  Decrees = {2}
  PlyLimits = {1, 2}
  DrawBand = 1
  Ops <- RestartOps
  Faults = {"failed", "truncated"}
  MaxSeq = 3
  MaxQueue = 1
  MaxRestarts = 1
INVARIANT FileIsCurrent
PROPERTY ImplementsGameRecord
