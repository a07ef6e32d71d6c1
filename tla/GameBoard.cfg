SPECIFICATION Spec
CONSTANTS
  Positions <- MCPositions
  Home = 0
  NoPos = NoPos
  Deals = {0}
  Fens = {2}
  Legal <- MCLegal
  Ending <- MCEnding
  Score <- MCScore
  Decrees = {2}
  PlyLimits = {2}
  DrawBand = 1
  Ops <- BoardOps
  Faults = {}
  MaxSeq = 3
  MaxQueue = 1
  MaxRestarts = 0
INVARIANT PromptMatchesPhase
