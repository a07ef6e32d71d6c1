SPECIFICATION Spec
CONSTANTS
  Positions <- MCPositions
  Home = 0
  NoPos = NoPos
  Deals = {0}
  Fens = {2}
  Legal <- MCLegal
  Ending <- MCEnding
  Score <- MCScore
  Decrees = {2}
  PlyLimits = {2}
  DrawBand = 1
  Ops <- OperatorOps
  Faults = {}
  MaxSeq = 4
  MaxQueue = 1
  MaxRestarts = 0
INVARIANT TypeOK
INVARIANT EvalOfBoard
INVARIANT HistoryIsALine
INVARIANT BaselineIsDealt
PROPERTY VerdictStands
