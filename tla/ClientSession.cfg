SPECIFICATION LiveSpec
CONSTANTS
  QueueCap = 2
  BroadcastCap = 2
  MaxAuthFailures = 2
  Boards = 2
  MaxLives = 2
  MaxEffort = 4
INVARIANT TypeOK
INVARIANT NoHoles
INVARIANT SeesTheServer
INVARIANT OnlyAuthorised
PROPERTY ClientsEnd
CHECK_DEADLOCK FALSE
