SPECIFICATION FairSpec
CONSTANTS
  MaxTurns = 1
  MaxRetries = 0
  MaxConnections = 2
  MaxTrouble = 0
CHECK_DEADLOCK FALSE
PROPERTIES
  OrphanMarked
