SPECIFICATION FairSpec
CONSTANTS
  MaxTurns = 1
  MaxRetries = 1
  MaxConnections = 2
  MaxTrouble = 1
CHECK_DEADLOCK FALSE
INVARIANTS
  TypeOK
  OverMeansOver
  CancelReaches
PROPERTIES
  KeepsTurns
  OnlineAgain
  TurnSettles
  OfflineFails
