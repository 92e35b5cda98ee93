SPECIFICATION FairSpec
CONSTANTS
  OldTurns = 1
  MaxTurns = 2
  MaxChunks = 3
  MaxRecoveries = 1
  MaxBreaks = 1
INVARIANTS
  TypeOK
  NothingLost
  EndIsShown
  StreamingIsShown
PROPERTIES
  RecoveryEnds
  TurnIsShown
CHECK_DEADLOCK FALSE
