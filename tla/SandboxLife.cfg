SPECIFICATION FairSpec
CONSTANTS
  r1 = r1
  r2 = r2
  b1 = b1
  b2 = b2
  e1 = e1
  Unnamed = Unnamed
  Requests <- TwoRequests
  Boxes <- TwoBoxes
  Executions <- OneExecution
  MaxTrouble = 2
  MaxCrossed = 1
CHECK_DEADLOCK FALSE
INVARIANTS
  TypeOK
  LeakBounded
  RunningIsWatched
PROPERTIES
  DeadSandboxNoticed
  OldEntriesGo
  ExecutionSettles
