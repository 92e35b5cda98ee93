SPECIFICATION Spec
CONSTANTS
  c1 = c1
  c2 = c2
  k1 = k1
  MaxTurns = 2
  MaxRuns = 3
  Consumers <- OneConsumer
  Checkers <- OneChecker
  MaxRequeues = 1
  OneShot <- SecondTurn
  FaultKinds <- SubmitOnly
  MaxFaults = 1
  MaxIncidents = 1
CHECK_DEADLOCK FALSE
PROPERTIES
  FailedSubmissionIsKept
