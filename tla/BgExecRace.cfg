SPECIFICATION FairSpec
CONSTANTS
  w1 = w1
  w2 = w2
  h1 = h1
  h2 = h2
  s1 = s1
  s2 = s2
  Execs <- OneExec
  Workers <- OneWorker
  Handlers <- TwoHandlers
  Schedulers <- OneScheduler
  MaxRuns = 2
  MaxEvents = 2
  MaxRetries = 0
  MaxCrashes = 1
  PreserveHistory = FALSE
  AgedExecs <- OneExec
  UserExecs <- OneExec
  SubMayGo = TRUE
CHECK_DEADLOCK FALSE
INVARIANTS
  TypeOK
  SuccessCountedOncePerStart
  PendingHasNoTask
PROPERTIES
  EventNeverOverwritesTerminal
  EveryExecutionSettles
