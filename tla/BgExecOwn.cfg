SPECIFICATION Spec
CONSTANTS
  w1 = w1
  w2 = w2
  h1 = h1
  h2 = h2
  s1 = s1
  s2 = s2
  Execs <- TwoExecs
  Workers <- OneWorker
  Handlers <- OneHandler
  Schedulers <- OneScheduler
  MaxRuns = 2
  MaxEvents = 1
  MaxRetries = 0
  MaxCrashes = 0
  PreserveHistory = TRUE
  AgedExecs <- TwoExecs
  UserExecs <- NoExec
  SubMayGo = FALSE
CHECK_DEADLOCK FALSE
INVARIANTS
  OutcomeOfOwnTask
  RecoveredOnce
