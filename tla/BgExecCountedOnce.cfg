SPECIFICATION Spec
CONSTANTS
  w1 = w1
  w2 = w2
  h1 = h1
  h2 = h2
  s1 = s1
  s2 = s2
  Execs <- OneExec
  Workers <- OneWorker
  Handlers <- OneHandler
  Schedulers <- OneScheduler
  MaxRuns = 1
  MaxEvents = 1
  MaxRetries = 1
  MaxCrashes = 0
  PreserveHistory = FALSE
  AgedExecs <- NoExec
  UserExecs <- NoExec
  SubMayGo = FALSE
CHECK_DEADLOCK FALSE
INVARIANTS
  CountedOnce
