SPECIFICATION FairSpec
CONSTANTS
  i1 = i1
  i2 = i2
  w1 = w1
  w2 = w2
  a = a
  b = b
  Nobody = Nobody
  Instances <- OneInstance
  FailOpen = TRUE
  MaxOverruns = 1
  MaxErrors = 1
  MaxCrashes = 1
  Subs <- OneSub
  OneTime <- None
  Writers <- TwoWriters
  Ops <- AllOps
  MaxClock = 1
  MaxWrites = 2
  MaxFails = 1
CHECK_DEADLOCK FALSE
PROPERTIES
  DueFires
INVARIANTS
  NeverOvercounted
  FiredOncePerOccurrence
