SPECIFICATION Spec
CONSTANTS
  i1 = i1
  i2 = i2
  w1 = w1
  w2 = w2
  a = a
  b = b
  Nobody = Nobody
  Instances <- TwoInstances
  FailOpen = TRUE
  MaxOverruns = 1
  MaxErrors = 1
  MaxCrashes = 1
  Subs <- TwoSubs
  OneTime <- OneSub
  Writers <- None
  Ops <- None
  MaxClock = 2
  MaxWrites = 0
  MaxFails = 1
CHECK_DEADLOCK FALSE
INVARIANTS
  TypeOK
  FiredOncePerOccurrence
PROPERTIES
  ImplementsLock
