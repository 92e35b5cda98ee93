SPECIFICATION FairLockSpec
CONSTANTS
  i1 = i1
  i2 = i2
  i3 = i3
  Nobody = Nobody
  Instances <- ThreeInstances
  FailOpen = TRUE
  MaxOverruns = 2
  MaxErrors = 2
  MaxCrashes = 2
INVARIANTS
  LockTypeOK
  OverlapBounded
PROPERTIES
  KeyIsFreedAgain
