SPECIFICATION Spec
CONSTANTS
  h1 = h1
  h2 = h2
  t1 = t1
  t2 = t2
  Hosts <- OneHost
  Threads <- TwoCallers
  HostOf <- SameHost
  NoLease = NoLease
  NoTransition = NoTransition
  MaxLeaseTime = 1
  Faults = {}
  MaxTime = 1
  MaxEpoch = 0
  MaxBinding = 1
  MaxConfig = 0
  MaxCustody = 1
  MaxRuns = 1
SYMMETRY SameSymmetry
INVARIANTS
  RecheckedBeforeExpiry
