SPECIFICATION Spec
CONSTANTS
  h1 = h1
  h2 = h2
  t1 = t1
  t2 = t2
  Hosts <- TwoHosts
  Threads <- TwoCallers
  HostOf <- ApartHosts
  NoLease = NoLease
  NoTransition = NoTransition
  MaxLeaseTime = 1
  Faults = {"torn"}
  MaxTime = 0
  MaxEpoch = 0
  MaxBinding = 1
  MaxConfig = 0
  MaxCustody = 1
  MaxRuns = 1
INVARIANTS
  EntryConsumes
