SPECIFICATION FairSpec
CONSTANTS
  h1 = h1
  h2 = h2
  t1 = t1
  t2 = t2
  Hosts <- TwoHosts
  Threads <- TwoCallers
  HostOf <- ApartHosts
  NoLease = NoLease
  NoTransition = NoTransition
  MaxLeaseTime = 1
  Faults = {"io"}
  MaxTime = 1
  MaxEpoch = 0
  MaxBinding = 1
  MaxConfig = 1
  MaxCustody = 2
  MaxRuns = 2
PROPERTIES
  ImplementsSingleUse
  HolderReturns
