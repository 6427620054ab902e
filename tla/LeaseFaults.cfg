SPECIFICATION Spec
CONSTANTS
  h1 = h1
  h2 = h2
  t1 = t1
  t2 = t2
  Hosts <- TwoHosts
  Threads <- TwoCallers
  HostOf <- ApartHosts
  NoLease = NoLease
  NoTransition = NoTransition
  MaxLeaseTime = 1
  Faults = {"io", "refused", "torn"}
  MaxTime = 0
  MaxEpoch = 1
  MaxBinding = 1
  MaxConfig = 0
  MaxCustody = 1
  MaxRuns = 2
INVARIANTS
  TypeOK
  SingleUse
  ConsumedStaysClaimed
  OutcomesHaveEntries
  ClaimCustody
PROPERTIES
  AbandonedClaimStays
