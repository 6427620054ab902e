SPECIFICATION ChainSpec
CONSTANTS
  h1 = h1
  h2 = h2
  t1 = t1
  t2 = t2
  Hosts <- OneHost
  Threads <- TwoCallers
  HostOf <- SameHost
  NoLease = NoLease
  NoTransition = NoTransition
  MaxLeaseTime = 1
  Faults = {}
  MaxTime = 1
  MaxEpoch = 1
  MaxBinding = 2
  MaxConfig = 1
  MaxCustody = 2
  MaxRuns = 1
  s1 = s1
  s2 = s2
  k1 = k1
  k2 = k2
  open = open
  closed = closed
  Handler <- TwoCallers
  Console = {s1, s2}
  Code = {k1, k2}
  Profile = {open, closed}
  Admits <- TwoProfiles
  MaxEach = 2
  MaxRows = 7
SYMMETRY ChainSymmetry
INVARIANTS
  OneLeasePerIssuer
  DecisionsAgree
  BindingStaysApproved
  OneConsoleReadable
