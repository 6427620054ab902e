SPECIFICATION InstallationSpec
CONSTANTS
  o1 = o1
  o2 = o2
  m1 = m1
  m2 = m2
  t1 = t1
  t2 = t2
  Permission = {x1}
  MaxTime = 2
  Operator <- TwoOperators
  Host = {h1}
  Mapping <- TwoMappings
  FirstConfig <- FullyEnabled
  MaxCommit = 3
  MaxFault = 1
  Tears = TRUE
  None = None
  Release = {r1, r2}
  FirstRelease = r1
  Terminal <- TwoTerminals
  MaxSequence = 3
  MaxCheckpoint = 2
  MaxTrust = 2
  MaxShared = 2
  Heeds = TRUE
  Mixed = Mixed
  Absent = Absent
  a1 = a1
  p1 = p1
  p2 = p2
  q1 = q1
  b1 = b1
  b2 = b2
  DesktopPlan = {p1, p2, q1}
  Build = {b1, b2}
  BuildOf <- TwoVersions
  AppOperator = {a1}
  MaxGrant = 3
  MaxCleanup = 2
  Torn = Torn
  NoPlan = NoPlan
SYMMETRY InstallationSymmetry
INVARIANTS
  TrustTypeOK
  HistoryMaterializes
  PendingRecoverable
  LiveAuthority
  EventsReceipted
  ReplayAgrees
  NoStaleTrust
  
  
  ActiveStands
  InterruptedRecoverable
PROPERTIES
  OnlyGrantsAdd
  ImplementsHistory
  SequenceNeverReused
  UpdatesTheirBase
