SPECIFICATION StartSpec
CONSTANTS
  c1 = c1
  c2 = c2
  c3 = c3
  r1 = r1
  r2 = r2
  e1 = e1
  e2 = e2
  Callers <- TwoCallers
  RunId <- Runs
  Trigger <- Triggers
  Requests <- OneRequest
  NoTrigger = NoTrigger
  NoRun = NoRun
  DirectRuns = {}
  Uses = {"admit"}
  Faults = {"io"}
  MaxEntries = 2
PROPERTIES
  CoordinationFailureReleases
