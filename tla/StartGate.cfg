SPECIFICATION StartSpec
CONSTANTS
  c1 = c1
  c2 = c2
  c3 = c3
  r1 = r1
  r2 = r2
  e1 = e1
  e2 = e2
  Callers <- TwoCallers
  RunId <- Runs
  Trigger <- Triggers
  Requests <- AllRequests
  NoTrigger = NoTrigger
  NoRun = NoRun
  DirectRuns = {r2}
  Uses = {"admit", "start", "advance", "abort"}
  Faults = {"io", "crash"}
  MaxEntries = 2
SYMMETRY DirectSymmetry
INVARIANTS
  TriggerStartsOnce
  Reservations
  AnswersMatchRuns
  JournalsReadable
PROPERTIES
  OnlyHoldersGiveUp
