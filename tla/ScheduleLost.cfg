SPECIFICATION Spec
CONSTANTS
  w1 = w1
  w2 = w2
  Callers <- TwoWorkers
  RunId <- TwoDue
  Trigger <- TwoDue
  Requests <- OccurrenceRequests
  NoTrigger = NoTrigger
  NoRun = NoRun
  DirectRuns = {}
  Uses = {"admit"}
  Faults = {"crash"}
  MaxEntries = 2
  NoWorker = NoWorker
  Due <- TwoDue
  Policies = {"disabled", "allowed"}
  Misfires = {FALSE}
  MaxPerPoll = 2
  LeaseTime = 1
  MaxTick = 2
  FirstCursors = {0}
  MaxTime = 2
  MaxLeases = 2
  MaxEvents = 3
  MaxTicks = 2
  MaxStates = 3
SYMMETRY Symmetry
INVARIANTS
  NothingLost
