CONSTANTS
  r1 = r1
  r2 = r2
  None = None
  Facts = {fact}
  Topics = {topic}
  MaxTasks = 2
  Requests = {r1}
  MaxAnalyses = 2
  MaxTravellers = 1
  PendingLimit = 2
  MaxAttempts = 2
  MaxFaults = 0
  Faults = {}
SPECIFICATION Spec
CHECK_DEADLOCK FALSE
INVARIANT NoAnalysisWaitsOnClosedTask
