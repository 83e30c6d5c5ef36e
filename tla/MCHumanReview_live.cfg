CONSTANTS
  r1 = r1
  r2 = r2
  None = None
  Facts = {fact}
  Topics = {}
  MaxTasks = 4
  Requests = {r1}
  MaxAnalyses = 4
  MaxTravellers = 2
  PendingLimit = 4
  MaxAttempts = 2
  MaxFaults = 1
  Faults = {"timeout", "graph_error"}
SPECIFICATION FairSpec
CHECK_DEADLOCK FALSE
INVARIANTS
  RerunNeverBlocksOnItsTask
PROPERTIES
  EveryBlockedAnalysisIsReleased
  StartedAnalysisIsAnswered
