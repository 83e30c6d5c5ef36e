CONSTANTS
  r1 = r1
  r2 = r2
  None = None
  Facts = {fact}
  Topics = {topic}
  MaxTasks = 3
  Requests = {r1, r2}
  MaxAnalyses = 3
  MaxTravellers = 1
  PendingLimit = 3
  MaxAttempts = 2
  MaxFaults = 2
  Faults = {"timeout", "tool_error", "graph_error", "run_error", "restart"}
SPECIFICATION Spec
CHECK_DEADLOCK FALSE
SYMMETRY Symmetry
INVARIANTS
  TypeOK
  SupersededBySavedRun
  CitedTaskIsAboutTheAnalysis
  OneCurrentRecordPerTask
  CurrentRecordSurvives
PROPERTY KeepsPromise
