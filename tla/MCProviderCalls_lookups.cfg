CONSTANTS
  Callers = {c1, c2}
  MaxAttempts = 2
  Threshold = 2
  RowSets <- MCRowSets
  Distances <- MCDistances
  Matches = {0, 80, 90}
  LiveMinutes = {50, 200}
  MaxRepairs = 1
  Settings = {"demo", "demo_behind", "same_vendor", "other_vendor"}
SPECIFICATION MCSpec
CHECK_DEADLOCK FALSE
INVARIANTS
  ModelTypeOK
  LocalKnowledgeWins
  CachedRouteSuitsAll
  ClosedBelowThreshold
  StandInNeverFails
PROPERTY
  EveryLookUpIsAnswered
