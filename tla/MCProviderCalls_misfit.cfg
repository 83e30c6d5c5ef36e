CONSTANTS
  Callers = {c1}
  MaxAttempts = 2
  Threshold = 2
  RowSets <- MCRowSets
  Distances <- MCDistances
  Matches = {0}
  LiveMinutes = {50}
  MaxRepairs = 1
  Settings = {"demo_behind", "same_vendor"}
SPECIFICATION MCSpec
CHECK_DEADLOCK FALSE
INVARIANT MisfitIsRepaired
