CONSTANTS
  r1 = r1
  r2 = r2
  a1 = a1
  None = None
  Regions = {tohoku, kyushu}
  Requests = {r1, r2}
  Runs = {a1}
  MaxFaults = 0
SPECIFICATION Spec
CHECK_DEADLOCK FALSE
SYMMETRY Symmetry
PROPERTIES
  RejectedIsNotProposed
