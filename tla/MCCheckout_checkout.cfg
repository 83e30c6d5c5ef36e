CONSTANTS
  Purchases = {p1, p2}
  Requests = {r1, r2}
  Price <- MCPrice
  Production = FALSE
  MaxFaults = 2
  None = None
SPECIFICATION FairSpec
CHECK_DEADLOCK FALSE
INVARIANTS
  TypeOK
  StoredCanBeSettled
PROPERTIES
  KeepsPromise
  PaymentIsRecorded
