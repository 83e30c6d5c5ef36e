SPECIFICATION Spec
CONSTANTS
  Places <- MCPlaces
  Km <- MCKm
  Records <- MCRecords
  Connection <- MCConnection
  Requests <- MCRequests
  MaxStops = 6
  MaxRevisionCandidates = 8
  BookingPlaces = 3
  EvidencePlaces = 5
  Budget = 22
  Closed = {"ginzan-onsen"}
  LongLead = {"kyoto"}
  Verifications <- SeedVerifications
  StatusLimit = 40
  EvidenceOf <- MCEvidence
  Queues <- MCQueues
  Blocks <- MCBlocks
  Computed <- MCComputed
  MaxFaults = 1
INVARIANTS
  TypeOK
  BudgetIsEnough
  RevisionKeepsTheTrip
  RevisionImprovesPlainRoutes
  StopsAreAccountedFor
  ConfidentOnlyWhenChecked
  DisputedRoutesWait
