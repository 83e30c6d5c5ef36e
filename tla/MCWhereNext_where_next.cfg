SPECIFICATION Spec
CONSTANTS
  Regions <- MCRegions
  Corpus <- MCCorpus
  NearDuplicates <- MCNearDuplicates
  CandidateK = 3
  RrfK = 5
  DenseWeight = 50
  Budget = 19
  Queues <- MCQueues
  MaxFaults = 1
  Requests <- MCRequests
  Tables <- MCTables
  MaxExplained = 4
  EvidenceLimit = 3
  SearchBudget = 200
  ContextBudget = 300
  MinEvidence = 2
  Strategies = {"hybrid", "hybrid_rerank", "vector", "keyword"}
  Listed <- MCListed
  Sentences <- MCSentences
  Computed <- MCComputed
  ToolFacts <- MCToolFacts
INVARIANTS
  TypeOK
  RuledOutStaysOut
  HeldForAReason
  ConfidentOnlyWithEvidence
  EvidenceFitsTheTrip
  LongerStaysKeepTheirRegions
