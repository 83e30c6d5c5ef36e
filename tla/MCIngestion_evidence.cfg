CONSTANTS
  empty = empty
  short = short
  long = long
  None = None
  Urls = {page}
  Contents = {empty, short, long}
  ChunkCount <- MCChunkCount
  Ingests = {doc, i1, i2}
  Seeds = {doc}
  Loop = loop
  Retries = {retry}
  BatchLimit = 2
  Facts = {fact}
  MaxFaults = 1
SPECIFICATION FairSpec
CHECK_DEADLOCK FALSE
INVARIANTS
  TypeOK
  EvidenceIsWhole
PROPERTIES
  ActivatedWithVectors
  VectorsArrive
