CONSTANTS
  A = A
  B = B
  C = C
  main = main
  c1 = c1
  s1 = s1
  s2 = s2
  None = None
  Ids <- MCIds
  Hashes <- MCHashes
  Versions <- MCVersions
  Branches <- MCBranches
  ContractIds <- MCContractIds
  Sessions <- MCSessions
  Messages <- MCMessages
  MaxRows = 4
  MaxDefects = 1
  MaxBlankLines = 0
  Results <- IutResults
  PipeLines = 2
  ChunkLines = 2
  Limit <- MCLimit
  MaxLines <- MCMaxLines
  Vectors = 0
  Producers <- MCProducers
  Consumers <- MCConsumers
  Artifacts = {"a"}
  Valid = {"a"}
  Metadata <- MCMetadata
  MaxFaults = 2
SPECIFICATION ToolsSpec
INVARIANTS
  RunnerTypeOK
  IndexesAgree
  EvidenceSurvives
  SessionsAgree
  MarkIsBacked
  EligibleIsHonest
PROPERTIES
  InvalidNeverAdvances
  InvocationEnds
CHECK_DEADLOCK FALSE
