CONSTANTS
  A = A
  B = B
  C = C
  main = main
  c1 = c1
  s1 = s1
  s2 = s2
  None = None
  Ids <- MCIds
  Hashes <- MCHashes
  Versions <- MCVersions
  Branches <- MCBranches
  ContractIds <- MCContractIds
  Sessions <- MCSessions
  Messages <- MCMessages
  MaxRows = 4
  MaxDefects = 1
  MaxBlankLines = 1
SPECIFICATION RunnerSpec
PROPERTY
  InvalidNeverAdvances
CHECK_DEADLOCK FALSE
