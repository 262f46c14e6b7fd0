CONSTANTS
  A = A
  B = B
  C = C
  main = main
  side = side
  c1 = c1
  c2 = c2
  s1 = s1
  s2 = s2
  None = None
  Ids <- MCIds
  Hashes <- MCHashes
  Versions <- MCVersions
  Branches <- MCBranches
  ContractIds <- MCContractIds
  Sessions <- MCSessions
  Messages <- MCMessages
SPECIFICATION Spec
INVARIANTS
  TypeOK
  OneInitialAgreement
  OneBranch
  AcceptedFollowAgreement
  CandidatesFollowAgreement
  HeadHasEvidence
  StateIsObservable
PROPERTY
  KeepsPromise
