CONSTANTS
  a = a
  b = b
  a1 = a1
  a2 = a2
  b1 = b1
  da1 = da1
  da2 = da2
  da3 = da3
  db1 = db1
  db2 = db2
  dfor = dfor
  plain = plain
  signed = signed
  x = x
  y = y
  n1 = n1
  n2 = n2
  n3 = n3
  None = None
  Negotiations = {n1, n2, n3}
  Parties <- MCParties
  CapabilitiesIds <- MCCapabilitiesIds
  DeclarationIds <- MCDeclarationIds
  Compositions <- MCCompositions
  Authenticated <- MCAuthenticated
  Contexts = {x, y}
  CryptoAvailable = TRUE
  MaxRevision = 1
  Declarations <- FirstDeclarations
  Results <- Lineage
SPECIFICATION Spec
INVARIANTS TypeOK AtMostOneRoot SupersededByConsent ReplayIsSafe
PROPERTY ContractsBindTheRoot
