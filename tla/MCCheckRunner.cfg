SPECIFICATION Spec
CONSTANTS
    None = None
    Suites = {"CT", "QL", "ENF", "EX", "ES", "RP", "PR", "WF", "DL", "SIG", "AUTH", "ID", "DI", "IB", "AM", "TW", "RS", "SP", "HA", "ET", "CM", "TG", "PA", "AD", "MP", "RC", "CN", "CF", "RD", "PE", "CH", "SB", "PB", "IN", "OB", "EB", "DS", "TB", "TR", "SR"}
    Alphabet <- MCAlphabet
    MaxRows <- MCMaxRows
    Expectations <- MCExpectations
    MaxTranscripts <- MCMaxTranscripts
    Depth <- MCDepth
    BaselineKeys <- MCBaselineKeys
    ProfileCrypto <- MCProfileCrypto
    Bindings <- MCBindings
    Aliases <- MCAliases
INVARIANTS RightsHold LivesHold LineageHolds IdentitiesHold AgreementsHold DeliveriesHold MarkIsEarned
CONSTRAINT Relevant
CHECK_DEADLOCK FALSE
