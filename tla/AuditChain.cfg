SPECIFICATION FairSpec
CONSTANTS
    c1 = c1
    p1 = p1
    idp = idp
    prod = prod
    Collectors = {c1}
    Providers = {p1}
    Domains = {idp, prod}
    IdpDomain = idp
    MaxSeals = 4
INVARIANTS ChainIntact AcceptedIsRecorded VerifierAccepts
PROPERTIES  ImplementsJournal 
