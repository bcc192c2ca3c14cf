SPECIFICATION AuditorSpec
CONSTANTS
    None = None
    Null = Null
    UuidV7 = {"uuid7-a", "uuid7-b"}
    MAX_BYTES = 54
    MAX_REASONS = 2
    MAX_SAFE_INTEGER = 3
    Bytes <- MCBytes
    SealRequests <- MCRequests
    Another <- MCAnother
    ExpectedDomain = "idp"
    SealerKey = "audit"
    PublishedKeys <- MCPublishedKeys
    idp = idp
    prod = prod
    ExportDomains = {idp, prod}
    MaxSequence = 2
    MaxBytes = 2
    MaxEntries = 4
INVARIANTS SealedIsVerifiable VerifiedWasSealed VerdictIsExact
