SPECIFICATION FairQuorumSpec
CONSTANTS
    s1 = s1
    s2 = s2
    s3 = s3
    Nobody = Nobody
    Subjects = {s1, s2, s3}
    maxAssertions = 3
    delaiVerification = 2
    delaiEvaluation = 4
    delaiAudit = 2
    plafondAudit = 3
    MaxThreshold = 3
INVARIANTS QuorumIsIndependent BudgetsAreKept EventsAreTruthful
PROPERTIES EveryRequestIsAnswered
