SPECIFICATION Spec
CONSTANTS
    None = None
    Null = Null
    UuidV7 = {"uuid7-a", "uuid7-b"}
    Devices = {"key", "phone"}
    Cose <- MCCose
    FirstCount <- MCFirstCount
    c1 = c1
    c2 = c2
    Challenges = {c1, c2}
    Subjects = {"s1", "over long"}
    AuthorityDomains = {"idp", "prod"}
    EventIds <- MCEventIds
    MaxAnswers = 2
    Start <- MCStart
    MaxTime = 2
    AssertionTtl = 2
SYMMETRY Symmetry
INVARIANTS   AssertionSpeaksForALogin RecoveryTakesDistinctHolders
