SPECIFICATION FairSpec
CONSTANTS
    r1 = r1
    r2 = r2
    ch1 = ch1
    ch2 = ch2
    cred1 = cred1
    Requests = {r1, r2}
    Challenges = {ch1, ch2}
    Credentials = {cred1}
    Earlier = {1}
    MaxCount = 2
INVARIANTS OneAssertionPerChallenge CountersAreNotReplayed AnswersAreAudited
PROPERTIES AuthenticatorsOnlyAdvance 
