SPECIFICATION Spec
CONSTANTS
    r1 = r1
    ch1 = ch1
    ch2 = ch2
    cred1 = cred1
    Requests = {r1}
    Challenges = {ch1, ch2}
    Credentials = {cred1}
    Earlier = {}
    MaxCount = 1
INVARIANTS CounterlessIsNotSuspected
