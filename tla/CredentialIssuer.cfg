SPECIFICATION FairSpec
CONSTANTS
    c1 = c1
    c2 = c2
    allow1 = allow1
    allow2 = allow2
    deny = deny
    NoDecision = NoDecision
    Calls = {c1, c2}
    Decisions = {allow1, allow2, deny}
    AllowDecisions = {allow1, allow2}
    MaxOrders = 3
    MaxRestarts = 1
INVARIANTS OneLeasePerDecision AllowedHoldsItsLease RecordedWasIssued
 
