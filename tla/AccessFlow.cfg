SPECIFICATION FairSpec
CONSTANTS
    NoDecision = NoDecision
    AuthorityDomains <- Domains
    Approvers <- Subjects
    Times <- Instants
    AccessRequests = {1, 2}
    Bodies <- Kinds
    MaxRestarts = 1
INVARIANTS LeaseIsJustified OneLeasePerRequest ResponseIsHonest
 
