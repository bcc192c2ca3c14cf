SPECIFICATION EngineSpec
CONSTANTS
    c1 = c1
    c2 = c2
    Calls = {c1, c2}
    AuthorityDomains <- Domains
    Approvers <- OneApprover
    Times <- Instants
    Queries <- Sample
    Clock <- LeapDay
    Foreign <- OutOfRange
SYMMETRY Interchangeable
INVARIANTS AnswersVerify   GuardrailsHold
