---------------------------- MODULE AccessPolicy ----------------------------
(***************************************************************************)
(* The decision of the PDP (zs-policy, pdp.rs) on the Cedar corpus of      *)
(* policies/access: a pure function of the request.  Cedar itself is       *)
(* modelled by its rule of combination: a request is allowed when a permit *)
(* matches it and no forbid does.                                          *)
(***************************************************************************)
EXTENDS Integers

CONSTANTS AuthorityDomains,   \* authority domains
          Approvers,          \* subjects whose approval was verified
          Times               \* instants, in seconds since 1970

ASSUME TimesAssumption == Times \subseteq Int

-----------------------------------------------------------------------------
Aals == {"", "AAL1", "AAL2", "AAL3"}

(* What the decision depends on in a DecisionRequest.  complete: every     *)
(* message and timestamp the translation needs is there.  approvals: the   *)
(* approvers.  The version is empty, the one served, or another.           *)
DecisionRequest ==
    [policy_version   : {"", "served", "other"},
     complete         : BOOLEAN,
     aal              : Aals,
     principal_domain : AuthorityDomains,
     verb             : {"db.connect", "other"},
     resource_type    : {"Database", "other"},
     resource_domain  : AuthorityDomains,
     environment      : {"absent", "production", "staging"},
     ticket_ref       : {"", "ticket"},
     approvals        : SUBSET Approvers,
     requested_at     : Times,
     evaluated_at     : Times]

(* translate: a type that is not Database, a missing attribute or a verb   *)
(* that the schema does not declare is a refusal before any policy.        *)
Translates(q) ==
    /\ q.complete
    /\ q.resource_type = "Database"
    /\ q.environment # "absent"
    /\ q.verb = "db.connect"

(* The age, in seconds, beyond which a device posture is out of date.      *)
PostureWindow == 3600

(* Mutant of DbConnectProduction: the lower bound of the window is gone.   *)
DbConnectFuturePosture(q) ==
    /\ q.environment = "production"
    /\ q.principal_domain = q.resource_domain
    /\ q.aal = "AAL3"
    /\ q.ticket_ref # ""
    /\ q.approvals # {}
    /\ q.requested_at - q.evaluated_at <= PostureWindow

(* db_connect.cedar: the only permit.                                      *)
DbConnectProduction(q) ==
    /\ q.environment = "production"
    /\ q.principal_domain = q.resource_domain
    /\ q.aal = "AAL3"
    /\ q.ticket_ref # ""
    /\ q.approvals # {}
    /\ q.evaluated_at <= q.requested_at
    /\ q.requested_at - q.evaluated_at <= PostureWindow

(* Mutant of RequiresTicketAndApproval: either of them is enough.          *)
RequiresTicketOrApproval(q) ==
    /\ q.environment = "production"
    /\ ~(q.ticket_ref # "" \/ q.approvals # {})

(* db_connect_guardrails.cedar: three forbids.                             *)
RequiresAal3(q) == q.environment = "production" /\ q.aal # "AAL3"
DomainIsolation(q) == q.principal_domain # q.resource_domain
RequiresTicketAndApproval(q) ==
    /\ q.environment = "production"
    /\ ~(q.ticket_ref # "" /\ q.approvals # {})

Permits(q) == IF DbConnectProduction(q) THEN {"db-connect-production"} ELSE {}

Forbids(q) ==
    {g \in {"guardrail-production-requires-aal3",
            "guardrail-authority-domain-isolation",
            "guardrail-production-requires-ticket-and-approval"} :
        \/ g = "guardrail-production-requires-aal3" /\ RequiresAal3(q)
        \/ g = "guardrail-authority-domain-isolation" /\ DomainIsolation(q)
        \/ /\ g = "guardrail-production-requires-ticket-and-approval"
           /\ RequiresTicketAndApproval(q)}

(* Cedar's is_authorized, with the policies that determine its answer.     *)
IsAuthorized(permits, forbids) ==
    IF permits # {} /\ forbids = {}
    THEN [effect |-> "ALLOW", reasons |-> permits]
    ELSE [effect |-> "DENY", reasons |-> forbids]

(* Pdp::decide on a corpus with the permits of "permits": another version  *)
(* than the one served is never honoured.                                  *)
DecideWith(q, permits) ==
    IF q.policy_version \notin {"", "served"}
    THEN [effect |-> "DENY", reasons |-> {"policy_version_indisponible"}]
    ELSE IF ~Translates(q)
    THEN [effect |-> "DENY", reasons |-> {"translation"}]
    ELSE IsAuthorized(permits, Forbids(q))

decide(q) == DecideWith(q, Permits(q))
=============================================================================
