----------------------------- MODULE AccessFlow -----------------------------
(***************************************************************************)
(* A request for access from end to end: CreateAccessRequest of            *)
(* access-broker (httpapi/handler.go) and Decide (broker.go), the decision *)
(* of the PDP (AccessPolicy), and credential-issuer with OpenBao           *)
(* (CredentialIssuer), to which the broker sends the orders.               *)
(*                                                                         *)
(* The broker awaits one answer at a time: the verification of the         *)
(* requester, of each approval, the PDP, audit-collector, and Emit.  Both  *)
(* services may stop between any two of these.                             *)
(***************************************************************************)
EXTENDS AccessPolicy, FiniteSets, Sequences

CONSTANTS AccessRequests,   \* the requests submitted, by request_id
          Bodies,           \* what a request may say
          MaxRestarts,      \* bound on the restarts of credential-issuer
          NoDecision        \* the absence of a decision

VARIABLES pc, order, held, reply, orders, epoch, consumed, minted, leases,
          late, revoked, recorded     \* those of CredentialIssuer

VARIABLES body,         \* body[r]: what the request r says
          step,         \* step[r]: the next call of the handler of r
          signed,       \* signed[r]: the decision the PDP sealed
          decided,      \* decisions whose policy.decided is in the journal
          response      \* response[r]: the HTTP answer

broker == <<body, step, signed, decided, response>>
issuer == <<pc, order, held, reply, orders, epoch, consumed, minted, leases,
            late, revoked, recorded>>
vars == <<broker, issuer>>

-----------------------------------------------------------------------------
(* A body, with what identity-provider answers about its assertions and    *)
(* the instant at which the broker handles it.  An absent posture is one   *)
(* evaluated at Go's zero time.                                            *)
AccessRequest ==
    [valid : BOOLEAN, aal : Aals,
     short : BOOLEAN,        \* the justification is not too long
     filled : BOOLEAN,       \* no required field is empty
     approvals : Seq([approver : Approvers, valid : BOOLEAN]),
     domain : AuthorityDomains, verb : {"db.connect", "other"},
     resource_type : {"Database", "other"},
     resource_domain : AuthorityDomains,
     environment : {"absent", "production", "staging"},
     ticket_ref : {"", "ticket"}, requested_at : Times, evaluated_at : Times]

ASSUME FlowAssumption ==
    /\ Bodies \subseteq AccessRequest
    /\ IsFiniteSet(AccessRequests)
    /\ MaxRestarts \in Nat

(* The sealed decision of the PDP, bound to the request by decision_hash.  *)
Decision == [request : AccessRequests, approvals : SUBSET Approvers,
             effect : {"ALLOW", "DENY"}]

Issuer == INSTANCE CredentialIssuer WITH
             Calls <- AccessRequests,
             Decisions <- Decision,
             AllowDecisions <- {d \in Decision : d.effect = "ALLOW"},
             MaxOrders <- Cardinality(AccessRequests)

Refused(status) == [status |-> status]
Answered(allowed, lease) ==
    [status |-> "ok", allowed |-> allowed, lease |-> lease]

Init ==
    /\ Issuer!Init
    /\ body \in [AccessRequests -> Bodies]
    /\ step = [r \in AccessRequests |-> "new"]
    /\ signed = [r \in AccessRequests |-> NoDecision]
    /\ decided = {}
    /\ response = [r \in AccessRequests |-> Refused("none")]

Goto(r, s) ==
    /\ step' = [step EXCEPT ![r] = s]
    /\ UNCHANGED response

Finish(r, answer) ==
    /\ step' = [step EXCEPT ![r] = "done"]
    /\ response' = [response EXCEPT ![r] = answer]

Denied(r) == Finish(r, Answered(FALSE, Issuer!NoLease))

-----------------------------------------------------------------------------
Submit(r) ==
    /\ step[r] = "new"
    /\ Goto(r, "requester")
    /\ UNCHANGED <<body, signed, decided, issuer>>

(* A body that does not parse.                                             *)
Malformed(r) ==
    /\ step[r] = "new"
    /\ Finish(r, Refused("bad_request"))
    /\ UNCHANGED <<body, signed, decided, issuer>>

(* The requester is who its assertion says, never who the body says; then  *)
(* the checks that need no other service.                                  *)
VerifyRequester(r) ==
    /\ step[r] = "requester"
    /\ \/ ~body[r].valid /\ Finish(r, Refused("unauthorized"))
       \/ body[r].valid /\ ~(body[r].short /\ body[r].filled) /\ Denied(r)
       \/ body[r].valid /\ body[r].short /\ body[r].filled /\ Goto(r, "approvals")
    /\ UNCHANGED <<body, signed, decided, issuer>>

(* Mutant of Counted: an invalid approval is counted.                      *)
EveryApproval(r, n) == {body[r].approvals[k].approver : k \in 1 .. n}

(* The approvers of the first n approvals that are counted.                *)
Counted(r, n) ==
    {body[r].approvals[k].approver :
        k \in {i \in 1 .. n : body[r].approvals[i].valid}}

(* The approvals are verified one after the other, and all of them unless  *)
(* a call fails (CallFails); no state of another service depends on it.    *)
VerifyApprovals(r) == Counted(r, Len(body[r].approvals))

ToDecide(r, approvers) ==
    [policy_version |-> "", complete |-> TRUE, aal |-> body[r].aal,
     principal_domain |-> body[r].domain, verb |-> body[r].verb,
     resource_type |-> body[r].resource_type,
     resource_domain |-> body[r].resource_domain,
     environment |-> body[r].environment, ticket_ref |-> body[r].ticket_ref,
     approvals |-> approvers, requested_at |-> body[r].requested_at,
     evaluated_at |-> body[r].evaluated_at]

(* No verified approval: a refusal without the PDP.  Otherwise the PDP     *)
(* decides and seals.                                                      *)
Decide(r) ==
    /\ step[r] = "approvals"
    /\ IF VerifyApprovals(r) = {}
       THEN Denied(r) /\ UNCHANGED signed
       ELSE /\ signed' = [signed EXCEPT ![r] =
                   [request |-> r, approvals |-> VerifyApprovals(r),
                    effect |-> decide(ToDecide(r, VerifyApprovals(r))).effect]]
            /\ Goto(r, "record")
    /\ UNCHANGED <<body, decided, issuer>>

(* Mutant of CallFails: the handler starts again.                          *)
CallFailsRetries(r) ==
    /\ step[r] \in {"requester", "approvals"}
    /\ Goto(r, "requester")
    /\ UNCHANGED <<body, signed, decided, issuer>>

(* A call to identity-provider or to the PDP fails: 502.                   *)
CallFails(r) ==
    /\ step[r] \in {"requester", "approvals"}
    /\ Finish(r, Refused("bad_gateway"))
    /\ UNCHANGED <<body, signed, decided, issuer>>

(* recordPolicyDecided is best effort; only an ALLOW goes on to an order.  *)
AfterRecord(r) ==
    IF signed[r].effect = "ALLOW" THEN Goto(r, "emit") ELSE Denied(r)

RecordDecided(r) ==
    /\ step[r] = "record"
    /\ decided' = decided \cup {signed[r]}
    /\ AfterRecord(r)
    /\ UNCHANGED <<body, signed, issuer>>

RecordDecidedFails(r) ==
    /\ step[r] = "record"
    /\ AfterRecord(r)
    /\ UNCHANGED <<body, signed, decided, issuer>>

(* The order reaches credential-issuer, with the decision as it was sealed *)
(* and the verb of the body.                                               *)
EmitOrder(r) ==
    /\ step[r] = "emit"
    /\ order' = [order EXCEPT ![r] = [decision |-> signed[r], authentic |-> TRUE,
                                      verb |-> body[r].verb]]
    /\ Issuer!Emit(r)
    /\ Goto(r, "await")
    /\ UNCHANGED <<body, signed, decided>>

(* credential-issuer has answered: a lease, or a refusal or an error that  *)
(* leaves the request allowed without one.                                 *)
EmitAnswered(r) ==
    /\ step[r] = "await"
    /\ pc[r] = "idle"
    /\ reply[r].status # "none"
    /\ Finish(r, Answered(TRUE, IF reply[r].status = "allowed"
                                THEN reply[r].lease ELSE Issuer!NoLease))
    /\ UNCHANGED <<body, signed, decided, issuer>>

(* Mutants of EmitLost: the order is sent again; the request is answered   *)
(* as refused.                                                             *)
EmitRetried(r) ==
    /\ step[r] = "await"
    /\ pc[r] = "idle"
    /\ Goto(r, "emit")
    /\ UNCHANGED <<body, signed, decided, issuer>>

EmitLostRefused(r) ==
    /\ step[r] \in {"emit", "await"}
    /\ Denied(r)
    /\ UNCHANGED <<body, signed, decided, issuer>>

(* The call to Emit fails, before or after the order was received.         *)
EmitLost(r) ==
    /\ step[r] \in {"emit", "await"}
    /\ Finish(r, Answered(TRUE, Issuer!NoLease))
    /\ UNCHANGED <<body, signed, decided, issuer>>

(* access-broker stops: the requests it was handling have no answer.       *)
BrokerStops ==
    /\ \E r \in AccessRequests : step[r] \notin {"new", "done"}
    /\ LET Open == {r \in AccessRequests : step[r] \notin {"new", "done"}}
       IN  /\ step' = [r \in AccessRequests |->
                          IF r \in Open THEN "done" ELSE step[r]]
           /\ response' = [r \in AccessRequests |->
                              IF r \in Open THEN Refused("lost") ELSE response[r]]
    /\ UNCHANGED <<body, signed, decided, issuer>>

(* What credential-issuer and OpenBao do by themselves.                    *)
IssuerWorks(r) == Issuer!Step(r) /\ UNCHANGED broker
OpenBaoLate == (Issuer!LateLease \/ Issuer!LateDropped) /\ UNCHANGED broker
IssuerRestarts == Issuer!Restart /\ UNCHANGED broker

Handle(r) ==
    \/ VerifyRequester(r)
    \/ Decide(r)
    \/ CallFails(r)
    \/ RecordDecided(r)
    \/ RecordDecidedFails(r)
    \/ EmitOrder(r)
    \/ EmitAnswered(r)
    \/ EmitLost(r)

AllDone ==
    /\ \A r \in AccessRequests : step[r] = "done"
    /\ UNCHANGED vars

Next ==
    \/ \E r \in AccessRequests :
          Submit(r) \/ Malformed(r) \/ Handle(r) \/ IssuerWorks(r)
    \/ BrokerStops
    \/ OpenBaoLate
    \/ IssuerRestarts
    \/ AllDone

Spec == Init /\ [][Next]_vars

(* Every call ends, by an answer or by the failure of its connection.      *)
FairSpec ==
    /\ Spec
    /\ \A r \in AccessRequests : WF_vars(Handle(r)) /\ WF_vars(IssuerWorks(r))

-----------------------------------------------------------------------------
(* What a body must say for its request to be worth a lease.               *)
PostureIsFresh(b) ==
    b.requested_at \in b.evaluated_at .. (b.evaluated_at + 3600)
Justifies(b) ==
    /\ b.valid /\ b.aal = "AAL3" /\ b.short
    /\ b.domain = b.resource_domain
    /\ b.environment = "production" /\ b.ticket_ref # ""
    /\ PostureIsFresh(b)
    /\ \E k \in DOMAIN b.approvals : b.approvals[k].valid

(* No lease exists, late ones included, unless the requester was           *)
(* authenticated at AAL3 for the domain of the production database, had a  *)
(* ticket and a fresh posture, and an approval was verified: nothing       *)
(* between the body and OpenBao widens what the policy says.               *)
LeaseIsJustified == \A l \in leases : Justifies(body[l.decision.request])

(* A request obtains at most one lease, restarts of credential-issuer that *)
(* forget what was consumed included: the broker sends an order once.      *)
OneLeasePerRequest ==
    \A l, m \in leases : l.decision.request = m.decision.request => l = m

(* The answer can be relied on: a lease it names is the lease of this      *)
(* request, and a request answered as refused has none, now or later.      *)
ResponseIsHonest ==
    \A r \in AccessRequests : response[r].status = "ok" =>
        /\ response[r].lease # Issuer!NoLease =>
              /\ response[r].allowed
              /\ response[r].lease \in leases
              /\ response[r].lease.decision.request = r
        /\ ~response[r].allowed =>
              /\ \A l \in leases : l.decision.request # r
              /\ \A q \in late : q.decision.request # r

(* Every request submitted is answered, unless the broker stops.           *)
EveryAccessRequestEnds ==
    \A r \in AccessRequests : step[r] = "requester" ~> step[r] = "done"
=============================================================================
