---------------------------- MODULE PolicyEngine ----------------------------
(***************************************************************************)
(* policy-engine (apps/policy-engine/src/lib.rs): decide evaluates the     *)
(* policy, reads the clock and has the decision sealed by the HSM in a     *)
(* blocking task; verify_decision rebuilds, from the fields of a decision  *)
(* it is handed, the message that was sealed.                              *)
(*                                                                         *)
(* A seal is its message: nothing else has that seal, and only the HSM     *)
(* makes one.  decision_hash is the request it is the hash of.             *)
(***************************************************************************)
EXTENDS AccessPolicy, CivilCalendar

CONSTANTS Calls,       \* decide requests handled concurrently
          Queries,     \* the DecisionRequests received
          Clock,       \* the instants the clock of the service may show
          Foreign      \* other instants a presented decision may carry

ASSUME EngineAssumption ==
    /\ Queries \subseteq DecisionRequest
    /\ Clock \subseteq Instant
    /\ Foreign \subseteq Instant

VARIABLES now,         \* the clock of the service
          call,        \* call[c]: idle, or waiting for the HSM
          pending,     \* pending[c]: the decision of c, not sealed yet
          fields,      \* fields[c]: the DecisionFields the HSM was given
          answered,    \* the decisions that decide has answered
          verdict      \* the last decision presented to verify_decision

engine == <<now, call, pending, fields, answered, verdict>>

-----------------------------------------------------------------------------
NoInstant == [days |-> 0, second_of_day |-> -1]
NoSeal == [decision_hash |-> "none"]
NoResponse == [effect |-> "none"]

(* Mutant of decision_fields: only the hash of the request is sealed.      *)
FieldsWithoutEffect(r, issued_at) ==
    [decision_hash |-> r.decision_hash, effect_allow |-> TRUE,
     reasons |-> r.reasons, issued_at |-> issued_at]

decision_fields(r, issued_at) ==
    [decision_hash |-> r.decision_hash, effect_allow |-> r.effect = "ALLOW",
     reasons |-> r.reasons, issued_at |-> issued_at]

(* The DecisionResponse of Pdp::decide, before it is sealed.               *)
Unsealed(q) ==
    [effect |-> decide(q).effect, reasons |-> decide(q).reasons,
     decision_hash |-> q, issued_at |-> NoInstant, decision_signature |-> NoSeal]

Fields(q, t) == decision_fields(Unsealed(q), rfc3339_from_seconds(t))

EngineInit ==
    /\ now \in Clock
    /\ call = [c \in Calls |-> "idle"]
    /\ pending = [c \in Calls |-> NoResponse]
    /\ fields = [c \in Calls |-> NoSeal]
    /\ answered = {}
    /\ verdict = [decision |-> NoResponse, valid |-> FALSE]

(* The clock of the system moves, forward or back.                         *)
Tick ==
    /\ now' \in Clock \ {now}
    /\ UNCHANGED <<call, pending, fields, answered, verdict>>

(* decide up to the call to the HSM.  At an instant that has no RFC 3339   *)
(* text it answers an internal error, and nothing is given to the HSM.     *)
Evaluate(c) ==
    /\ call[c] = "idle"
    /\ ValidTimestamp(rfc3339_from_seconds(now))
    /\ \E q \in Queries :
          /\ pending' = [pending EXCEPT ![c] = Unsealed(q)]
          /\ fields' = [fields EXCEPT ![c] = Fields(q, now)]
    /\ call' = [call EXCEPT ![c] = "seal"]
    /\ UNCHANGED <<now, answered, verdict>>

Return(c) ==
    /\ call' = [call EXCEPT ![c] = "idle"]
    /\ pending' = [pending EXCEPT ![c] = NoResponse]
    /\ fields' = [fields EXCEPT ![c] = NoSeal]
    /\ UNCHANGED <<now, verdict>>

(* Mutant of IssuedAt: the clock is read a second time.                    *)
IssuedAtNow(f) == now

(* The seconds sent are computed back from the text that was sealed.       *)
IssuedAt(f) == request_time_from_rfc3339(f.issued_at)

Signed(r, f) ==
    [effect |-> r.effect, reasons |-> r.reasons,
     decision_hash |-> r.decision_hash, issued_at |-> IssuedAt(f),
     decision_signature |-> f]

Sealed(c) ==
    /\ call[c] = "seal"
    /\ answered' = answered \cup {Signed(pending[c], fields[c])}
    /\ Return(c)

(* The HSM is unavailable, or the task is interrupted: an error, never a   *)
(* decision without a seal.                                                *)
SealUnavailable(c) ==
    /\ call[c] = "seal"
    /\ Return(c)
    /\ UNCHANGED answered

(* The signed decisions a caller of verify_decision may hold: an answer,   *)
(* as it is or with a field that is not the one answered.                  *)
Presented ==
    LET Altered(d) ==
           {d} \cup {[d EXCEPT !.effect = e] : e \in {"ALLOW", "DENY"}}
               \cup {[d EXCEPT !.issued_at = t] : t \in Clock \cup Foreign
                                                            \cup {NoInstant}}
               \cup {[d EXCEPT !.decision_hash = q] : q \in Queries}
               \cup {[d EXCEPT !.decision_signature = NoSeal]}
    IN  UNION {Altered(d) : d \in answered}

(* verify_decision: a decision without an instant, or with one that has no *)
(* RFC 3339 text, is refused before its seal is looked at.                 *)
verify_decision(d) ==
    /\ d.issued_at # NoInstant
    /\ ValidTimestamp(rfc3339_from_seconds(d.issued_at))
    /\ d.decision_signature # NoSeal
    /\ decision_fields(d, rfc3339_from_seconds(d.issued_at))
          = d.decision_signature

VerifyDecision(d) ==
    /\ verdict' = [decision |-> d, valid |-> verify_decision(d)]
    /\ UNCHANGED <<now, call, pending, fields, answered>>

EngineNext ==
    \/ Tick
    \/ \E c \in Calls : Evaluate(c) \/ Sealed(c) \/ SealUnavailable(c)
    \/ \E d \in Presented : VerifyDecision(d)

EngineSpec == EngineInit /\ [][EngineNext]_engine

-----------------------------------------------------------------------------
(* What decide answers, verify_decision accepts, whatever the clock does   *)
(* between the text that is sealed and the seconds that are sent: the text *)
(* rebuilt from the seconds is the text sealed (lib.rs:221-223).           *)
AnswersVerify == \A d \in answered : verify_decision(d)

(* A decision that verify_decision accepts as an ALLOW is one the policy   *)
(* allows for the request of its hash, at the instant it carries: no field *)
(* can be exchanged under the seal (decision_seal.rs:20-23).               *)
VerifiedWasDecided ==
    verdict.valid =>
        \E d \in answered :
            /\ d.decision_hash = verdict.decision.decision_hash
            /\ d.effect = verdict.decision.effect
            /\ d.issued_at = verdict.decision.issued_at

(* db_connect.cedar:1-5: a request is allowed exactly when it is about a   *)
(* production database of the domain of its principal, AAL3, with a ticket *)
(* and an approval, on a posture not older than an hour and not in the     *)
(* future; and it is refused under another version of the policy.          *)
RequestIsJustified(q) ==
    /\ q.aal = "AAL3"
    /\ q.verb = "db.connect" /\ q.resource_type = "Database"
    /\ q.environment = "production"
    /\ q.principal_domain = q.resource_domain
    /\ q.ticket_ref = "ticket"
    /\ \E a \in q.approvals : TRUE
    /\ q.requested_at \in q.evaluated_at .. (q.evaluated_at + PostureWindow)
    /\ q.complete
    /\ q.policy_version # "other"

AllowIsJustified ==
    \A c \in Calls : call[c] = "seal" =>
        (pending[c].effect = "ALLOW"
            <=> RequestIsJustified(pending[c].decision_hash))

(* db_connect_guardrails.cedar:1-4: were a permit that matches every       *)
(* request added to the corpus, production would still take AAL3, the      *)
(* domain of the principal, a ticket and an approval, and no environment   *)
(* of another domain would open.                                           *)
GuardrailsHold ==
    \A c \in Calls : call[c] = "seal" =>
        LET q == pending[c].decision_hash
        IN  DecideWith(q, Permits(q) \cup {"future"}).effect = "ALLOW" =>
               /\ q.principal_domain = q.resource_domain
               /\ q.environment = "production" =>
                     /\ q.aal = "AAL3"
                     /\ q.ticket_ref = "ticket"
                     /\ q.approvals # {}
=============================================================================
