------------------------------ MODULE AuditSeal ------------------------------
(***************************************************************************)
(* Sealing and verification of one audit event: audit-sealer               *)
(* (apps/audit-sealer/src/lib.rs), which translates the request of         *)
(* audit-collector, and the suite audit-seal/v1 (zs-crypto, audit_seal.rs) *)
(* that seals its fields and verifies the sealed bytes.                    *)
(***************************************************************************)
EXTENDS SealedDocument, CivilCalendar

CONSTANTS MAX_BYTES,        \* bound on a sealed event, in units of ObjectSize
          MAX_REASONS,      \* bound on the reasons of a decision
          MAX_SAFE_INTEGER  \* the greatest sequence

ASSUME SealAssumption == {MAX_BYTES, MAX_REASONS, MAX_SAFE_INTEGER} \subseteq Nat

SUITE_V1 == "audit-seal/v1"
DOMAIN_PREFIX_V1 == "zero-secret/audit-seal/v1"

-----------------------------------------------------------------------------
(* The enumerations and their names in the contract; audit-sealer carries  *)
(* a copy of each table.                                                   *)
EventType ==
    [AuthenticatorRegistered |-> "authenticator.registered",
     AuthenticatorRevoked    |-> "authenticator.revoked",
     AuthenticationAttempted |-> "authentication.attempted",
     AuthenticationSucceeded |-> "authentication.succeeded",
     AuthenticationFailed    |-> "authentication.failed",
     RecoveryInitiated       |-> "recovery.initiated",
     QuorumOperation         |-> "quorum.operation",
     AuditChainVerified      |-> "audit.chain_verified",
     PolicyDecided           |-> "policy.decided",
     CredentialIssued        |-> "credential.issued"]
ActorKind == [Human |-> "human", Workload |-> "workload", System |-> "system"]
Outcome == [Success |-> "success", Denied |-> "denied", Error |-> "error"]
AssuranceLevel == [Aal1 |-> "AAL1", Aal2 |-> "AAL2", Aal3 |-> "AAL3"]

as_contract_str(table, variant) == table[variant]
from_contract_str(table, text) ==
    IF \E v \in DOMAIN table : table[v] = text
    THEN CHOOSE v \in DOMAIN table : table[v] = text
    ELSE None

requires_decision(event_type) == event_type \in {"PolicyDecided", "CredentialIssued"}

-----------------------------------------------------------------------------
(* audit-sealer: a request field that does not convert refuses the whole   *)
(* request; an optional one that is absent stays absent.                   *)
OptionalText(option) == option # None => bounded_ascii_string(option)

(* Mutant of ActorIsValid: a level that is not recognised is dropped.      *)
UnknownLevelIsDropped(actor) ==
    /\ from_contract_str(ActorKind, actor.kind) # None
    /\ OptionalText(actor.auth_method)
    /\ bounded_ascii_string(actor.subject_id)

ActorIsValid(actor) ==
    /\ from_contract_str(ActorKind, actor.kind) # None
    /\ actor.aal # None => from_contract_str(AssuranceLevel, actor.aal) # None
    /\ OptionalText(actor.auth_method)
    /\ bounded_ascii_string(actor.subject_id)

actor_from_proto(actor) ==
    [actor EXCEPT !.kind = from_contract_str(ActorKind, @),
                  !.aal = Map(@, LAMBDA s : from_contract_str(AssuranceLevel, s))]

TargetIsValid(target) ==
    bounded_ascii_string(target.type) /\ bounded_ascii_string(target.id)

ContextIsValid(context) ==
    /\ OptionalText(context.source_network)
    /\ OptionalText(context.ticket_ref)
    /\ OptionalText(context.justification)

DecisionIsValid(decision) ==
    /\ Is32(decision.decision_hash)
    /\ \A i \in DOMAIN decision.reasons :
          bounded_ascii_string(decision.reasons[i])
    /\ RequestId(decision.request_id)
    /\ bounded_ascii_string(decision.policy_version)
    /\ OptionalText(decision.decision_signature_key_id)

RequestIsValid(req) ==
    /\ from_contract_str(EventType, req.event_type) # None
    /\ from_contract_str(Outcome, req.outcome) # None
    /\ Is32(req.prev_hash)
    /\ req.occurred_at # None
    /\ req.actor # None /\ ActorIsValid(req.actor)
    /\ req.target # None => TargetIsValid(req.target)
    /\ req.context # None => ContextIsValid(req.context)
    /\ req.decision # None => DecisionIsValid(req.decision)
    /\ EventId(req.event_id)
    /\ req.sequence <= MAX_SAFE_INTEGER
    /\ ValidTimestamp(rfc3339_from_seconds(req.occurred_at))
    /\ bounded_ascii_string(req.authority_domain)

fields_from_request(req) ==
    [req EXCEPT !.event_type = from_contract_str(EventType, @),
                !.outcome = from_contract_str(Outcome, @),
                !.occurred_at = rfc3339_from_seconds(@),
                !.actor = actor_from_proto(@)]

-----------------------------------------------------------------------------
(* The document: optional members that are None are left out, at both      *)
(* levels.                                                                 *)
actor_value(actor) ==
    Present([actor EXCEPT
                !.kind = as_contract_str(ActorKind, @),
                !.aal = Map(@, LAMBDA v : as_contract_str(AssuranceLevel, v))])

decision_value(decision) ==
    Present([decision EXCEPT !.decision_hash = hex_encode(@),
                             !.decision_signature = Map(@, hex_encode)])

unsigned_document(fields) ==
    Present([schema_version   |-> 1,
             event_id         |-> fields.event_id,
             sequence         |-> fields.sequence,
             prev_hash        |-> hex_encode(fields.prev_hash),
             occurred_at      |-> fields.occurred_at,
             authority_domain |-> fields.authority_domain,
             event_type       |-> as_contract_str(EventType, fields.event_type),
             actor            |-> actor_value(fields.actor),
             target           |-> fields.target,
             outcome          |-> as_contract_str(Outcome, fields.outcome),
             context          |-> Map(fields.context, Present),
             decision         |-> Map(fields.decision, decision_value)])

Signed(unsigned, signature) ==
    [k \in DOMAIN unsigned \cup {"signature"} |->
        IF k = "signature" THEN signature ELSE unsigned[k]]

SignatureOf(components) == [suite |-> SUITE_V1, components |-> components]

(* Sizes: the reasons and the signature of the decision are the values     *)
(* whose size varies.                                                      *)
InnerSize(k, v) ==
    CASE v = Null -> 1
      [] k = "reasons" -> Len(v)
      [] k = "decision_signature" -> 2 * v.bytes.length
      [] k = "components" -> 3 * Len(v)
      [] OTHER -> 1

InnerObjectSize(object) ==
    ObjectSize([k \in DOMAIN object |-> InnerSize(k, object[k])])

MemberSize(k, v) ==
    IF k \in {"actor", "target", "context", "decision", "signature"} /\ v # Null
    THEN InnerObjectSize(v)
    ELSE 1

DocumentSize(document) ==
    ObjectSize([k \in DOMAIN document |-> MemberSize(k, document[k])])

(* Mutant of signature_overhead_bytes: the name of the member is forgotten. *)
OverheadOfValueAlone(key_id) ==
    InnerObjectSize(SignatureOf(<<Component(key_id, [length |-> 64])>>))

(* What inserting the signature adds: `,"signature":' and its value.       *)
signature_overhead_bytes(key_id) ==
    1 + InnerObjectSize(SignatureOf(<<Component(key_id, [length |-> 64])>>))

SizeIsValid(unsigned, key_id) ==
    DocumentSize(unsigned) + signature_overhead_bytes(key_id) <= MAX_BYTES

validate_decision_coupling(fields) ==
    /\ requires_decision(fields.event_type) <=> fields.decision # None
    /\ fields.decision # None => Len(fields.decision.reasons) <= MAX_REASONS

(* AuditSealer::seal, when the HSM signs with the key of public key key.   *)
SignatureUnder(key, unsigned) ==
    SignatureOf(<<Component(key_id_from_public_key(key),
                    Signature(key, signed_message(DOMAIN_PREFIX_V1, unsigned)))>>)

SealedEvent(fields, key) ==
    LET unsigned == unsigned_document(fields)
    IN canonical_bytes(Signed(unsigned, SignatureUnder(key, unsigned)))

SealIsRefused(fields, key) ==
    \/ ~validate_decision_coupling(fields)
    \/ ~SizeIsValid(unsigned_document(fields), key_id_from_public_key(key))

-----------------------------------------------------------------------------
(* Deserialisation: the members of each object, required and optional.     *)
WireDocument ==
    [required |-> {"schema_version", "event_id", "sequence", "occurred_at",
                   "authority_domain", "event_type", "actor", "outcome",
                   "prev_hash", "signature"},
     optional |-> {"target", "context", "decision"}]
WireActor == [required |-> {"subject_id", "kind"},
              optional |-> {"aal", "auth_method"}]
WireTarget == [required |-> {"type", "id"}, optional |-> {}]
WireContext == [required |-> {},
                optional |-> {"source_network", "ticket_ref", "justification"}]
WireDecision ==
    [required |-> {"request_id", "decision_hash", "policy_version", "reasons"},
     optional |-> {"granted_ttl_seconds", "decision_signature",
                   "decision_signature_key_id"}]
WireSignature == [required |-> {"suite", "components"}, optional |-> {}]
WireComponent == [required |-> {"component", "key_id", "value"}, optional |-> {}]

IsWire(object, wire) == Parses(object, wire.required, wire.optional)
FromWire(object, wire) == Parse(object, wire.required, wire.optional)

IsWireDocument(object) ==
    /\ IsWire(object, WireDocument)
    /\ LET doc == FromWire(object, WireDocument)
       IN /\ IsWire(doc.actor, WireActor)
          /\ IsWire(doc.signature, WireSignature)
          /\ \A i \in DOMAIN doc.signature.components :
                IsWire(doc.signature.components[i], WireComponent)
          /\ doc.target # None => IsWire(doc.target, WireTarget)
          /\ doc.context # None => IsWire(doc.context, WireContext)
          /\ doc.decision # None => IsWire(doc.decision, WireDecision)

from_slice(object) ==
    LET doc == FromWire(object, WireDocument)
    IN [doc EXCEPT
          !.actor = FromWire(@, WireActor),
          !.target = Map(@, LAMBDA o : FromWire(o, WireTarget)),
          !.context = Map(@, LAMBDA o : FromWire(o, WireContext)),
          !.decision = Map(@, LAMBDA o : FromWire(o, WireDecision))]

unsigned_document_from_wire(doc) ==
    Present([k \in DOMAIN doc \ {"signature"} |->
        CASE k = "actor" -> Present(doc.actor)
          [] k \in {"target", "context", "decision"} -> Map(doc[k], Present)
          [] OTHER -> doc[k]])

(* What the content must be, whatever the emitter was.                     *)
ContentIsValid(doc) ==
    LET event_type == from_contract_str(EventType, doc.event_type)
    IN /\ event_type # None
       /\ from_contract_str(ActorKind, doc.actor.kind) # None
       /\ from_contract_str(Outcome, doc.outcome) # None
       /\ requires_decision(event_type) <=> doc.decision # None
       /\ doc.decision # None =>
             /\ Len(doc.decision.reasons) <= MAX_REASONS
             /\ Is32(hex_decode(doc.decision.decision_hash))

required_components(suite) == IF suite = SUITE_V1 THEN Components ELSE None
domain_prefix_for(suite) == IF suite = SUITE_V1 THEN DOMAIN_PREFIX_V1 ELSE None

(* The checks of verify in their order; "Ok", or the first that fails.     *)
verify(keys, bytes, policy) ==
    LET doc        == from_slice(bytes.object)
        suite      == doc.signature.suite
        components == doc.signature.components
        unsigned   == unsigned_document_from_wire(doc)
        message    == signed_message(domain_prefix_for(suite), unsigned)
        signatures == CheckSignatures(keys, components, message)
    IN IF DocumentSize(bytes.object) > MAX_BYTES THEN "TooLarge"
       ELSE IF ~IsWireDocument(bytes.object) \/ doc.schema_version # 1
       THEN "MalformedDocument"
       ELSE IF suite \notin policy.accepted_suites THEN "UnknownSuite"
       ELSE IF ~ContentIsValid(doc) THEN "MalformedDocument"
       ELSE IF required_components(suite) = None THEN "UnknownSuite"
       ELSE IF ~ArityIsRight(components, required_components(suite))
       THEN "InvalidSignatureArity"
       ELSE IF canonical_bytes(Signed(unsigned, doc.signature)) # bytes
       THEN "NonCanonical"
       ELSE IF signatures # "Ok" THEN signatures
       ELSE IF doc.authority_domain # policy.expected_authority_domain
       THEN "UnexpectedAuthorityDomain"
       ELSE IF ~Is32(hex_decode(doc.prev_hash)) THEN "MalformedDocument"
       ELSE "Ok"

(* What verify returns when it accepts.                                    *)
VerifiedAuditEvent(bytes) ==
    LET doc == from_slice(bytes.object)
    IN [event_id         |-> doc.event_id,
        sequence         |-> doc.sequence,
        prev_hash        |-> hex_decode(doc.prev_hash),
        occurred_at      |-> doc.occurred_at,
        authority_domain |-> doc.authority_domain,
        event_type       |-> from_contract_str(EventType, doc.event_type)]
=============================================================================
