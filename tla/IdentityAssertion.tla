-------------------------- MODULE IdentityAssertion --------------------------
(***************************************************************************)
(* The suite identity-assertion/v1 (identity_assertion.rs): the assertion  *)
(* that identity-provider seals after an authentication, its verification, *)
(* and the gRPC service VerifyAssertion (identity-provider's lib.rs).      *)
(***************************************************************************)
EXTENDS SealedDocument, CivilCalendar

SUITE_V1 == "identity-assertion/v1"
DOMAIN_PREFIX == "zero-secret/identity-assertion/v1"
ACCEPTED_SUITES == {SUITE_V1}

(* AssertionClaims: the bounds of the types of its members.                *)
ClaimsAreValid(claims) ==
    /\ \A k \in {"subject_id", "auth_method", "audience"} :
          bounded_ascii_string(claims[k])
    /\ ValidTimestamp(claims.issued_at) /\ ValidTimestamp(claims.expires_at)
    /\ EventId(claims.audit_event_id)

unsigned_document(claims) ==
    [schema_version   |-> 1,
     suite            |-> SUITE_V1,
     authority_domain |-> claims.authority_domain,
     subject_id       |-> claims.subject_id,
     aal              |-> claims.aal,
     auth_method      |-> claims.auth_method,
     audience         |-> claims.audience,
     issued_at        |-> claims.issued_at,
     expires_at       |-> claims.expires_at,
     audit_event_id   |-> claims.audit_event_id]

Signed(unsigned, components) ==
    [k \in DOMAIN unsigned \cup {"signatures"} |->
        IF k = "signatures" THEN components ELSE unsigned[k]]

(* AssertionSealer::seal, when the HSM signs with the key of public key    *)
(* key; the size of the result is not looked at.                           *)
SealedAssertion(claims, key) ==
    LET unsigned == unsigned_document(claims)
        message  == signed_message(DOMAIN_PREFIX, unsigned)
    IN canonical_bytes(Signed(unsigned,
           <<Component(key_id_from_public_key(key), Signature(key, message))>>))

-----------------------------------------------------------------------------
WireDocument ==
    {"schema_version", "suite", "authority_domain", "subject_id", "aal",
     "auth_method", "audience", "issued_at", "expires_at", "audit_event_id",
     "signatures"}
WireSignatureComponent == {"component", "key_id", "value"}

IsWireDocument(object) ==
    /\ Parses(object, WireDocument, {})
    /\ \A i \in DOMAIN object.signatures :
          Parses(object.signatures[i], WireSignatureComponent, {})

unsigned_document_from_wire(doc) ==
    [k \in WireDocument \ {"signatures"} |-> doc[k]]

required_components(suite) == IF suite = SUITE_V1 THEN Components ELSE None

(* identity-provider's own copy of the conversion, the same to the digit.  *)
format_rfc3339(instant) == rfc3339_from_seconds(instant)

(* More than MAX_BYTES of them.                                            *)
IsTooLarge(bytes) == bytes.layout = "padded"

(* The comparison of two texts: they have the same length and the widest   *)
(* unit comes first, so that the first number that differs decides.        *)
Numbers(text) == <<text.date.year, text.date.month, text.date.day,
                   text.hour, text.minute, text.second>>

Before(a, b) ==
    \E i \in 1..6 :
        /\ Numbers(a)[i] < Numbers(b)[i]
        /\ \A j \in 1..i-1 : Numbers(a)[j] = Numbers(b)[j]

(* Mutant: an assertion is valid until the second of its expiry.           *)
WithinWindowOrAtEnd(doc, now) ==
    ~Before(now, doc.issued_at) /\ ~Before(doc.expires_at, now)

WithinWindow(doc, now) ==
    ~Before(now, doc.issued_at) /\ Before(now, doc.expires_at)

(* The checks of verify in their order; "Ok", or the first that fails.     *)
verify(keys, bytes, policy) ==
    LET doc        == bytes.object
        unsigned   == unsigned_document_from_wire(doc)
        signatures == CheckSignatures(keys, doc.signatures,
                                      signed_message(DOMAIN_PREFIX, unsigned))
    IN IF IsTooLarge(bytes) THEN "TooLarge"
       ELSE IF ~IsWireDocument(doc) \/ doc.schema_version # 1
       THEN "MalformedDocument"
       ELSE IF doc.suite \notin policy.accepted_suites
               \/ required_components(doc.suite) = None THEN "UnknownSuite"
       ELSE IF ~ArityIsRight(doc.signatures, required_components(doc.suite))
       THEN "InvalidSignatureArity"
       ELSE IF canonical_bytes(Signed(unsigned, doc.signatures)) # bytes
       THEN "NonCanonical"
       ELSE IF signatures # "Ok" THEN signatures
       ELSE IF doc.authority_domain # policy.expected_authority_domain
       THEN "UnexpectedAuthorityDomain"
       ELSE IF ~WithinWindow(doc, policy.now) THEN "NotYetValidOrExpired"
       ELSE "Ok"

(* AssertionVerifier::verify_assertion: the clock is read when the call    *)
(* is handled; the answer names the subject of a valid assertion only.     *)
verify_assertion(key, assertion, expected_authority_domain, now) ==
    LET policy == [accepted_suites |-> ACCEPTED_SUITES,
                   now |-> format_rfc3339(now),
                   expected_authority_domain |-> expected_authority_domain]
        result == verify({key}, assertion, policy)
        doc    == assertion.object
    IN IF result = "Ok"
       THEN [valid |-> TRUE, subject_id |-> doc.subject_id, aal |-> doc.aal,
             auth_method |-> doc.auth_method,
             audit_event_id |-> doc.audit_event_id]
       ELSE [valid |-> FALSE, reason |-> result]
=============================================================================
