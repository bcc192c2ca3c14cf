------------------------------ MODULE WebAuthn ------------------------------
(***************************************************************************)
(* The two WebAuthn ceremonies (zs-webauthn) on the suite                  *)
(* authenticator-proof/v1 (authenticator_proof.rs), and the recovery       *)
(* quorum made of authentications (recovery.rs).                           *)
(*                                                                         *)
(* clientDataJSON, attestationObject and authenticatorData are records of  *)
(* what the code reads in them, with the form they are in; a member that   *)
(* is missing or of another type is None.  The checks of a ceremony are    *)
(* the conjuncts of one predicate, in the order of the code; which of them *)
(* failed is not told to the client of an authentication, and only as text *)
(* to that of a registration.                                              *)
(***************************************************************************)
EXTENDS SealedDocument

PROOF_SUITE_V1 == "authenticator-proof/v1"

FLAG_USER_PRESENT == "UP"
FLAG_USER_VERIFIED == "UV"
FLAG_ATTESTED_CRED_DATA == "AT"

sha256(data) == [sha256 |-> data]
rp_id_hash(rp_id) == sha256(rp_id)

-----------------------------------------------------------------------------
(* authenticator_proof.rs.                                                 *)
accept_key(suite, material) ==
    /\ suite = PROOF_SUITE_V1
    /\ CASE material.algorithm = "Es256" ->
               material.raw.length = 65 /\ material.raw.first = 4
         [] material.algorithm = "EdDsa" -> material.raw.length = 32

(* What the private key of a public key makes of a message, ES256 or EdDSA. *)
ProofOf(material, message) == [by |-> material, on |-> message]

(* The algorithm is that of the key, never of the caller.                  *)
verify_proof(material, message, signature) ==
    signature = ProofOf(material, message)

-----------------------------------------------------------------------------
(* cose.rs: a COSE key is its type, its curve and its coordinates.         *)
P_256 == 1
Ed25519 == 6

(* Mutant of extract_public_key_material: no tag before the coordinates.   *)
ExtractUntagged(cose) ==
    IF cose.kty = "EC2" THEN [algorithm |-> "Es256",
                              raw |-> [length |-> 64, first |-> cose.x.first,
                                       point |-> <<cose.x, cose.y>>]]
    ELSE [algorithm |-> "EdDsa", raw |-> cose.x]

extract_public_key_material(cose) ==
    IF cose.kty = "EC2" THEN [algorithm |-> "Es256",
                              raw |-> [length |-> 65, first |-> 4,
                                       point |-> <<cose.x, cose.y>>]]
    ELSE [algorithm |-> "EdDsa", raw |-> cose.x]

(* Whether there is such material in the key.                              *)
IsSupportedKey(cose) ==
    \/ /\ cose.kty = "EC2" /\ cose.crv = P_256
       /\ Is32(cose.x) /\ Is32(cose.y)
    \/ /\ cose.kty = "OKP" /\ cose.crv = Ed25519
       /\ Is32(cose.x)

-----------------------------------------------------------------------------
(* Mutant of client_data_verifies: the type of the ceremony is not looked  *)
(* at.                                                                     *)
ClientDataOfAnyType(data, expected_type, expected_origin, expected_challenge) ==
    /\ data.form = "json"
    /\ data.origin = expected_origin
    /\ data.challenge = [bytes |-> expected_challenge, encoding |-> "base64url"]

(* client_data.rs.                                                         *)
client_data_verifies(data, expected_type, expected_origin, expected_challenge) ==
    /\ data.form = "json"
    /\ data.type = expected_type
    /\ data.origin = expected_origin
    /\ data.challenge = [bytes |-> expected_challenge, encoding |-> "base64url"]

(* The message that an authenticator signs, in both ceremonies.            *)
ProofMessage(auth_data, client_data_json) ==
    [auth_data |-> auth_data, client_data_hash |-> sha256(client_data_json)]

(* authenticatorData: rpIdHash(32) || flags(1) || signCount(4), and when a *)
(* key is attested aaguid(16) || length(2) || credential id || COSE key.   *)
HEADER == 37
CREDENTIAL_HEADER == 18

HasHeader(auth_data) == auth_data.length >= HEADER

HasWholeCredential(auth_data) ==
    LET rest == auth_data.length - HEADER
        end  == CREDENTIAL_HEADER + auth_data.attested.credential_id_length
    IN /\ rest >= CREDENTIAL_HEADER
       /\ end <= rest
       /\ auth_data.attested.key.form = "cbor"
       /\ end + auth_data.attested.key.length <= rest

IsAttested(auth_data) == FLAG_ATTESTED_CRED_DATA \in auth_data.flags

parse_authenticator_data(auth_data) ==
    /\ HasHeader(auth_data)
    /\ IsAttested(auth_data) => HasWholeCredential(auth_data)

MAX_ATTESTATION_OBJECT_LEN == 64 * 1024

(* Self-attestation: a chain of certificates is refused.                   *)
verify_packed_attestation(statement, auth_data, client_data_json, material) ==
    /\ statement # None
    /\ statement.x5c = None
    /\ statement.sig # None
    /\ verify_proof(material, ProofMessage(auth_data, client_data_json),
                    statement.sig)

verify_registration_ceremony(input) ==
    LET object    == input.attestation_object
        auth_data == object.authData
        cose      == auth_data.attested.key
        material  == extract_public_key_material(cose)
    IN /\ client_data_verifies(input.client_data_json, "webauthn.create",
                               input.expected_origin, input.expected_challenge)
       /\ object.length <= MAX_ATTESTATION_OBJECT_LEN
       /\ object.form = "cbor"
       /\ object.fmt # None /\ auth_data # None
       /\ object.fmt \in {"none", "packed"}
       /\ ~(input.policy = "Required" /\ object.fmt = "none")
       /\ parse_authenticator_data(auth_data)
       /\ auth_data.rp_id_hash = rp_id_hash(input.expected_rp_id)
       /\ FLAG_USER_PRESENT \in auth_data.flags
       /\ IsAttested(auth_data)
       /\ IsSupportedKey(cose)
       /\ accept_key(PROOF_SUITE_V1, material)
       /\ object.fmt = "packed" =>
             verify_packed_attestation(object.attStmt, auth_data,
                                       input.client_data_json, material)

RegistrationOutcome(input) ==
    LET auth_data == input.attestation_object.authData
    IN [credential_id      |-> auth_data.attested.credential_id,
        sign_count         |-> auth_data.sign_count,
        attestation_format |-> input.attestation_object.fmt,
        public_key         |-> extract_public_key_material(auth_data.attested.key)]

-----------------------------------------------------------------------------
(* The credential is the row of the registry, never the client's.          *)
verify_authentication_ceremony(input) ==
    LET credential == input.credential
        auth_data  == input.authenticator_data
    IN /\ ~credential.revoked
       /\ client_data_verifies(input.client_data_json, "webauthn.get",
                               input.expected_origin, input.expected_challenge)
       /\ HasHeader(auth_data)
       /\ auth_data.rp_id_hash = rp_id_hash(input.expected_rp_id)
       /\ FLAG_USER_PRESENT \in auth_data.flags
       /\ credential.counter_supported =>
             auth_data.sign_count > credential.stored_sign_count
       /\ accept_key(PROOF_SUITE_V1, credential.public_key)
       /\ verify_proof(credential.public_key,
                       ProofMessage(auth_data, input.client_data_json),
                       input.signature)

AuthenticationClaims(input) ==
    [subject_id     |-> input.credential.subject_id,
     credential_id  |-> input.credential.credential_id,
     aal            |-> IF FLAG_USER_VERIFIED \in input.authenticator_data.flags
                        THEN "AAL2" ELSE "AAL1",
     method         |-> IF input.credential.counter_supported
                        THEN "webauthn/device-bound"
                        ELSE "webauthn/synced-or-unknown",
     new_sign_count |-> input.authenticator_data.sign_count]

-----------------------------------------------------------------------------
MINIMUM_THRESHOLD == 2

(* Mutant of DistinctHolders: every approval counts.                       *)
EveryApproval(approvals) == approvals

(* A holder who approves twice counts once.                                *)
DistinctHolders(approvals) == {a.credential_id : a \in approvals}

(* approvals: the claims of authentications, each of them used once.       *)
verify_quorum(approvals, threshold) ==
    IF threshold < MINIMUM_THRESHOLD THEN "ThresholdBelowMinimum"
    ELSE IF Cardinality(DistinctHolders(approvals)) < threshold
    THEN "QuorumNotReached"
    ELSE "RecoveryOutcome"
=============================================================================
