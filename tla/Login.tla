-------------------------------- MODULE Login --------------------------------
(***************************************************************************)
(* A login from end to end: authenticators answer challenges, a client     *)
(* carries their answers to identity-provider, which verifies the ceremony *)
(* (WebAuthn) and seals an assertion (IdentityAssertion) that a service    *)
(* has verified later; and a recovery decided on such authentications.     *)
(*                                                                         *)
(* A ceremony arrives in parts -- clientDataJSON, authenticatorData or     *)
(* attestationObject, signature, credential -- and the client may send     *)
(* them late, twice, damaged, or mixed from two ceremonies.  A handler is  *)
(* one step here and its calls succeed: what happens between its calls,    *)
(* and when they fail, is IdentityCeremony.                                *)
(***************************************************************************)
EXTENDS WebAuthn, IdentityAssertion, DocumentCopies

CONSTANTS Devices,       \* authenticators
          Cose(_),       \* the COSE key that a device presents
          FirstCount(_), \* what the counter of a device starts from
          Subjects,      \* subjects that registrations are asked for
          Challenges,    \* challenges, drawn at random: never issued twice
          AuthorityDomains, \* domains that callers of VerifyAssertion expect
          EventIds,      \* identifiers of the events of the logins, in order
          MaxAnswers,    \* bound on the answers of devices
          Start,         \* the instant at which the clock starts
          MaxTime,       \* bound on the seconds that pass
          AssertionTtl   \* assertion_ttl_seconds

(* The keys that devices present.                                          *)
Coordinate == [length : Nat, first : 0..255, of : Devices]
CoseKey == [form : {"cbor"}, length : Nat, kty : STRING, crv : Int,
            x : Coordinate, y : Coordinate \cup {None}]

ASSUME LoginAssumption ==
    /\ {MaxAnswers, MaxTime, AssertionTtl} \subseteq Nat /\ Start \in Instant
    /\ Subjects \subseteq STRING /\ EventIds \in Seq(UuidV7)
    /\ \A d \in Devices : FirstCount(d) \in Nat /\ Cose(d) \in CoseKey

(* Keys are drawn at random: no two devices have the same.                 *)
KeyOf(d) == extract_public_key_material(Cose(d))

KeysAreDistinct == \A d, e \in Devices : KeyOf(d) = KeyOf(e) => d = e

ASSUME KeysAssumption == KeysAreDistinct

(* AppState.                                                               *)
origin == "https://idp"
rp_id == "idp"
authority_domain == "idp"
audience == "broker"
SealerKey == "identity"

(* A row of identity.authenticators, and what the parts of a ceremony are; *)
(* None is none of them.                                                   *)
Row == [subject_id : Subjects \cup {"s1"}, credential_id : Devices,
        public_key : {KeyOf(d) : d \in Devices}, sign_count : Nat,
        attestation_format : {"none", "packed"}, counter_supported : BOOLEAN,
        revoked : BOOLEAN]
ClientData == [form : {"json"}, type : {"webauthn.create", "webauthn.get"},
               origin : {origin, "https://other"},
               challenge : [bytes : Challenges, encoding : {"base64url"}]]
Credential == [credential_id_length : Nat, credential_id : Devices,
               key : CoseKey]
AuthData == [length : Nat, rp_id_hash : [sha256 : {rp_id, "other"}],
             flags : SUBSET {FLAG_USER_PRESENT, FLAG_USER_VERIFIED,
                             FLAG_ATTESTED_CRED_DATA},
             sign_count : Nat, attested : Credential \cup {None}]
Proof == [by : {KeyOf(d) : d \in Devices},
          on : [auth_data : AuthData, client_data_hash : [sha256 : ClientData]]]
Statement == [x5c : {None}, sig : Proof]

(* The same of an assertion that is sealed; its members are not Null.      *)
Text == [date : [year : Int, month : 1..12, day : 1..31], hour : Int,
         minute : Int, second : Int]
Names == Subjects \cup {"s1", SUITE_V1, authority_domain, audience, "AAL1", "AAL2",
                        "webauthn/device-bound", "webauthn/synced-or-unknown"}
           \cup UuidV7
Unsigned == [schema_version : {1}, suite : {SUITE_V1},
             authority_domain : {authority_domain}, subject_id : Names,
             aal : Names, auth_method : Names, audience : {audience},
             issued_at : Text, expires_at : Text, audit_event_id : Names]
Sealing == [length : {64}, signer : {SealerKey},
            message : [prefix : {DOMAIN_PREFIX},
                       document : [object : Unsigned, layout : {"canonical"}]]]
KeyId == [fingerprint : {SealerKey}]
Digits == [bytes : Sealing, digits : {"lower"}]
SealedComponent == [component : {Components[1]}, key_id : KeyId, value : Digits]

NoneIsApart ==
    /\ None \notin {"none", "packed"} \cup Row \cup AuthData \cup Proof
                     \cup Statement
    /\ None \notin {Components} \cup Sealing
NullIsApart ==
    /\ Null # 1
    /\ Null \notin Names \cup {Components[1]}
    /\ Null \notin Text \cup KeyId \cup Digits \cup Seq(SealedComponent)

ASSUME AbsenceAssumption == NoneIsApart /\ NullIsApart

VARIABLES now,            \* seconds since Start
          challenges,     \* identity.challenges
          authenticators, \* identity.authenticators: the row of a credential
          counter,        \* counter[d]: signatures made by the device d
          answers,        \* what the devices have answered
          logins,         \* authentications that succeeded, in their order
          reply           \* the answer to VerifyAssertion or to a recovery

vars == <<now, challenges, authenticators, counter, answers, logins, reply>>

Absent == [status |-> "absent"]
IsIssued(c, kind) == challenges[c].status = "issued" /\ challenges[c].kind = kind

(* An instant some seconds after Start.                                    *)
At(seconds) ==
    LET s == Start.second_of_day + seconds
    IN [days |-> Start.days + s \div 86400, second_of_day |-> s % 86400]

(* A device registered by an earlier ceremony.                             *)
EarlierRow(d) ==
    [subject_id |-> "s1", credential_id |-> d,
     public_key |-> extract_public_key_material(Cose(d)),
     sign_count |-> FirstCount(d), attestation_format |-> "none",
     counter_supported |-> FirstCount(d) # 0, revoked |-> FALSE]

Init ==
    /\ now = 0
    /\ challenges = [c \in Challenges |-> Absent]
    /\ \E earlier \in SUBSET {d \in Devices : IsSupportedKey(Cose(d))} :
          authenticators = [d \in Devices |-> IF d \in earlier
                                              THEN EarlierRow(d) ELSE None]
    /\ counter = [d \in Devices |-> FirstCount(d)]
    /\ answers = {}
    /\ logins = <<>>
    /\ reply = None

-----------------------------------------------------------------------------
(* A device answers a challenge, once or several times, and counts its     *)
(* authentications: for the ceremony that the challenge was asked for, or  *)
(* for the other; at the origin of the service, or at another; with or     *)
(* without the user.                                                       *)
TypeOf == [registration |-> "webauthn.create", authentication |-> "webauthn.get"]

Gestures(c) ==
    LET proper == [type |-> TypeOf[challenges[c].kind], challenge |-> c,
                   origin |-> origin, flags |-> {FLAG_USER_PRESENT}]
    IN {proper,
        [proper EXCEPT !.flags = {FLAG_USER_PRESENT, FLAG_USER_VERIFIED}],
        [proper EXCEPT !.flags = {}],
        [proper EXCEPT !.origin = "https://other"]}
         \cup {[proper EXCEPT !.type = TypeOf[k]] : k \in DOMAIN TypeOf}

DeviceAnswers(d, c) ==
    /\ reply = None
    /\ Cardinality(answers) < MaxAnswers
    /\ challenges[c] # Absent
    /\ \E g \in Gestures(c) :
          /\ counter' = [counter EXCEPT ![d] =
                            IF g.type = "webauthn.get" THEN @ + 1 ELSE @]
          /\ answers' = answers \cup
                {[device |-> d, sign_count |-> counter'[d], type |-> g.type,
                  challenge |-> c, origin |-> g.origin, flags |-> g.flags]}
    /\ UNCHANGED <<now, challenges, authenticators, logins, reply>>

(* The parts of an answer, as the browser hands them to the client.        *)
ClientDataJson(a) ==
    [form |-> "json", type |-> a.type, origin |-> a.origin,
     challenge |-> [bytes |-> a.challenge, encoding |-> "base64url"]]

RpOf(site) == IF site = origin THEN rp_id ELSE "other"

AuthenticatorData(a) ==
    LET header == [length |-> HEADER, rp_id_hash |-> rp_id_hash(RpOf(a.origin)),
                   flags |-> a.flags, sign_count |-> a.sign_count,
                   attested |-> None]
    IN IF a.type = "webauthn.get" THEN header
       ELSE [header EXCEPT
               !.length = HEADER + CREDENTIAL_HEADER + 16 + Cose(a.device).length,
               !.flags = @ \cup {FLAG_ATTESTED_CRED_DATA},
               !.attested = [credential_id_length |-> 16,
                             credential_id |-> a.device,
                             key |-> Cose(a.device)]]

SignatureBy(a) ==
    ProofOf(extract_public_key_material(Cose(a.device)),
            ProofMessage(AuthenticatorData(a), ClientDataJson(a)))

AttestationObject(a, fmt) ==
    [length |-> 300, form |-> "cbor", fmt |-> fmt,
     authData |-> AuthenticatorData(a),
     attStmt |-> IF fmt = "none" THEN None
                 ELSE [x5c |-> None, sig |-> SignatureBy(a)]]

(* ... whole, or damaged in one place.                                     *)
ClientDataCopies(a) ==
    LET data == ClientDataJson(a)
    IN {data, [data EXCEPT !.form = "other"],
        [data EXCEPT !.challenge.encoding = "padded"]}

AuthenticatorDataCopies(a) ==
    LET data == AuthenticatorData(a)
    IN {data} \cup {[data EXCEPT !.length = n] : n \in {HEADER - 1, data.length - 1}}

AttestationCopies(a) ==
    LET packed == AttestationObject(a, "packed")
        none   == AttestationObject(a, "none")
        data   == packed.authData
        key    == packed.authData.attested.key
    IN {packed, none,
        [packed EXCEPT !.length = MAX_ATTESTATION_OBJECT_LEN + 1],
        [packed EXCEPT !.form = "other"],
        [packed EXCEPT !.fmt = None], [packed EXCEPT !.fmt = "tpm"],
        [packed EXCEPT !.authData = None],
        [packed EXCEPT !.attStmt = None],
        [packed EXCEPT !.attStmt.x5c = "certificates"],
        [packed EXCEPT !.attStmt.sig = None]}
         \cup {[none EXCEPT !.authData.length = n] : n \in
                  {HEADER - 1, HEADER + CREDENTIAL_HEADER - 1,
                   HEADER + CREDENTIAL_HEADER + 15, data.length - 1}}
         \cup {[none EXCEPT !.authData.attested.key = k] : k \in
                  {[key EXCEPT !.form = "other"], [key EXCEPT !.kty = "RSA"],
                   [key EXCEPT !.crv = 2], [key EXCEPT !.x.length = 31],
                   [key EXCEPT !.y = None]}}

-----------------------------------------------------------------------------
(* registration_challenge, authentication_challenge; the subject that an   *)
(* authentication is asked for is stored and plays no part.                *)
IssueChallenge(c, kind, subject) ==
    /\ reply = None
    /\ challenges[c] = Absent
    /\ challenges' = [challenges EXCEPT ![c] =
          [status |-> "issued", kind |-> kind, subject_id |-> subject]]
    /\ UNCHANGED <<now, authenticators, counter, answers, logins, reply>>

(* expires_at passes, by the clock of the database.                        *)
ExpireChallenge(c) ==
    /\ reply = None
    /\ challenges[c].status = "issued"
    /\ challenges' = [challenges EXCEPT ![c].status = "expired"]
    /\ UNCHANGED <<now, authenticators, counter, answers, logins, reply>>

RevokeAuthenticator(d) ==
    /\ reply = None
    /\ authenticators[d] # None /\ ~authenticators[d].revoked
    /\ authenticators' = [authenticators EXCEPT ![d].revoked = TRUE]
    /\ UNCHANGED <<now, challenges, counter, answers, logins, reply>>

(* The challenge is read in clientDataJSON, and consumed before anything   *)
(* is verified; the rest is refused without a change.                      *)
presented_challenge_bytes(data) ==
    IF data.form = "json" /\ data.challenge.encoding = "base64url"
    THEN data.challenge.bytes ELSE None

Consume(data, kind) ==
    LET c == presented_challenge_bytes(data)
    IN /\ c # None
       /\ IsIssued(c, kind)
       /\ challenges' = [challenges EXCEPT ![c].status = "used"]

RegistrationInput(data, object) ==
    [client_data_json |-> data, attestation_object |-> object,
     expected_origin |-> origin, expected_rp_id |-> rp_id,
     expected_challenge |-> presented_challenge_bytes(data), policy |-> "Any"]

NewRow(subject, outcome) ==
    [subject_id |-> subject, credential_id |-> outcome.credential_id,
     public_key |-> outcome.public_key, sign_count |-> outcome.sign_count,
     attestation_format |-> outcome.attestation_format,
     counter_supported |-> outcome.sign_count # 0, revoked |-> FALSE]

(* registration_verify: the row is inserted for the subject of the         *)
(* challenge, unless the credential is registered already.                 *)
VerifyRegistration ==
    /\ reply = None
    /\ \E a \in answers, b \in {x \in answers : x.type = "webauthn.create"} :
       \E data \in ClientDataCopies(a), object \in AttestationCopies(b) :
          LET input   == RegistrationInput(data, object)
              outcome == RegistrationOutcome(input)
              subject == challenges[input.expected_challenge].subject_id
              accepted == /\ verify_registration_ceremony(input)
                          /\ authenticators[outcome.credential_id] = None
          IN /\ Consume(data, "registration")
             /\ \/ /\ accepted
                   /\ authenticators' = [authenticators EXCEPT
                         ![outcome.credential_id] = NewRow(subject, outcome)]
                \/ ~accepted /\ UNCHANGED authenticators
    /\ UNCHANGED <<now, counter, answers, logins, reply>>

-----------------------------------------------------------------------------
RegisteredCredential(row) ==
    [subject_id |-> row.subject_id, credential_id |-> row.credential_id,
     public_key |-> row.public_key, counter_supported |-> row.counter_supported,
     stored_sign_count |-> row.sign_count, revoked |-> row.revoked]

AuthenticationInput(data, auth_data, signature, row) ==
    [client_data_json |-> data, authenticator_data |-> auth_data,
     signature |-> signature, expected_origin |-> origin,
     expected_rp_id |-> rp_id,
     expected_challenge |-> presented_challenge_bytes(data),
     credential |-> RegisteredCredential(row)]

(* The claims that are sealed after the login of the claims claims.        *)
AssertionClaims(claims, audit_event_id, at) ==
    [authority_domain |-> authority_domain, subject_id |-> claims.subject_id,
     aal |-> claims.aal, auth_method |-> claims.method, audience |-> audience,
     issued_at |-> format_rfc3339(At(at)),
     expires_at |-> format_rfc3339(At(at + AssertionTtl)),
     audit_event_id |-> audit_event_id]

(* authentication_verify: the subject is that of the credential, not of    *)
(* the challenge; the counter advances before the claims are found fit to  *)
(* be sealed.  Its event takes the next identifier.                        *)
VerifyAuthentication ==
    /\ reply = None /\ Len(logins) < Len(EventIds)
    /\ \E a, b, c \in answers, d \in Devices :
       \E data \in ClientDataCopies(a), auth_data \in AuthenticatorDataCopies(b) :
          LET row      == authenticators[d]
              input    == AuthenticationInput(data, auth_data, SignatureBy(c), row)
              claims   == AuthenticationClaims(input)
              sealable == ClaimsAreValid(AssertionClaims(claims,
                              EventIds[Len(logins) + 1], now))
              accepted == /\ row # None
                          /\ verify_authentication_ceremony(input)
                          /\ row.sign_count < claims.new_sign_count
          IN /\ Consume(data, "authentication")
             /\ \/ /\ accepted
                   /\ authenticators' = [authenticators EXCEPT
                         ![d].sign_count = claims.new_sign_count]
                   /\ logins' = IF ~sealable THEN logins
                                ELSE Append(logins,
                                       [claims |-> claims, at |-> now,
                                        challenge |-> input.expected_challenge])
                \/ ~accepted /\ UNCHANGED <<authenticators, logins>>
    /\ UNCHANGED <<now, counter, answers, reply>>

(* A second passes; before the first login, none that matters.             *)
Tick ==
    /\ reply = None
    /\ logins # <<>> /\ now < MaxTime
    /\ now' = now + 1
    /\ UNCHANGED <<challenges, authenticators, counter, answers, logins, reply>>

(* The assertion of the ith login.                                         *)
AssertionOf(i) ==
    SealedAssertion(AssertionClaims(logins[i].claims, EventIds[i], logins[i].at),
                    SealerKey)

(* An assertion of another time, sealed with the same key.                 *)
Another ==
    SealedAssertion([authority_domain |-> "prod", subject_id |-> "s3",
                     aal |-> "AAL3", auth_method |-> "card",
                     audience |-> "admin",
                     issued_at |-> format_rfc3339(At(-1)),
                     expires_at |-> format_rfc3339(At(MaxTime + 1)),
                     audit_event_id |-> "uuid7-b"], SealerKey)

AssertionCopies(bytes) ==
    LET document == bytes.object
    IN {[bytes EXCEPT !.layout = l] : l \in {"other", "padded"}}
         \cup {canonical_bytes(d) : d \in
                 ObjectCopies(document, Another.object, WireDocument)
                   \cup {With(document, "schema_version", 2),
                         With(document, "suite", "identity-assertion/v2")}
                   \cup {With(document, "signatures", c) : c \in
                            ComponentCopies(document.signatures)}}

VerifyingKey ==
    accept_verifying_key(SUITE_V1, SUITE_V1, key_id_from_public_key(SealerKey),
                         [length |-> 65, first |-> 4, point |-> SealerKey])

VerifyAssertion ==
    /\ reply = None
    /\ \E i \in DOMAIN logins, domain \in AuthorityDomains :
       \E bytes \in {AssertionOf(i)} \cup AssertionCopies(AssertionOf(i)) :
          reply' = [call |-> "VerifyAssertion", domain |-> domain,
                    unchanged |-> IF bytes = AssertionOf(i) THEN i ELSE None,
                    response |-> verify_assertion(VerifyingKey, bytes, domain,
                                                  At(now))]
    /\ UNCHANGED <<now, challenges, authenticators, counter, answers, logins>>

(* verify_quorum, which no service calls yet, on logins of this run.       *)
Recover ==
    /\ reply = None
    /\ \E approvals \in SUBSET {logins[i].claims : i \in DOMAIN logins},
          threshold \in 0..3 :
          reply' = [call |-> "recovery", approvals |-> approvals,
                    threshold |-> threshold,
                    outcome |-> verify_quorum(approvals, threshold)]
    /\ UNCHANGED <<now, challenges, authenticators, counter, answers, logins>>

Return ==
    /\ reply # None
    /\ reply' = None
    /\ UNCHANGED <<now, challenges, authenticators, counter, answers, logins>>

Next ==
    \/ \E c \in Challenges :
          \/ \E s \in Subjects : IssueChallenge(c, "registration", s)
          \/ IssueChallenge(c, "authentication", None)
          \/ ExpireChallenge(c)
          \/ \E d \in Devices : DeviceAnswers(d, c)
    \/ \E d \in Devices : RevokeAuthenticator(d)
    \/ VerifyRegistration \/ VerifyAuthentication
    \/ Tick \/ VerifyAssertion \/ Recover \/ Return

Spec == Init /\ [][Next]_vars

-----------------------------------------------------------------------------
(* The device d answered the challenge c at this service, with the user.   *)
Answered(a, d, type, c) ==
    /\ a.device = d /\ a.type = type /\ a.challenge = c
    /\ a.origin = origin /\ FLAG_USER_PRESENT \in a.flags

(* Whatever parts a client puts together, a login is accepted only if the  *)
(* device registered under its credential answered that very challenge, at *)
(* this origin and with its user present, and the level and the counter of *)
(* the login are those of this answer; a challenge serves one login.  A    *)
(* credential is registered with the key of its device, and if it was      *)
(* attested for the subject whose challenge the device answered            *)
(* (authentication.rs:111-159, registration.rs:78-152).                    *)
AcceptedIsGenuine ==
    /\ \A i \in DOMAIN logins :
          LET l == logins[i]
          IN /\ \E a \in answers :
                   /\ Answered(a, l.claims.credential_id, "webauthn.get", l.challenge)
                   /\ a.sign_count = l.claims.new_sign_count
                   /\ l.claims.aal = "AAL2" <=> FLAG_USER_VERIFIED \in a.flags
             /\ l.claims.subject_id = authenticators[l.claims.credential_id].subject_id
             /\ \A j \in DOMAIN logins : logins[j].challenge = l.challenge => i = j
    /\ \A d \in {x \in Devices : authenticators[x] # None} :
          LET row == authenticators[d]
          IN /\ row.public_key = extract_public_key_material(Cose(d))
             /\ row.attestation_format = "packed" =>
                   \E a \in answers :
                      /\ Answered(a, d, "webauthn.create", a.challenge)
                      /\ challenges[a.challenge].kind = "registration"
                      /\ challenges[a.challenge].status = "used"
                      /\ challenges[a.challenge].subject_id = row.subject_id

(* The converse: what a device of a supported kind answers properly is     *)
(* accepted.  A registration yields a row with which the later answers of  *)
(* the device are verified, ES256 or EdDSA, until it is revoked or the     *)
(* counter has gone past them (registration.rs:34-37).                     *)
GenuineIsAccepted ==
    \A a \in answers :
        LET d    == a.device
            data == ClientDataJson(a)
            row  == authenticators[d]
        IN /\ Answered(a, d, "webauthn.create", a.challenge)
                  /\ IsSupportedKey(Cose(d))
                => \A fmt \in {"none", "packed"} :
                      verify_registration_ceremony(
                         RegistrationInput(data, AttestationObject(a, fmt)))
           /\ Answered(a, d, "webauthn.get", a.challenge) /\ row # None
                => (~row.revoked /\ row.sign_count < a.sign_count =>
                      verify_authentication_ceremony(AuthenticationInput(
                         data, AuthenticatorData(a), SignatureBy(a), row)))

(* VerifyAssertion answers valid only for a login of that subject, level,  *)
(* method and event, from its second on and strictly before its expiry,    *)
(* in the domain of the service; and it does so for every assertion that   *)
(* reaches it unchanged, midnight and the end of a year included           *)
(* (identity_assertion.rs:306-309, 382-385).                               *)
AssertionSpeaksForALogin ==
    reply # None /\ reply.call = "VerifyAssertion" =>
        LET IsCurrent(i) == /\ logins[i].at <= now
                            /\ now < logins[i].at + AssertionTtl
                            /\ reply.domain = authority_domain
        IN /\ reply.response.valid =>
                 \E i \in DOMAIN logins :
                    /\ IsCurrent(i)
                    /\ reply.response.subject_id = logins[i].claims.subject_id
                    /\ reply.response.aal = logins[i].claims.aal
                    /\ reply.response.auth_method = logins[i].claims.method
                    /\ reply.response.audit_event_id = EventIds[i]
           /\ reply.unchanged # None =>
                 (reply.response.valid <=> IsCurrent(reply.unchanged))

(* A recovery is decided by two devices at least, and by as many as the    *)
(* threshold asks for, each of which answered a challenge of its own; one  *)
(* of them that approves twice does not make up for another                *)
(* (recovery.rs:25-28, 68-72).                                             *)
RecoveryTakesDistinctHolders ==
    reply # None /\ reply.call = "recovery" /\ reply.outcome = "RecoveryOutcome" =>
        LET holders == {d \in Devices : \E p \in reply.approvals, a \in answers :
                           /\ Answered(a, d, "webauthn.get", a.challenge)
                           /\ p.credential_id = d
                           /\ p.new_sign_count = a.sign_count}
        IN Cardinality(holders) >= 2 /\ Cardinality(holders) >= reply.threshold
=============================================================================
