----------------------------- MODULE LoginProofs -----------------------------
(***************************************************************************)
(* Proofs about Login, for any devices, subjects, challenges and clock:    *)
(* what is accepted is genuine and what is genuine is accepted, however    *)
(* the parts of the ceremonies are mixed, damaged or replayed; a verified  *)
(* assertion speaks for a login within its window; and a recovery is       *)
(* decided by distinct holders.                                            *)
(***************************************************************************)
EXTENDS Login, CivilCalendarProofs, TLAPS

(* What the devices answer, and what is stored.                            *)
Flags == {FLAG_USER_PRESENT, FLAG_USER_VERIFIED}
Answer == [device : Devices, sign_count : Nat,
           type : {"webauthn.create", "webauthn.get"}, challenge : Challenges,
           origin : {origin, "https://other"}, flags : SUBSET Flags]

Status == {"issued", "expired", "used"}
Challenge ==
    [status : Status, kind : {"registration"}, subject_id : Subjects]
      \cup [status : Status, kind : {"authentication"}, subject_id : {None}]

Claims == [subject_id : Subjects \cup {"s1"}, credential_id : Devices,
           aal : {"AAL1", "AAL2"},
           method : {"webauthn/device-bound", "webauthn/synced-or-unknown"},
           new_sign_count : Nat]
LoginRecord == [claims : Claims, at : Nat, challenge : Challenges]

TypeOK ==
    /\ now \in Nat
    /\ challenges \in [Challenges -> Challenge \cup {Absent}]
    /\ authenticators \in [Devices -> Row \cup {None}]
    /\ counter \in [Devices -> Nat]
    /\ answers \in SUBSET Answer
    /\ logins \in Seq(LoginRecord)

(* The credential d is registered with the key of its device, and if it    *)
(* was attested for the subject whose challenge the device answered.       *)
RowIsGenuine(d) ==
    LET row == authenticators[d]
    IN /\ row.credential_id = d
       /\ row.public_key = KeyOf(d) /\ IsSupportedKey(Cose(d))
       /\ row.attestation_format = "packed" =>
             \E a \in answers :
                /\ Answered(a, d, "webauthn.create", a.challenge)
                /\ challenges[a.challenge].kind = "registration"
                /\ challenges[a.challenge].status = "used"
                /\ challenges[a.challenge].subject_id = row.subject_id

(* A login has the answer it was made of, the row it was made with, and a  *)
(* challenge that is used up.                                              *)
LoginIsGenuine(l) ==
    /\ \E a \in answers :
          /\ Answered(a, l.claims.credential_id, "webauthn.get", l.challenge)
          /\ a.sign_count = l.claims.new_sign_count
          /\ l.claims.aal = "AAL2" <=> FLAG_USER_VERIFIED \in a.flags
    /\ authenticators[l.claims.credential_id] # None
    /\ l.claims.subject_id = authenticators[l.claims.credential_id].subject_id
    /\ challenges[l.challenge].status = "used"

Genuine ==
    /\ \A d \in Devices : authenticators[d] # None => RowIsGenuine(d)
    /\ \A i \in DOMAIN logins : LoginIsGenuine(logins[i])
    /\ \A i, j \in DOMAIN logins :
          logins[i].challenge = logins[j].challenge => i = j

IInv == TypeOK /\ Genuine

(* Facts of arithmetic and of sequences.                                   *)
LEMMA AtMostIsNotBelow == \A m, n \in Nat : m <= n <=> ~(n < m)
OBVIOUS

LEMMA ThresholdIsMet ==
    \A n \in Nat, k \in 0..3 : k >= 2 /\ ~(n < k) => n >= 2 /\ n >= k
OBVIOUS

LEMMA Appended ==
    ASSUME NEW S, NEW s \in Seq(S), NEW e \in S
    PROVE  /\ Append(s, e) \in Seq(S)
           /\ DOMAIN Append(s, e) = 1..Len(s) + 1
           /\ DOMAIN s = 1..Len(s)
           /\ Append(s, e)[Len(s) + 1] = e
           /\ \A i \in 1..Len(s) : Append(s, e)[i] = s[i]
OBVIOUS

-----------------------------------------------------------------------------
(* A signature that verifies under the key of a device was made by this    *)
(* device on these very parts (authentication.rs:111-159).                 *)
LEMMA AuthenticationIsAnswered ==
    ASSUME NEW c \in Answer, NEW d \in Devices, NEW row,
           row.public_key = KeyOf(d), NEW data, NEW auth_data,
           verify_authentication_ceremony(
              AuthenticationInput(data, auth_data, SignatureBy(c), row))
    PROVE  /\ Answered(c, d, "webauthn.get", c.challenge)
           /\ presented_challenge_bytes(data) = c.challenge
           /\ auth_data.sign_count = c.sign_count
           /\ auth_data.flags = c.flags
<1> DEFINE input == AuthenticationInput(data, auth_data, SignatureBy(c), row)
<1>1. /\ input.credential.public_key = KeyOf(d)
      /\ input.client_data_json = data
      /\ input.authenticator_data = auth_data
      /\ input.signature = SignatureBy(c)
      /\ input.expected_origin = origin
  BY DEF AuthenticationInput, RegisteredCredential
<1>2. /\ data.form = "json" /\ data.type = "webauthn.get"
      /\ data.origin = origin
      /\ data.challenge.encoding = "base64url"
      /\ FLAG_USER_PRESENT \in auth_data.flags
      /\ SignatureBy(c) = ProofOf(KeyOf(d), ProofMessage(auth_data, data))
  BY <1>1 DEF verify_authentication_ceremony, client_data_verifies, verify_proof
<1>3. /\ KeyOf(c.device) = KeyOf(d)
      /\ AuthenticatorData(c) = auth_data
      /\ ClientDataJson(c) = data
  BY <1>2 DEF SignatureBy, ProofOf, ProofMessage, sha256, KeyOf
<1>4. c.device = d
  BY <1>3, KeysAssumption DEF KeysAreDistinct, Answer
<1>5. c.type = "webauthn.get" /\ c.origin = origin
      /\ data.challenge.bytes = c.challenge
  BY <1>2, <1>3 DEF ClientDataJson
<1>6. auth_data.flags = c.flags /\ auth_data.sign_count = c.sign_count
  BY <1>3, <1>5 DEF AuthenticatorData
<1> QED
  BY <1>2, <1>4, <1>5, <1>6 DEF Answered, presented_challenge_bytes

(* What a device sends when it registers.                                  *)
LEMMA RegistrationData ==
    ASSUME NEW b \in Answer, b.type = "webauthn.create"
    PROVE  AuthenticatorData(b) =
              [length |-> HEADER + CREDENTIAL_HEADER + 16 + Cose(b.device).length,
               rp_id_hash |-> rp_id_hash(RpOf(b.origin)),
               flags |-> b.flags \cup {FLAG_ATTESTED_CRED_DATA},
               sign_count |-> b.sign_count,
               attested |-> [credential_id_length |-> 16,
                             credential_id |-> b.device,
                             key |-> Cose(b.device)]]
BY Zenon DEF AuthenticatorData

(* The damaged copies of an attestation keep the device and its counter; a *)
(* copy with another key is not of the format that is signed.              *)
CopyOf(object, b) ==
    LET data == object.authData
    IN /\ data.attested.credential_id = b.device
       /\ data.sign_count = b.sign_count
       /\ \/ data.attested.key = Cose(b.device)
          \/ data.attested.key \in
                LET key == Cose(b.device)
                IN {[key EXCEPT !.form = "other"], [key EXCEPT !.kty = "RSA"],
                    [key EXCEPT !.crv = 2], [key EXCEPT !.x.length = 31],
                    [key EXCEPT !.y = None]}

SignedCopyOf(object, b) ==
    /\ object.authData = AuthenticatorData(b)
    /\ object.attStmt = None \/ object.attStmt.sig \in {SignatureBy(b), None}

LEMMA AttestationCopy ==
    ASSUME NEW b \in Answer, b.type = "webauthn.create",
           NEW object \in AttestationCopies(b), object.authData # None
    PROVE  /\ CopyOf(object, b)
           /\ object.fmt = "packed" => SignedCopyOf(object, b)
<1> DEFINE packed == AttestationObject(b, "packed")
           none == AttestationObject(b, "none")
           data == AuthenticatorData(b)
           key == Cose(b.device)
<1>1. /\ packed = [length |-> 300, form |-> "cbor", fmt |-> "packed",
                   authData |-> data,
                   attStmt |-> [x5c |-> None, sig |-> SignatureBy(b)]]
      /\ none = [length |-> 300, form |-> "cbor", fmt |-> "none",
                 authData |-> data, attStmt |-> None]
  BY DEF AttestationObject
<1>2. /\ data = [length |-> data.length, rp_id_hash |-> data.rp_id_hash,
                 flags |-> data.flags, sign_count |-> b.sign_count,
                 attested |-> data.attested]
      /\ data.attested = [credential_id_length |-> 16,
                          credential_id |-> b.device, key |-> key]
  BY RegistrationData
<1>3. \/ object \in {packed, none,
                     [packed EXCEPT !.length = MAX_ATTESTATION_OBJECT_LEN + 1],
                     [packed EXCEPT !.form = "other"],
                     [packed EXCEPT !.fmt = None], [packed EXCEPT !.fmt = "tpm"],
                     [packed EXCEPT !.attStmt = None],
                     [packed EXCEPT !.attStmt.x5c = "certificates"],
                     [packed EXCEPT !.attStmt.sig = None]}
      \/ object = [packed EXCEPT !.authData = None]
      \/ \E n \in {HEADER - 1, HEADER + CREDENTIAL_HEADER - 1,
                   HEADER + CREDENTIAL_HEADER + 15, packed.authData.length - 1} :
            object = [none EXCEPT !.authData.length = n]
      \/ \E k \in {[key EXCEPT !.form = "other"], [key EXCEPT !.kty = "RSA"],
                   [key EXCEPT !.crv = 2], [key EXCEPT !.x.length = 31],
                   [key EXCEPT !.y = None]} :
            object = [none EXCEPT !.authData.attested.key = k]
  <2>1. packed.authData.attested.key = key
    BY <1>1, <1>2
  <2> HIDE DEF packed, none, key
  <2> QED
    BY <2>1, Zenon DEF AttestationCopies, packed, none
<1> HIDE DEF packed, none, data, key
<1>4. CASE object \in {packed, none,
                     [packed EXCEPT !.length = MAX_ATTESTATION_OBJECT_LEN + 1],
                     [packed EXCEPT !.form = "other"],
                     [packed EXCEPT !.fmt = None], [packed EXCEPT !.fmt = "tpm"],
                     [packed EXCEPT !.attStmt = None],
                     [packed EXCEPT !.attStmt.x5c = "certificates"],
                     [packed EXCEPT !.attStmt.sig = None]}
  <2>1. object.authData = data
    BY <1>1, <1>4
  <2>2. object.fmt = "packed" =>
           object.attStmt = None \/ object.attStmt.sig \in {SignatureBy(b), None}
    BY <1>1, <1>4
  <2> QED
    BY <1>2, <2>1, <2>2 DEF CopyOf, SignedCopyOf, data, key
<1>5. CASE object = [packed EXCEPT !.authData = None]
  BY <1>1, <1>5
<1>6. ASSUME NEW n, object = [none EXCEPT !.authData.length = n]
      PROVE  CopyOf(object, b) /\ object.fmt = "none"
  <2>1. /\ object.authData = [data EXCEPT !.length = n]
        /\ object.fmt = "none"
    BY <1>1, <1>6
  <2>2. /\ object.authData.attested = data.attested
        /\ object.authData.sign_count = b.sign_count
    BY <1>2, <2>1
  <2> QED
    BY <1>2, <2>1, <2>2 DEF CopyOf, key
<1>7. ASSUME NEW k, object = [none EXCEPT !.authData.attested.key = k],
             k \in {[key EXCEPT !.form = "other"], [key EXCEPT !.kty = "RSA"],
                   [key EXCEPT !.crv = 2], [key EXCEPT !.x.length = 31],
                   [key EXCEPT !.y = None]}
      PROVE  CopyOf(object, b) /\ object.fmt = "none"
  <2>1. /\ object.authData = [data EXCEPT !.attested.key = k]
        /\ object.fmt = "none"
    BY <1>1, <1>7
  <2>2. /\ object.authData.attested = [data.attested EXCEPT !.key = k]
        /\ object.authData.sign_count = b.sign_count
    BY <1>2, <2>1
  <2>3. /\ object.authData.attested.credential_id = b.device
        /\ object.authData.attested.key = k
    BY <1>2, <2>2
  <2> QED
    BY <1>7, <2>1, <2>2, <2>3 DEF CopyOf, key
<1> QED
  BY <1>3, <1>4, <1>5, <1>6, <1>7, Zenon

(* A key that is damaged is not supported, or yields the same material.    *)
LEMMA SupportedKeyIsWhole ==
    ASSUME NEW d \in Devices, NEW k, IsSupportedKey(k),
           k \in LET key == Cose(d)
                 IN {key, [key EXCEPT !.form = "other"],
                     [key EXCEPT !.kty = "RSA"], [key EXCEPT !.crv = 2],
                     [key EXCEPT !.x.length = 31], [key EXCEPT !.y = None]}
    PROVE  extract_public_key_material(k) = KeyOf(d) /\ IsSupportedKey(Cose(d))
<1> DEFINE key == Cose(d)
<1>1. /\ key \in CoseKey
      /\ key.x \in Coordinate
  BY LoginAssumption DEF CoseKey
<1> HIDE DEF key
<1>2. CASE k = [key EXCEPT !.x.length = 31]
  <2>1. k.x = [key.x EXCEPT !.length = 31]
    BY <1>1, <1>2 DEF CoseKey
  <2>2. k.x.length = 31
    BY <1>1, <2>1 DEF Coordinate
  <2> QED
    BY <2>2 DEF IsSupportedKey, Is32
<1>3. CASE k = [key EXCEPT !.kty = "RSA"]
  <2>1. k.kty = "RSA"
    BY <1>1, <1>3 DEF CoseKey
  <2> QED
    BY <2>1 DEF IsSupportedKey
<1>4. CASE k = [key EXCEPT !.crv = 2]
  <2>1. k.crv = 2
    BY <1>1, <1>4 DEF CoseKey
  <2> QED
    BY <2>1 DEF IsSupportedKey, P_256, Ed25519
<1>5. CASE k = [key EXCEPT !.y = None]
  <2>1. k.kty = key.kty /\ k.crv = key.crv /\ k.x = key.x /\ k.y = None
    BY <1>1, <1>5 DEF CoseKey
  <2>2. k.kty = "OKP" /\ k.crv = Ed25519 /\ Is32(k.x)
    BY <2>1 DEF IsSupportedKey, Is32
  <2>3. IsSupportedKey(key)
    BY <2>1, <2>2 DEF IsSupportedKey
  <2> QED
    BY <2>1, <2>2, <2>3 DEF extract_public_key_material, KeyOf, key
<1>6. CASE k = [key EXCEPT !.form = "other"]
  <2>1. k.kty = key.kty /\ k.crv = key.crv /\ k.x = key.x /\ k.y = key.y
    BY <1>1, <1>6 DEF CoseKey
  <2>2. IsSupportedKey(key)
    BY <2>1 DEF IsSupportedKey
  <2> QED
    BY <2>1, <2>2 DEF extract_public_key_material, KeyOf, key
<1>7. CASE k = key
  BY <1>7 DEF KeyOf, key
<1> QED
  BY <1>2, <1>3, <1>4, <1>5, <1>6, <1>7 DEF key

(* A registration that is accepted stores the key of the device that       *)
(* answered; an attested one was answered for this very challenge          *)
(* (registration.rs:78-152).                                               *)
LEMMA RegistrationIsAnswered ==
    ASSUME NEW b \in Answer, b.type = "webauthn.create",
           NEW object \in AttestationCopies(b), NEW data,
           verify_registration_ceremony(RegistrationInput(data, object))
    PROVE  LET outcome == RegistrationOutcome(RegistrationInput(data, object))
           IN /\ outcome.credential_id = b.device
              /\ outcome.public_key = KeyOf(b.device)
              /\ IsSupportedKey(Cose(b.device))
              /\ outcome.sign_count = b.sign_count
              /\ outcome.attestation_format \in {"none", "packed"}
              /\ outcome.attestation_format = "packed" =>
                    /\ Answered(b, b.device, "webauthn.create", b.challenge)
                    /\ presented_challenge_bytes(data) = b.challenge
<1> DEFINE input == RegistrationInput(data, object)
           auth_data == object.authData
           cose == auth_data.attested.key
           material == extract_public_key_material(cose)
<1>1. /\ input.attestation_object = object
      /\ input.client_data_json = data
      /\ input.expected_origin = origin
  BY DEF RegistrationInput
<1>2. /\ RegistrationOutcome(input).credential_id = auth_data.attested.credential_id
      /\ RegistrationOutcome(input).public_key = material
      /\ RegistrationOutcome(input).sign_count = auth_data.sign_count
      /\ RegistrationOutcome(input).attestation_format = object.fmt
  BY <1>1 DEF RegistrationOutcome
<1>3. /\ data.form = "json" /\ data.type = "webauthn.create"
      /\ data.origin = origin
      /\ data.challenge.encoding = "base64url"
      /\ auth_data # None
      /\ object.fmt \in {"none", "packed"}
      /\ FLAG_USER_PRESENT \in auth_data.flags
      /\ IsSupportedKey(cose)
      /\ object.fmt = "packed" =>
            verify_packed_attestation(object.attStmt, auth_data, data, material)
  BY <1>1 DEF verify_registration_ceremony, client_data_verifies
<1>4. CopyOf(object, b) /\ (object.fmt = "packed" => SignedCopyOf(object, b))
  BY <1>3, AttestationCopy, Zenon
<1>5. /\ auth_data.attested.credential_id = b.device
      /\ auth_data.sign_count = b.sign_count
  BY <1>4, Zenon DEF CopyOf
<1>6. material = KeyOf(b.device) /\ IsSupportedKey(Cose(b.device))
  <2>1. b.device \in Devices
    BY DEF Answer
  <2> QED
    BY <1>3, <1>4, <2>1, SupportedKeyIsWhole DEF CopyOf
<1>7. ASSUME object.fmt = "packed"
      PROVE  /\ Answered(b, b.device, "webauthn.create", b.challenge)
             /\ presented_challenge_bytes(data) = b.challenge
  <2>1. /\ object.attStmt # None /\ object.attStmt.sig # None
        /\ object.attStmt.sig = ProofOf(material, ProofMessage(auth_data, data))
    BY <1>3, <1>7 DEF verify_packed_attestation, verify_proof
  <2>2. object.attStmt.sig = SignatureBy(b) /\ auth_data = AuthenticatorData(b)
    BY <1>4, <1>7, <2>1 DEF SignedCopyOf
  <2>3. ClientDataJson(b) = data
    BY <2>1, <2>2 DEF SignatureBy, ProofOf, ProofMessage, sha256
  <2>4. b.origin = origin /\ data.challenge.bytes = b.challenge
    BY <1>3, <2>3 DEF ClientDataJson
  <2>5. FLAG_USER_PRESENT \in b.flags
    <3>1. auth_data.flags = b.flags \cup {FLAG_ATTESTED_CRED_DATA}
      BY <2>2, RegistrationData
    <3> QED
      BY <1>3, <3>1 DEF FLAG_USER_PRESENT, FLAG_ATTESTED_CRED_DATA
  <2> QED
    BY <1>3, <2>4, <2>5 DEF Answered, presented_challenge_bytes
<1> QED
  BY <1>2, <1>3, <1>5, <1>6, <1>7

-----------------------------------------------------------------------------
(* What no step takes away: a row, its key and its subject; the use of a   *)
(* challenge.                                                              *)
RowsKept ==
    \A d \in Devices : authenticators[d] # None =>
        /\ authenticators'[d] # None
        /\ authenticators'[d].credential_id = authenticators[d].credential_id
        /\ authenticators'[d].public_key = authenticators[d].public_key
        /\ authenticators'[d].subject_id = authenticators[d].subject_id
        /\ authenticators'[d].attestation_format
              = authenticators[d].attestation_format

ChallengesKept ==
    \A c \in Challenges :
        challenges[c].status = "used" => challenges'[c] = challenges[c]

Kept == RowsKept /\ ChallengesKept /\ answers \subseteq answers'

LEMMA RowStaysGenuine ==
    ASSUME IInv, Kept, NEW d \in Devices, authenticators[d] # None
    PROVE  RowIsGenuine(d)'
<1>1. RowIsGenuine(d)
  BY DEF IInv, Genuine
<1>2. \A a \in answers : a.challenge \in Challenges
  BY DEF IInv, TypeOK, Answer
<1>3. /\ authenticators'[d].credential_id = d
      /\ authenticators'[d].public_key = KeyOf(d) /\ IsSupportedKey(Cose(d))
      /\ authenticators'[d].subject_id = authenticators[d].subject_id
      /\ authenticators'[d].attestation_format
            = authenticators[d].attestation_format
  BY <1>1 DEF RowIsGenuine, Kept, RowsKept
<1>4. ASSUME authenticators[d].attestation_format = "packed"
      PROVE  \E a \in answers' :
                /\ Answered(a, d, "webauthn.create", a.challenge)
                /\ challenges'[a.challenge].kind = "registration"
                /\ challenges'[a.challenge].status = "used"
                /\ challenges'[a.challenge].subject_id
                      = authenticators[d].subject_id
  <2>1. PICK a \in answers :
                /\ Answered(a, d, "webauthn.create", a.challenge)
                /\ challenges[a.challenge].kind = "registration"
                /\ challenges[a.challenge].status = "used"
                /\ challenges[a.challenge].subject_id
                      = authenticators[d].subject_id
    BY <1>1, <1>4 DEF RowIsGenuine
  <2>2. a \in answers' /\ challenges'[a.challenge] = challenges[a.challenge]
    BY <1>2, <2>1 DEF Kept, ChallengesKept
  <2> QED
    BY <2>1, <2>2
<1> QED
  BY <1>3, <1>4 DEF RowIsGenuine

LEMMA LoginStaysGenuine ==
    ASSUME IInv, Kept, NEW l \in LoginRecord, LoginIsGenuine(l)
    PROVE  LoginIsGenuine(l)'
<1>1. l.challenge \in Challenges /\ l.claims.credential_id \in Devices
  BY DEF LoginRecord, Claims
<1>2. \E a \in answers' :
          /\ Answered(a, l.claims.credential_id, "webauthn.get", l.challenge)
          /\ a.sign_count = l.claims.new_sign_count
          /\ l.claims.aal = "AAL2" <=> FLAG_USER_VERIFIED \in a.flags
  BY DEF LoginIsGenuine, Kept
<1>3. /\ authenticators'[l.claims.credential_id] # None
      /\ l.claims.subject_id = authenticators'[l.claims.credential_id].subject_id
  BY <1>1 DEF LoginIsGenuine, Kept, RowsKept
<1>4. challenges'[l.challenge].status = "used"
  BY <1>1 DEF LoginIsGenuine, Kept, ChallengesKept
<1> QED
  BY <1>2, <1>3, <1>4 DEF LoginIsGenuine

(* A step that keeps all this, adds genuine rows and leaves the logins.    *)
LEMMA StaysGenuine ==
    ASSUME IInv, TypeOK', Kept, logins' = logins,
           \A d \in Devices :
              authenticators[d] = None /\ authenticators'[d] # None
                => RowIsGenuine(d)'
    PROVE  IInv'
<1>1. \A d \in Devices : authenticators'[d] # None => RowIsGenuine(d)'
  BY RowStaysGenuine
<1>2. \A i \in DOMAIN logins : logins[i] \in LoginRecord
  BY DEF IInv, TypeOK
<1>3. \A i \in DOMAIN logins : LoginIsGenuine(logins[i])
  BY DEF IInv, Genuine
<1>4. ASSUME NEW i \in DOMAIN logins
      PROVE  LoginIsGenuine(logins[i])'
  <2>1. PICK l \in LoginRecord : l = logins[i] /\ LoginIsGenuine(l)
    BY <1>2, <1>3
  <2>2. LoginIsGenuine(l)'
    BY <2>1, LoginStaysGenuine
  <2>3. logins'[i] = l
    BY <2>1
  <2> QED
    BY <2>2, <2>3 DEF LoginIsGenuine
<1> QED
  BY <1>1, <1>4 DEF IInv, Genuine

LEMMA InitIInv == Init => IInv
<1> SUFFICES ASSUME Init PROVE IInv
  OBVIOUS
<1>1. PICK earlier \in SUBSET {d \in Devices : IsSupportedKey(Cose(d))} :
         authenticators = [d \in Devices |-> IF d \in earlier
                                            THEN EarlierRow(d) ELSE None]
  BY DEF Init
<1>2. ASSUME NEW d \in Devices
      PROVE  /\ EarlierRow(d) \in Row
             /\ EarlierRow(d).credential_id = d
             /\ EarlierRow(d).public_key = KeyOf(d)
             /\ EarlierRow(d).attestation_format = "none"
  BY LoginAssumption DEF EarlierRow, Row, KeyOf
<1>3. TypeOK
  BY <1>1, <1>2, LoginAssumption DEF Init, TypeOK
<1>4. \A d \in Devices : authenticators[d] # None => RowIsGenuine(d)
  BY <1>1, <1>2 DEF RowIsGenuine
<1>5. DOMAIN logins = {}
  BY DEF Init
<1> QED
  BY <1>3, <1>4, <1>5 DEF IInv, Genuine

LEMMA IssueKeeps ==
    ASSUME IInv, NEW c \in Challenges, NEW kind, NEW subject,
           [status |-> "issued", kind |-> kind, subject_id |-> subject]
              \in Challenge,
           IssueChallenge(c, kind, subject)
    PROVE  IInv'
<1>1. TypeOK'
  BY DEF IInv, TypeOK, IssueChallenge
<1>2. Kept
  BY DEF Kept, RowsKept, ChallengesKept, IssueChallenge, Absent, IInv, TypeOK
<1> QED
  BY <1>1, <1>2, StaysGenuine DEF IssueChallenge

LEMMA ExpireKeeps ==
    ASSUME IInv, NEW c \in Challenges, ExpireChallenge(c)
    PROVE  IInv'
<1>1. challenges[c] \in Challenge
  BY DEF IInv, TypeOK, ExpireChallenge, Absent
<1>2. [challenges[c] EXCEPT !.status = "expired"] \in Challenge
  BY <1>1 DEF Challenge, Status
<1>3. TypeOK'
  BY <1>2 DEF IInv, TypeOK, ExpireChallenge
<1>4. Kept
  BY DEF Kept, RowsKept, ChallengesKept, ExpireChallenge, IInv, TypeOK
<1> QED
  BY <1>3, <1>4, StaysGenuine DEF ExpireChallenge

LEMMA RevokeKeeps ==
    ASSUME IInv, NEW d \in Devices, RevokeAuthenticator(d)
    PROVE  IInv'
<1>1. authenticators[d] \in Row /\ authenticators[d] # None
  BY DEF IInv, TypeOK, RevokeAuthenticator
<1> DEFINE row == [authenticators[d] EXCEPT !.revoked = TRUE]
<1>2. /\ row \in Row
      /\ row.credential_id = authenticators[d].credential_id
      /\ row.public_key = authenticators[d].public_key
      /\ row.subject_id = authenticators[d].subject_id
      /\ row.attestation_format = authenticators[d].attestation_format
  BY <1>1, Zenon DEF Row
<1>3. authenticators' = [authenticators EXCEPT ![d] = row]
  BY DEF RevokeAuthenticator
<1> HIDE DEF row
<1>4. row # None
  BY <1>2, AbsenceAssumption DEF NoneIsApart
<1>5. TypeOK'
  BY <1>2, <1>3, Zenon DEF IInv, TypeOK, RevokeAuthenticator
<1>6. Kept
  BY <1>2, <1>3, <1>4, Zenon
     DEF Kept, RowsKept, ChallengesKept, RevokeAuthenticator, IInv, TypeOK
<1> QED
  BY <1>3, <1>5, <1>6, StaysGenuine DEF RevokeAuthenticator, IInv, TypeOK

LEMMA AnswerKeeps ==
    ASSUME IInv, NEW d \in Devices, NEW c \in Challenges, DeviceAnswers(d, c)
    PROVE  IInv'
<1>1. PICK g \in Gestures(c) :
        /\ counter' = [counter EXCEPT ![d] =
                          IF g.type = "webauthn.get" THEN @ + 1 ELSE @]
        /\ answers' = answers \cup
              {[device |-> d, sign_count |-> counter'[d], type |-> g.type,
                challenge |-> c, origin |-> g.origin, flags |-> g.flags]}
  BY Zenon DEF DeviceAnswers
<1>2. counter' \in [Devices -> Nat]
  BY <1>1 DEF IInv, TypeOK
<1>3. challenges[c].kind \in {"registration", "authentication"}
  <2>1. challenges[c] \in Challenge
    BY DEF IInv, TypeOK, DeviceAnswers
  <2> QED
    BY <2>1 DEF Challenge
<1>4. /\ g.type \in {"webauthn.create", "webauthn.get"}
      /\ g.origin \in {origin, "https://other"}
      /\ g.flags \in SUBSET Flags
  BY <1>3 DEF Gestures, TypeOf, Flags
<1>5. answers' \in SUBSET Answer
  <2> DEFINE n == counter'[d]
             a == [device |-> d, sign_count |-> n, type |-> g.type,
                   challenge |-> c, origin |-> g.origin, flags |-> g.flags]
  <2>1. n \in Nat
    BY <1>2
  <2> HIDE DEF n
  <2>2. a \in Answer
    BY <1>4, <2>1 DEF Answer
  <2>3. answers' = answers \cup {a}
    BY <1>1 DEF n
  <2> QED
    BY <2>2, <2>3 DEF IInv, TypeOK
<1>6. TypeOK'
  BY <1>2, <1>5 DEF IInv, TypeOK, DeviceAnswers
<1>7. Kept
  BY <1>1 DEF Kept, RowsKept, ChallengesKept, DeviceAnswers
<1> QED
  BY <1>6, <1>7, StaysGenuine DEF DeviceAnswers

-----------------------------------------------------------------------------
(* A challenge is read in what a device answered; once consumed it is used *)
(* and stays so.                                                           *)
LEMMA PresentedChallenge ==
    ASSUME NEW a \in Answer, NEW data \in ClientDataCopies(a),
           presented_challenge_bytes(data) # None
    PROVE  presented_challenge_bytes(data) = a.challenge
<1> DEFINE json == ClientDataJson(a)
<1>1. json = [form |-> "json", type |-> a.type, origin |-> a.origin,
              challenge |-> [bytes |-> a.challenge, encoding |-> "base64url"]]
  BY DEF ClientDataJson
<1>2. data \in {json, [json EXCEPT !.form = "other"],
                [json EXCEPT !.challenge.encoding = "padded"]}
  BY DEF ClientDataCopies
<1> HIDE DEF json
<1>3. CASE data = json
  BY <1>1, <1>3 DEF presented_challenge_bytes
<1>4. CASE data = [json EXCEPT !.form = "other"]
  BY <1>1, <1>4 DEF presented_challenge_bytes
<1>5. CASE data = [json EXCEPT !.challenge.encoding = "padded"]
  BY <1>1, <1>5 DEF presented_challenge_bytes
<1> QED
  BY <1>2, <1>3, <1>4, <1>5

LEMMA ConsumeUses ==
    ASSUME IInv, NEW a \in Answer, NEW data \in ClientDataCopies(a), NEW kind,
           Consume(data, kind)
    PROVE  LET c == presented_challenge_bytes(data)
           IN /\ c = a.challenge /\ c \in Challenges
              /\ challenges[c] \in Challenge
              /\ challenges[c].status = "issued" /\ challenges[c].kind = kind
              /\ challenges' \in [Challenges -> Challenge \cup {Absent}]
              /\ challenges'[c].status = "used"
              /\ challenges'[c].kind = kind
              /\ challenges'[c].subject_id = challenges[c].subject_id
              /\ ChallengesKept
<1> DEFINE c == presented_challenge_bytes(data)
<1>1. c = a.challenge /\ c \in Challenges
  BY PresentedChallenge DEF Consume, Answer
<1>2. /\ challenges[c].status = "issued" /\ challenges[c].kind = kind
      /\ challenges' = [challenges EXCEPT ![c].status = "used"]
  BY DEF Consume, IsIssued
<1> HIDE DEF c
<1>3. challenges[c] \in Challenge
  BY <1>1, <1>2 DEF IInv, TypeOK, Absent
<1> DEFINE used == [challenges[c] EXCEPT !.status = "used"]
<1>4. /\ used \in Challenge /\ used.status = "used"
      /\ used.kind = challenges[c].kind
      /\ used.subject_id = challenges[c].subject_id
  BY <1>3 DEF Challenge, Status
<1>5. challenges' = [challenges EXCEPT ![c] = used]
  BY <1>2
<1> HIDE DEF used
<1>6. /\ challenges' \in [Challenges -> Challenge \cup {Absent}]
      /\ challenges'[c] = used
      /\ \A x \in Challenges : x # c => challenges'[x] = challenges[x]
  BY <1>1, <1>4, <1>5 DEF IInv, TypeOK
<1>7. ChallengesKept
  BY <1>2, <1>6 DEF ChallengesKept
<1> QED
  BY <1>1, <1>2, <1>3, <1>4, <1>6, <1>7 DEF c

LEMMA RegistrationKeeps ==
    ASSUME IInv, VerifyRegistration
    PROVE  IInv'
<1>1. PICK a \in answers, b \in {x \in answers : x.type = "webauthn.create"} :
        \E data \in ClientDataCopies(a), object \in AttestationCopies(b) :
          LET input   == RegistrationInput(data, object)
              outcome == RegistrationOutcome(input)
              subject == challenges[input.expected_challenge].subject_id
              accepted == /\ verify_registration_ceremony(input)
                          /\ authenticators[outcome.credential_id] = None
          IN /\ Consume(data, "registration")
             /\ \/ /\ accepted
                   /\ authenticators' = [authenticators EXCEPT
                         ![outcome.credential_id] = NewRow(subject, outcome)]
                \/ ~accepted /\ UNCHANGED authenticators
  BY DEF VerifyRegistration
<1>2. PICK data \in ClientDataCopies(a), object \in AttestationCopies(b) :
          LET input   == RegistrationInput(data, object)
              outcome == RegistrationOutcome(input)
              subject == challenges[input.expected_challenge].subject_id
              accepted == /\ verify_registration_ceremony(input)
                          /\ authenticators[outcome.credential_id] = None
          IN /\ Consume(data, "registration")
             /\ \/ /\ accepted
                   /\ authenticators' = [authenticators EXCEPT
                         ![outcome.credential_id] = NewRow(subject, outcome)]
                \/ ~accepted /\ UNCHANGED authenticators
  BY <1>1
<1> DEFINE input == RegistrationInput(data, object)
           outcome == RegistrationOutcome(input)
           c == presented_challenge_bytes(data)
           subject == challenges[c].subject_id
           row == NewRow(subject, outcome)
<1>3. input.expected_challenge = c
  BY DEF RegistrationInput
<1>4. a \in Answer /\ b \in Answer /\ b.device \in Devices
      /\ b.type = "webauthn.create" /\ b.sign_count \in Nat /\ b \in answers
  BY DEF IInv, TypeOK, Answer
<1>5. UNCHANGED <<now, counter, answers, logins, reply>>
  BY DEF VerifyRegistration
<1>6. Consume(data, "registration")
  BY <1>2
<1>7. /\ c \in Challenges
      /\ challenges[c] \in Challenge /\ challenges[c].kind = "registration"
      /\ challenges' \in [Challenges -> Challenge \cup {Absent}]
      /\ challenges'[c].status = "used"
      /\ challenges'[c].kind = "registration"
      /\ challenges'[c].subject_id = subject
      /\ ChallengesKept
  BY <1>4, <1>6, ConsumeUses
<1>8. CASE UNCHANGED authenticators
  <2>1. TypeOK'
    BY <1>5, <1>7, <1>8 DEF IInv, TypeOK
  <2>2. Kept
    BY <1>5, <1>7, <1>8 DEF Kept, RowsKept
  <2> QED
    BY <1>5, <1>8, <2>1, <2>2, StaysGenuine
<1>9. CASE /\ verify_registration_ceremony(input)
           /\ authenticators[outcome.credential_id] = None
           /\ authenticators' = [authenticators EXCEPT
                                   ![outcome.credential_id] = row]
  <2> DEFINE d == b.device
  <2>1. /\ outcome.credential_id = d
        /\ outcome.public_key = KeyOf(d) /\ IsSupportedKey(Cose(d))
        /\ outcome.sign_count = b.sign_count
        /\ outcome.attestation_format \in {"none", "packed"}
        /\ outcome.attestation_format = "packed" =>
              /\ Answered(b, d, "webauthn.create", b.challenge)
              /\ c = b.challenge
    BY <1>4, <1>9, RegistrationIsAnswered
  <2>2. subject \in Subjects
    BY <1>7 DEF Challenge
  <2> HIDE DEF outcome, c, subject
  <2>3. /\ row.credential_id = d /\ row.public_key = KeyOf(d)
        /\ row.subject_id = subject
        /\ row.attestation_format = outcome.attestation_format
        /\ row \in Row
    BY <1>4, <2>1, <2>2, Zenon DEF NewRow, Row
  <2> HIDE DEF row
  <2>4. d \in Devices /\ authenticators[d] = None
        /\ authenticators' = [authenticators EXCEPT ![d] = row]
    BY <1>4, <1>9, <2>1
  <2>5. TypeOK'
    BY <1>5, <1>7, <2>3, <2>4 DEF IInv, TypeOK
  <2>6. /\ authenticators'[d] = row
        /\ \A e \in Devices : e # d => authenticators'[e] = authenticators[e]
    BY <2>4 DEF IInv, TypeOK
  <2>7. Kept
    BY <1>5, <1>7, <2>4, <2>6 DEF Kept, RowsKept
  <2>8. RowIsGenuine(d)'
    <3>1. ASSUME row.attestation_format = "packed"
          PROVE  \E x \in answers' :
                    /\ Answered(x, d, "webauthn.create", x.challenge)
                    /\ challenges'[x.challenge].kind = "registration"
                    /\ challenges'[x.challenge].status = "used"
                    /\ challenges'[x.challenge].subject_id = row.subject_id
      <4>1. /\ Answered(b, d, "webauthn.create", b.challenge)
            /\ c = b.challenge
        BY <2>1, <2>3, <3>1
      <4>2. b \in answers'
        BY <1>4, <1>5
      <4>3. /\ challenges'[b.challenge].kind = "registration"
            /\ challenges'[b.challenge].status = "used"
            /\ challenges'[b.challenge].subject_id = row.subject_id
        BY <1>7, <2>3, <4>1
      <4> QED
        BY <4>1, <4>2, <4>3
    <3> QED
      BY <2>1, <2>3, <2>6, <3>1 DEF RowIsGenuine
  <2>9. \A e \in Devices : authenticators[e] = None /\ authenticators'[e] # None
                             => RowIsGenuine(e)'
    BY <2>6, <2>8
  <2> QED
    BY <1>5, <2>5, <2>7, <2>9, StaysGenuine
<1> QED
  BY <1>2, <1>3, <1>8, <1>9

(* An authentication that is accepted adds a login made of the answer of   *)
(* the registered device; a challenge that was consumed made no other.     *)
LEMMA AuthenticationKeeps ==
    ASSUME IInv, VerifyAuthentication
    PROVE  IInv'
<1> DEFINE input(data, auth_data, x, d) ==
              AuthenticationInput(data, auth_data, SignatureBy(x),
                                  authenticators[d])
           claims(data, auth_data, x, d) ==
              AuthenticationClaims(input(data, auth_data, x, d))
           entry(data, auth_data, x, d) ==
              [claims |-> claims(data, auth_data, x, d), at |-> now,
               challenge |-> presented_challenge_bytes(data)]
<1>1. PICK a \in answers, b \in answers, x \in answers, d \in Devices :
      \E data \in ClientDataCopies(a), auth_data \in AuthenticatorDataCopies(b) :
        /\ Consume(data, "authentication")
        /\ \/ /\ authenticators[d] # None
              /\ verify_authentication_ceremony(input(data, auth_data, x, d))
              /\ authenticators[d].sign_count
                    < claims(data, auth_data, x, d).new_sign_count
              /\ authenticators' = [authenticators EXCEPT ![d].sign_count =
                                      claims(data, auth_data, x, d).new_sign_count]
              /\ logins' \in {logins,
                              Append(logins, entry(data, auth_data, x, d))}
           \/ UNCHANGED <<authenticators, logins>>
  BY DEF VerifyAuthentication, AuthenticationInput
<1>2. PICK data \in ClientDataCopies(a), auth_data \in AuthenticatorDataCopies(b) :
        /\ Consume(data, "authentication")
        /\ \/ /\ authenticators[d] # None
              /\ verify_authentication_ceremony(input(data, auth_data, x, d))
              /\ authenticators[d].sign_count
                    < claims(data, auth_data, x, d).new_sign_count
              /\ authenticators' = [authenticators EXCEPT ![d].sign_count =
                                      claims(data, auth_data, x, d).new_sign_count]
              /\ logins' \in {logins,
                              Append(logins, entry(data, auth_data, x, d))}
           \/ UNCHANGED <<authenticators, logins>>
  BY <1>1
<1> DEFINE c == presented_challenge_bytes(data)
           row == authenticators[d]
           cl == claims(data, auth_data, x, d)
           l == entry(data, auth_data, x, d)
<1>3. a \in Answer /\ x \in Answer
  BY DEF IInv, TypeOK
<1>4. UNCHANGED <<now, counter, answers, reply>>
  BY DEF VerifyAuthentication
<1>5. /\ c \in Challenges
      /\ challenges[c].status = "issued"
      /\ challenges' \in [Challenges -> Challenge \cup {Absent}]
      /\ challenges'[c].status = "used"
      /\ ChallengesKept
  BY <1>2, <1>3, ConsumeUses
<1>6. CASE UNCHANGED <<authenticators, logins>>
  <2>1. TypeOK'
    BY <1>4, <1>5, <1>6 DEF IInv, TypeOK
  <2>2. Kept
    BY <1>4, <1>5, <1>6 DEF Kept, RowsKept
  <2> QED
    BY <1>6, <2>1, <2>2, StaysGenuine
<1>7. CASE /\ row # None
           /\ verify_authentication_ceremony(input(data, auth_data, x, d))
           /\ authenticators' = [authenticators EXCEPT ![d].sign_count =
                                    cl.new_sign_count]
           /\ logins' \in {logins, Append(logins, l)}
  <2>1. row \in Row /\ RowIsGenuine(d)
    BY <1>7 DEF IInv, TypeOK, Genuine
  <2>2. row.public_key = KeyOf(d) /\ row.credential_id = d
    BY <2>1 DEF RowIsGenuine
  <2>3. /\ Answered(x, d, "webauthn.get", x.challenge)
        /\ c = x.challenge
        /\ auth_data.sign_count = x.sign_count
        /\ auth_data.flags = x.flags
    BY <1>3, <1>7, <2>2, AuthenticationIsAnswered
  <2>4. /\ cl.subject_id = row.subject_id
        /\ cl.credential_id = row.credential_id
        /\ cl.aal = IF FLAG_USER_VERIFIED \in auth_data.flags THEN "AAL2"
                    ELSE "AAL1"
        /\ cl.new_sign_count = auth_data.sign_count
        /\ cl = [subject_id |-> cl.subject_id,
                 credential_id |-> cl.credential_id, aal |-> cl.aal,
                 method |-> cl.method, new_sign_count |-> cl.new_sign_count]
        /\ cl.method \in {"webauthn/device-bound", "webauthn/synced-or-unknown"}
    <3> DEFINE credential == RegisteredCredential(row)
    <3>1. /\ credential.subject_id = row.subject_id
          /\ credential.credential_id = row.credential_id
      BY DEF RegisteredCredential
    <3> HIDE DEF credential
    <3> DEFINE in == input(data, auth_data, x, d)
    <3>2. in.credential = credential /\ in.authenticator_data = auth_data
      BY DEF AuthenticationInput, credential
    <3>3. cl = AuthenticationClaims(in)
      OBVIOUS
    <3> HIDE DEF in, cl
    <3> DEFINE aal == IF FLAG_USER_VERIFIED \in in.authenticator_data.flags
                      THEN "AAL2" ELSE "AAL1"
               method == IF in.credential.counter_supported
                         THEN "webauthn/device-bound"
                         ELSE "webauthn/synced-or-unknown"
    <3>4. cl = [subject_id |-> in.credential.subject_id,
                credential_id |-> in.credential.credential_id, aal |-> aal,
                method |-> method,
                new_sign_count |-> in.authenticator_data.sign_count]
      BY <3>3 DEF AuthenticationClaims
    <3>5. method \in {"webauthn/device-bound", "webauthn/synced-or-unknown"}
      BY Zenon
    <3>6. aal = IF FLAG_USER_VERIFIED \in auth_data.flags THEN "AAL2"
                ELSE "AAL1"
      BY <3>2
    <3> HIDE DEF aal, method
    <3> QED
      BY <3>1, <3>2, <3>4, <3>5, <3>6
  <2>5. x.sign_count \in Nat
    BY <1>3 DEF Answer
  <2>6. l.claims = cl /\ l.challenge = c
        /\ l = [claims |-> cl, at |-> now, challenge |-> c]
    OBVIOUS
  <2> HIDE DEF cl, l, c
  <2>7. cl \in Claims
    BY <2>1, <2>2, <2>3, <2>4, <2>5 DEF Claims, Row
  <2>8. l \in LoginRecord
    BY <1>5, <2>6, <2>7 DEF LoginRecord, IInv, TypeOK
  <2> DEFINE next == [row EXCEPT !.sign_count = cl.new_sign_count]
  <2>9. /\ next \in Row
        /\ next.credential_id = row.credential_id
        /\ next.public_key = row.public_key
        /\ next.subject_id = row.subject_id
        /\ next.attestation_format = row.attestation_format
    BY <2>1, <2>7 DEF Row, Claims
  <2>10. authenticators' = [authenticators EXCEPT ![d] = next]
    BY <1>7
  <2> HIDE DEF next
  <2>11. next # None
    BY <2>9, AbsenceAssumption DEF NoneIsApart
  <2>12. /\ authenticators' \in [Devices -> Row \cup {None}]
         /\ authenticators'[d] = next
         /\ \A e \in Devices : e # d => authenticators'[e] = authenticators[e]
    BY <2>9, <2>10 DEF IInv, TypeOK
  <2>13. Kept
    BY <1>4, <1>5, <2>9, <2>11, <2>12 DEF Kept, RowsKept
  <2>14. CASE logins' = logins
    <3>1. TypeOK'
      BY <1>4, <1>5, <2>12, <2>14 DEF IInv, TypeOK
    <3> QED
      BY <1>7, <2>12, <2>13, <2>14, <3>1, StaysGenuine
  <2>15. CASE logins' = Append(logins, l)
    <3> DEFINE n == Len(logins)
    <3>1. logins \in Seq(LoginRecord) /\ n \in Nat
      BY DEF IInv, TypeOK
    <3>2. /\ logins' \in Seq(LoginRecord)
          /\ DOMAIN logins' = 1..n + 1
          /\ DOMAIN logins = 1..n
          /\ logins'[n + 1] = l
          /\ \A i \in 1..n : logins'[i] = logins[i]
      <4> DEFINE s == Append(logins, l)
      <4>1. /\ s \in Seq(LoginRecord)
            /\ DOMAIN s = 1..n + 1 /\ DOMAIN logins = 1..n
            /\ s[n + 1] = l
            /\ \A i \in 1..n : s[i] = logins[i]
        <5> HIDE DEF l
        <5> QED
          BY <2>8, <3>1, Appended
      <4> HIDE DEF s, n, l
      <4>2. logins' = s
        BY <2>15, Zenon DEF s
      <4> QED
        BY <4>1, <4>2, Zenon
    <3>3. TypeOK'
      BY <1>4, <1>5, <2>12, <3>2, Zenon DEF IInv, TypeOK
    <3>4. ASSUME NEW k, k = l PROVE LoginIsGenuine(k)'
      <4>1. x \in answers'
        BY <1>4
      <4>2. /\ Answered(x, k.claims.credential_id, "webauthn.get", k.challenge)
            /\ x.sign_count = k.claims.new_sign_count
            /\ k.claims.aal = "AAL2" <=> FLAG_USER_VERIFIED \in x.flags
        BY <2>2, <2>3, <2>4, <2>6, <3>4
      <4>3. /\ authenticators'[k.claims.credential_id] # None
            /\ k.claims.subject_id
                  = authenticators'[k.claims.credential_id].subject_id
        BY <2>2, <2>4, <2>6, <3>4, <2>9, <2>11, <2>12, Zenon
      <4>4. challenges'[k.challenge].status = "used"
        BY <1>5, <2>6, <3>4, Zenon DEF c
      <4> QED
        BY <4>1, <4>2, <4>3, <4>4 DEF LoginIsGenuine
    <3>5. ASSUME NEW i \in 1..n
          PROVE  /\ LoginIsGenuine(logins[i])'
                 /\ logins[i].challenge # l.challenge
      <4>1. PICK k \in LoginRecord : k = logins[i] /\ LoginIsGenuine(k)
        BY <3>1, <3>2, <3>5 DEF IInv, Genuine
      <4>2. LoginIsGenuine(k)'
        BY <2>13, <4>1, LoginStaysGenuine
      <4>3. k.challenge # c
        BY <1>5, <4>1 DEF LoginIsGenuine, c
      <4>4. logins'[i] = k
        BY <3>2, <4>1
      <4> QED
        BY <2>6, <4>1, <4>2, <4>3, <4>4
    <3>6. \A d2 \in Devices : authenticators'[d2] # None => RowIsGenuine(d2)'
      BY <1>7, <2>12, <2>13, RowStaysGenuine
    <3>7. \A i \in DOMAIN logins' : LoginIsGenuine(logins[i])'
      <4> SUFFICES ASSUME NEW i \in 1..n + 1
                   PROVE  LoginIsGenuine(logins[i])'
        BY <3>2
      <4>1. CASE i = n + 1
        <5>1. PICK k : k = logins'[i]
          OBVIOUS
        <5>2. LoginIsGenuine(k)'
          BY <3>2, <3>4, <4>1, <5>1
        <5> QED
          BY <5>1, <5>2
      <4>2. CASE i \in 1..n
        BY <3>5, <4>2
      <4> QED
        BY <3>1, <4>1, <4>2
    <3>8. \A i, j \in DOMAIN logins' :
             logins'[i].challenge = logins'[j].challenge => i = j
      <4>1. \A i, j \in 1..n : logins[i].challenge = logins[j].challenge => i = j
        BY <3>2 DEF IInv, Genuine
      <4> QED
        BY <3>1, <3>2, <3>5, <4>1
    <3> QED
      BY <3>3, <3>6, <3>7, <3>8 DEF IInv, Genuine
  <2> QED
    BY <1>7, <2>14, <2>15
<1> QED
  BY <1>2, <1>6, <1>7

(* What the other steps leave alone.                                       *)
LEMMA ReplyKeeps ==
    ASSUME IInv,
           \/ Tick
           \/ UNCHANGED <<now, challenges, authenticators, counter, answers,
                          logins>>
    PROVE  IInv'
<1>1. UNCHANGED <<challenges, authenticators, counter, answers, logins>>
  BY DEF Tick
<1>2. now' \in Nat
  BY LoginAssumption DEF IInv, TypeOK, Tick
<1>3. TypeOK'
  BY <1>1, <1>2 DEF IInv, TypeOK
<1>4. Kept
  BY <1>1 DEF Kept, RowsKept, ChallengesKept
<1> QED
  BY <1>1, <1>3, <1>4, StaysGenuine

LEMMA Invariance == Spec => []IInv
<1>1. Init => IInv
  BY InitIInv
<1>2. IInv /\ [Next]_vars => IInv'
  <2> SUFFICES ASSUME IInv, [Next]_vars
               PROVE  IInv'
    OBVIOUS
  <2>1. ASSUME NEW c \in Challenges, NEW s \in Subjects,
               IssueChallenge(c, "registration", s)
        PROVE  IInv'
    <3>1. [status |-> "issued", kind |-> "registration", subject_id |-> s]
             \in Challenge
      BY DEF Challenge, Status
    <3> QED
      BY <2>1, <3>1, IssueKeeps
  <2>2. ASSUME NEW c \in Challenges, IssueChallenge(c, "authentication", None)
        PROVE  IInv'
    <3>1. [status |-> "issued", kind |-> "authentication", subject_id |-> None]
             \in Challenge
      BY DEF Challenge, Status
    <3> QED
      BY <2>2, <3>1, IssueKeeps
  <2>3. ASSUME NEW c \in Challenges, ExpireChallenge(c)
        PROVE  IInv'
    BY <2>3, ExpireKeeps
  <2>4. ASSUME NEW c \in Challenges, NEW d \in Devices, DeviceAnswers(d, c)
        PROVE  IInv'
    BY <2>4, AnswerKeeps
  <2>5. CASE VerifyRegistration
    BY <2>5, RegistrationKeeps
  <2>6. CASE VerifyAuthentication
    BY <2>6, AuthenticationKeeps
  <2>7. ASSUME NEW d \in Devices, RevokeAuthenticator(d)
        PROVE  IInv'
    BY <2>7, RevokeKeeps
  <2>8. CASE Tick
    BY <2>8, ReplyKeeps
  <2>9. CASE VerifyAssertion \/ Recover \/ Return \/ UNCHANGED vars
    BY <2>9, ReplyKeeps DEF VerifyAssertion, Recover, Return, vars
  <2> QED
    BY <2>1, <2>2, <2>3, <2>4, <2>5, <2>6, <2>7, <2>8, <2>9 DEF Next
<1> QED
  BY <1>1, <1>2, PTL DEF Spec

(* Whatever parts a client puts together, what is accepted is genuine:     *)
(* every login has the answer of its device to its own challenge, and      *)
(* every credential the key of its device (authentication.rs:111-159,      *)
(* registration.rs:78-152).                                                *)
THEOREM LoginsAreGenuine == Spec => []AcceptedIsGenuine
<1>1. IInv => AcceptedIsGenuine
  BY DEF IInv, Genuine, AcceptedIsGenuine, LoginIsGenuine, RowIsGenuine, KeyOf
<1> QED
  BY <1>1, Invariance, PTL

-----------------------------------------------------------------------------
(* The material of a supported key is accepted.                            *)
LEMMA SupportedKeyIsAccepted ==
    ASSUME NEW d \in Devices, IsSupportedKey(Cose(d))
    PROVE  accept_key(PROOF_SUITE_V1, KeyOf(d))
<1> DEFINE key == Cose(d)
           material == KeyOf(d)
<1>1. CASE key.kty = "EC2"
  <2>1. material.algorithm = "Es256" /\ material.raw.length = 65
        /\ material.raw.first = 4
    BY <1>1 DEF KeyOf, extract_public_key_material
  <2> QED
    BY <2>1 DEF accept_key
<1>2. CASE key.kty = "OKP" /\ Is32(key.x)
  <2>1. material.algorithm = "EdDsa" /\ material.raw = key.x
    BY <1>2 DEF KeyOf, extract_public_key_material
  <2>2. material.raw.length = 32
    BY <1>2, <2>1 DEF Is32
  <2> QED
    BY <2>1, <2>2 DEF accept_key
<1> QED
  BY <1>1, <1>2 DEF IsSupportedKey

(* The parts of an answer are what they are taken for, none of them None.  *)
LEMMA PartsArePresent ==
    ASSUME NEW a \in Answer
    PROVE  /\ AuthenticatorData(a) \in AuthData
           /\ SignatureBy(a) \in Proof
           /\ [x5c |-> None, sig |-> SignatureBy(a)] \in Statement
<1> DEFINE d == a.device
<1>1. /\ d \in Devices /\ Cose(d) \in CoseKey /\ Cose(d).length \in Nat
      /\ a.flags \subseteq Flags /\ a.sign_count \in Nat
      /\ a.type \in {"webauthn.create", "webauthn.get"}
  BY LoginAssumption DEF Answer, CoseKey
<1>2. rp_id_hash(RpOf(a.origin)) \in [sha256 : {rp_id, "other"}]
  BY DEF rp_id_hash, sha256, RpOf
<1>3. AuthenticatorData(a) \in AuthData
  <2>1. CASE a.type = "webauthn.get"
    BY <1>1, <1>2, <2>1 DEF AuthenticatorData, AuthData, Flags, HEADER
  <2>2. CASE a.type = "webauthn.create"
    <3> DEFINE cred == [credential_id_length |-> 16, credential_id |-> a.device,
                        key |-> Cose(a.device)]
               len == HEADER + CREDENTIAL_HEADER + 16 + Cose(a.device).length
               flags == a.flags \cup {FLAG_ATTESTED_CRED_DATA}
    <3>1. cred \in Credential
      BY <1>1 DEF Credential
    <3>2. len \in Nat
      BY <1>1 DEF HEADER, CREDENTIAL_HEADER
    <3>3. flags \subseteq {FLAG_USER_PRESENT, FLAG_USER_VERIFIED,
                           FLAG_ATTESTED_CRED_DATA}
      BY <1>1 DEF Flags
    <3>4. AuthenticatorData(a) =
            [length |-> len, rp_id_hash |-> rp_id_hash(RpOf(a.origin)),
             flags |-> flags, sign_count |-> a.sign_count, attested |-> cred]
      BY <2>2, RegistrationData
    <3> HIDE DEF cred, len, flags
    <3> QED
      BY <1>1, <1>2, <3>1, <3>2, <3>3, <3>4 DEF AuthData
  <2> QED
    BY <1>1, <2>1, <2>2
<1>4. ClientDataJson(a) \in ClientData
  BY DEF ClientDataJson, ClientData, Answer
<1>5. SignatureBy(a) \in Proof
  BY <1>1, <1>3, <1>4 DEF SignatureBy, Proof, ProofOf, ProofMessage, sha256, KeyOf
<1> QED
  BY <1>3, <1>5 DEF Statement

LEMMA GenuineRegistrationVerifies ==
    ASSUME NEW a \in Answer, NEW fmt \in {"none", "packed"},
           Answered(a, a.device, "webauthn.create", a.challenge),
           IsSupportedKey(Cose(a.device))
    PROVE  verify_registration_ceremony(
              RegistrationInput(ClientDataJson(a), AttestationObject(a, fmt)))
<1> DEFINE d == a.device
           data == ClientDataJson(a)
           object == AttestationObject(a, fmt)
           input == RegistrationInput(data, object)
           auth_data == AuthenticatorData(a)
<1>1. /\ d \in Devices /\ Cose(d).length \in Nat /\ Cose(d).form = "cbor"
      /\ a.type = "webauthn.create" /\ a.origin = origin
      /\ FLAG_USER_PRESENT \in a.flags
  BY LoginAssumption DEF Answer, CoseKey, Answered
<1>2. /\ object.length = 300 /\ object.form = "cbor" /\ object.fmt = fmt
      /\ object.authData = auth_data
      /\ fmt = "packed" => object.attStmt = [x5c |-> None, sig |-> SignatureBy(a)]
  BY DEF AttestationObject
<1>3. /\ auth_data.length = HEADER + CREDENTIAL_HEADER + 16 + Cose(d).length
      /\ auth_data.rp_id_hash = rp_id_hash(rp_id)
      /\ auth_data.flags = a.flags \cup {FLAG_ATTESTED_CRED_DATA}
      /\ auth_data.attested = [credential_id_length |-> 16,
                               credential_id |-> d, key |-> Cose(d)]
  BY <1>1, RegistrationData DEF RpOf
<1>4. /\ data.form = "json" /\ data.type = "webauthn.create"
      /\ data.origin = origin
      /\ data.challenge = [bytes |-> a.challenge, encoding |-> "base64url"]
  BY <1>1 DEF ClientDataJson
<1>5. presented_challenge_bytes(data) = a.challenge
  BY <1>4 DEF presented_challenge_bytes
<1>6. /\ input.client_data_json = data /\ input.attestation_object = object
      /\ input.expected_origin = origin /\ input.expected_rp_id = rp_id
      /\ input.expected_challenge = a.challenge /\ input.policy = "Any"
  BY <1>5 DEF RegistrationInput
<1>7. /\ auth_data # None /\ fmt # None
      /\ SignatureBy(a) # None /\ [x5c |-> None, sig |-> SignatureBy(a)] # None
  BY PartsArePresent, AbsenceAssumption, Zenon DEF NoneIsApart
<1> HIDE DEF data, object, input, auth_data
<1>8. HasHeader(auth_data) /\ HasWholeCredential(auth_data)
  <2>1. auth_data.length = 71 + Cose(d).length
    BY <1>1, <1>3 DEF HEADER, CREDENTIAL_HEADER
  <2>2. /\ auth_data.attested.credential_id_length = 16
        /\ auth_data.attested.key = Cose(d)
    BY <1>3
  <2> HIDE DEF d
  <2> QED
    BY <1>1, <2>1, <2>2
    DEF HasHeader, HasWholeCredential, HEADER, CREDENTIAL_HEADER
<1>9. /\ FLAG_USER_PRESENT \in auth_data.flags /\ IsAttested(auth_data)
      /\ auth_data.attested.key = Cose(d)
  BY <1>1, <1>3 DEF IsAttested
<1>10. parse_authenticator_data(auth_data)
  BY <1>8 DEF parse_authenticator_data
<1>11. client_data_verifies(data, "webauthn.create", origin, a.challenge)
  BY <1>4 DEF client_data_verifies
<1>12. accept_key(PROOF_SUITE_V1, KeyOf(d))
  BY <1>1, SupportedKeyIsAccepted
<1>13. fmt = "packed" =>
          verify_packed_attestation(object.attStmt, auth_data, data, KeyOf(d))
  <2> SUFFICES ASSUME fmt = "packed"
               PROVE  verify_packed_attestation(object.attStmt, auth_data, data,
                                                KeyOf(d))
    OBVIOUS
  <2>1. SignatureBy(a) = ProofOf(KeyOf(d), ProofMessage(auth_data, data))
    BY DEF SignatureBy, KeyOf, auth_data, data
  <2>2. /\ object.attStmt # None /\ object.attStmt.x5c = None
        /\ object.attStmt.sig = SignatureBy(a) /\ object.attStmt.sig # None
    BY <1>2, <1>7
  <2> QED
    BY <2>1, <2>2 DEF verify_packed_attestation, verify_proof
<1>14. object.length <= MAX_ATTESTATION_OBJECT_LEN
  BY <1>2 DEF MAX_ATTESTATION_OBJECT_LEN
<1>15. input.policy # "Required"
  BY <1>6
<1>16. verify_registration_ceremony(input)
  BY <1>2, <1>3, <1>6, <1>7, <1>9, <1>10, <1>11, <1>12, <1>13, <1>14, <1>15
     DEF verify_registration_ceremony, KeyOf
<1> QED
  BY <1>16 DEF input, data, object

LEMMA GenuineAuthenticationVerifies ==
    ASSUME NEW a \in Answer, NEW row \in Row,
           Answered(a, a.device, "webauthn.get", a.challenge),
           ~row.revoked, row.sign_count < a.sign_count,
           row.public_key = KeyOf(a.device), IsSupportedKey(Cose(a.device))
    PROVE  verify_authentication_ceremony(AuthenticationInput(
              ClientDataJson(a), AuthenticatorData(a), SignatureBy(a), row))
<1> DEFINE d == a.device
           data == ClientDataJson(a)
           auth_data == AuthenticatorData(a)
           input == AuthenticationInput(data, auth_data, SignatureBy(a), row)
           credential == RegisteredCredential(row)
<1>1. /\ d \in Devices /\ a.type = "webauthn.get" /\ a.origin = origin
      /\ FLAG_USER_PRESENT \in a.flags /\ a.sign_count \in Nat
      /\ row.sign_count \in Nat
  BY DEF Answer, Answered, Row
<1>2. /\ auth_data.length = HEADER
      /\ auth_data.rp_id_hash = rp_id_hash(rp_id)
      /\ auth_data.flags = a.flags /\ auth_data.sign_count = a.sign_count
  BY <1>1, Zenon DEF AuthenticatorData, RpOf
<1>3. /\ data.form = "json" /\ data.type = "webauthn.get"
      /\ data.origin = origin
      /\ data.challenge = [bytes |-> a.challenge, encoding |-> "base64url"]
  BY <1>1 DEF ClientDataJson
<1>4. presented_challenge_bytes(data) = a.challenge
  BY <1>3 DEF presented_challenge_bytes
<1>5. /\ input.client_data_json = data /\ input.authenticator_data = auth_data
      /\ input.signature = SignatureBy(a)
      /\ input.expected_origin = origin /\ input.expected_rp_id = rp_id
      /\ input.expected_challenge = a.challenge /\ input.credential = credential
  BY <1>4 DEF AuthenticationInput
<1>6. /\ credential.revoked = row.revoked
      /\ credential.stored_sign_count = row.sign_count
      /\ credential.public_key = KeyOf(d)
  BY DEF RegisteredCredential
<1>7. SignatureBy(a) = ProofOf(KeyOf(d), ProofMessage(auth_data, data))
  BY DEF SignatureBy, KeyOf
<1> HIDE DEF data, auth_data, input, credential
<1>8. HasHeader(auth_data)
  BY <1>2 DEF HasHeader, HEADER
<1>9. client_data_verifies(data, "webauthn.get", origin, a.challenge)
  BY <1>3 DEF client_data_verifies
<1>10. accept_key(PROOF_SUITE_V1, KeyOf(d))
  BY <1>1, SupportedKeyIsAccepted
<1>11. auth_data.sign_count > credential.stored_sign_count
  BY <1>1, <1>2, <1>6, Zenon
<1>12. verify_proof(credential.public_key, ProofMessage(auth_data, data),
                    SignatureBy(a))
  BY <1>6, <1>7 DEF verify_proof
<1>13. ~credential.revoked
  BY <1>6
<1>14. FLAG_USER_PRESENT \in auth_data.flags
  BY <1>1, <1>2, Zenon
<1> QED
  BY <1>2, <1>5, <1>6, <1>8, <1>9, <1>10, <1>11, <1>12, <1>13, <1>14, Zenon
     DEF verify_authentication_ceremony, input, data, auth_data

(* And what is genuine is accepted: a registration that a device of a      *)
(* supported kind answers, attested or not, and each of its later          *)
(* authentications until it is revoked or its counter has been passed.     *)
THEOREM GenuineAlwaysAccepted == Spec => []GenuineIsAccepted
<1>1. IInv => GenuineIsAccepted
  <2> SUFFICES ASSUME IInv, NEW a \in answers
               PROVE  LET d    == a.device
                          data == ClientDataJson(a)
                          row  == authenticators[d]
                      IN /\ Answered(a, d, "webauthn.create", a.challenge)
                               /\ IsSupportedKey(Cose(d))
                             => \A fmt \in {"none", "packed"} :
                                   verify_registration_ceremony(
                                      RegistrationInput(data,
                                         AttestationObject(a, fmt)))
                         /\ Answered(a, d, "webauthn.get", a.challenge)
                               /\ row # None
                             => (~row.revoked /\ row.sign_count < a.sign_count =>
                                   verify_authentication_ceremony(
                                      AuthenticationInput(data,
                                         AuthenticatorData(a), SignatureBy(a),
                                         row)))
    BY Zenon DEF GenuineIsAccepted
  <2>1. a \in Answer /\ a.device \in Devices
    BY Zenon DEF IInv, TypeOK, Answer
  <2>2. authenticators[a.device] # None =>
          /\ authenticators[a.device] \in Row
          /\ authenticators[a.device].public_key = KeyOf(a.device)
          /\ IsSupportedKey(Cose(a.device))
    BY <2>1 DEF IInv, TypeOK, Genuine, RowIsGenuine
  <2> QED
    BY <2>1, <2>2, GenuineRegistrationVerifies,
       GenuineAuthenticationVerifies, Zenon
<1> QED
  BY <1>1, Invariance, PTL

-----------------------------------------------------------------------------
(* A reply is the answer of a call on the state as it is: nothing else     *)
(* happens until it is returned.                                           *)
ReplyOfAssertion ==
    \E i \in DOMAIN logins, domain \in AuthorityDomains :
    \E bytes \in {AssertionOf(i)} \cup AssertionCopies(AssertionOf(i)) :
       reply = [call |-> "VerifyAssertion", domain |-> domain,
                unchanged |-> IF bytes = AssertionOf(i) THEN i ELSE None,
                response |-> verify_assertion(VerifyingKey, bytes, domain,
                                              At(now))]
ReplyOfRecovery ==
    \E approvals \in SUBSET {logins[i].claims : i \in DOMAIN logins},
       threshold \in 0..3 :
       reply = [call |-> "recovery", approvals |-> approvals,
                threshold |-> threshold,
                outcome |-> verify_quorum(approvals, threshold)]
ReplyIsCurrent == reply = None \/ ReplyOfAssertion \/ ReplyOfRecovery

LEMMA RepliesAreCurrent == Spec => []ReplyIsCurrent
<1>1. Init => ReplyIsCurrent
  BY DEF Init, ReplyIsCurrent
<1>2. ReplyIsCurrent /\ [Next]_vars => ReplyIsCurrent'
  <2> SUFFICES ASSUME ReplyIsCurrent, [Next]_vars
               PROVE  ReplyIsCurrent'
    OBVIOUS
  <2>1. CASE VerifyAssertion
    <3>1. ReplyOfAssertion'
      BY <2>1, Zenon DEF VerifyAssertion, ReplyOfAssertion, AssertionOf
    <3> QED
      BY <3>1 DEF ReplyIsCurrent
  <2>2. CASE Recover
    <3>1. ReplyOfRecovery'
      BY <2>2 DEF Recover, ReplyOfRecovery
    <3> QED
      BY <3>1 DEF ReplyIsCurrent
  <2>3. CASE UNCHANGED vars
    <3>1. logins' = logins /\ reply' = reply /\ now' = now
      BY <2>3 DEF vars
    <3>2. ReplyOfAssertion => ReplyOfAssertion'
      BY <3>1, Zenon DEF ReplyOfAssertion, AssertionOf
    <3>3. ReplyOfRecovery => ReplyOfRecovery'
      BY <3>1, Zenon DEF ReplyOfRecovery
    <3> QED
      BY <3>1, <3>2, <3>3, Zenon DEF ReplyIsCurrent
  <2>4. CASE reply' = None
    BY <2>4 DEF ReplyIsCurrent
  <2> QED
    BY <2>1, <2>2, <2>3, <2>4
       DEF Next, IssueChallenge, ExpireChallenge, DeviceAnswers,
           RevokeAuthenticator, VerifyRegistration, VerifyAuthentication,
           Tick, Return
<1> QED
  BY <1>1, <1>2, PTL DEF Spec

-----------------------------------------------------------------------------
(* An assertion is sealed for a login with an event of its own.            *)
EventsAreNamed == \A i \in DOMAIN logins : EventId(EventIds[i])

LEMMA LoginsHaveEvents == Spec => []EventsAreNamed
<1>1. Init => EventsAreNamed
  BY DEF Init, EventsAreNamed
<1>2. IInv /\ EventsAreNamed /\ [Next]_vars => EventsAreNamed'
  <2> SUFFICES ASSUME IInv, EventsAreNamed, [Next]_vars
               PROVE  EventsAreNamed'
    OBVIOUS
  <2>1. CASE UNCHANGED logins
    BY <2>1 DEF EventsAreNamed
  <2>2. CASE VerifyAuthentication
    <3>1. UNCHANGED logins
            \/ \E l : logins' = Append(logins, l) /\ EventId(EventIds[Len(logins) + 1])
      BY <2>2 DEF VerifyAuthentication, ClaimsAreValid, AssertionClaims
    <3>2. logins \in Seq(LoginRecord)
      BY DEF IInv, TypeOK
    <3>3. ASSUME NEW l, logins' = Append(logins, l),
                 EventId(EventIds[Len(logins) + 1])
          PROVE  EventsAreNamed'
      <4>1. DOMAIN logins' = 1..Len(logins) + 1 /\ DOMAIN logins = 1..Len(logins)
            /\ Len(logins) \in Nat
        BY <3>2, <3>3
      <4> QED
        BY <3>3, <4>1 DEF EventsAreNamed
    <3> QED
      BY <3>1, <3>3, <2>1
  <2> QED
    BY <2>1, <2>2
       DEF Next, vars, IssueChallenge, ExpireChallenge, DeviceAnswers,
           RevokeAuthenticator, VerifyRegistration, Tick, VerifyAssertion,
           Recover, Return
<1> QED
  BY <1>1, <1>2, Invariance, PTL DEF Spec

ClaimsOf(i) == AssertionClaims(logins[i].claims, EventIds[i], logins[i].at)

(* A document that is signed, and read back.                               *)
LEMMA SignedDocument ==
    ASSUME NEW u \in Unsigned, NEW components
    PROVE  LET doc == Signed(u, components)
           IN /\ DOMAIN doc = WireDocument
              /\ doc.signatures = components
              /\ \A k \in WireDocument \ {"signatures"} : doc[k] = u[k]
              /\ unsigned_document_from_wire(doc) = u
<1> DEFINE Fields == WireDocument \ {"signatures"}
           doc == Signed(u, components)
<1>1. DOMAIN u = Fields
  BY DEF Unsigned, WireDocument
<1>2. u = [k \in Fields |-> u[k]]
  BY <1>1 DEF Unsigned
<1>3. DOMAIN u \cup {"signatures"} = WireDocument
  BY <1>1 DEF WireDocument
<1>4. doc = [k \in WireDocument |-> IF k = "signatures" THEN components
                                   ELSE u[k]]
  BY <1>3 DEF Signed
<1>5. "signatures" \in WireDocument
  BY DEF WireDocument
<1> HIDE DEF doc
<1>6. /\ DOMAIN doc = WireDocument
      /\ doc.signatures = components
      /\ \A k \in Fields : doc[k] = u[k]
  BY <1>4, <1>5
<1>7. unsigned_document_from_wire(doc) = u
  BY <1>2, <1>6 DEF unsigned_document_from_wire
<1> QED
  BY <1>6, <1>7 DEF doc

(* What verify says Ok to.                                                 *)
LEMMA OkIsEveryCheck ==
    ASSUME NEW keys, NEW bytes, NEW policy
    PROVE  LET doc      == bytes.object
               unsigned == unsigned_document_from_wire(doc)
           IN verify(keys, bytes, policy) = "Ok" <=>
                /\ ~IsTooLarge(bytes)
                /\ IsWireDocument(doc) /\ doc.schema_version = 1
                /\ doc.suite \in policy.accepted_suites
                /\ required_components(doc.suite) # None
                /\ ArityIsRight(doc.signatures, required_components(doc.suite))
                /\ canonical_bytes(Signed(unsigned, doc.signatures)) = bytes
                /\ CheckSignatures(keys, doc.signatures,
                                   signed_message(DOMAIN_PREFIX, unsigned)) = "Ok"
                /\ doc.authority_domain = policy.expected_authority_domain
                /\ WithinWindow(doc, policy.now)
  BY Zenon DEF verify

(* The component that the sealer signs on a document.                      *)
Sealed(u) == Component(key_id_from_public_key(SealerKey),
                       Signature(SealerKey, signed_message(DOMAIN_PREFIX, u)))

LEMMA SealedComponents ==
    ASSUME NEW u \in Unsigned
    PROVE  /\ Sealed(u).value.bytes
                = Signature(SealerKey, signed_message(DOMAIN_PREFIX, u))
           /\ Sealed(u).value.digits = "lower"
           /\ Sealed(u) \in SealedComponent
           /\ Signature(SealerKey, signed_message(DOMAIN_PREFIX, u)) \in Sealing
<1> DEFINE message == signed_message(DOMAIN_PREFIX, u)
           signature == Signature(SealerKey, message)
<1>1. signature \in Sealing
  BY DEF Signature, signed_message, canonical_bytes, Sealing
<1>2. hex_encode(signature) \in Digits
      /\ hex_encode(signature).bytes = signature
      /\ hex_encode(signature).digits = "lower"
  BY <1>1 DEF hex_encode, Digits
<1>3. key_id_from_public_key(SealerKey) \in KeyId
  BY DEF key_id_from_public_key, KeyId
<1> HIDE DEF signature
<1>4. Sealed(u) = [component |-> Components[1],
                   key_id |-> key_id_from_public_key(SealerKey),
                   value |-> hex_encode(signature)]
  BY DEF Sealed, Component, signature
<1>5. Sealed(u).value = hex_encode(signature)
  BY <1>4
<1>6. Sealed(u) \in SealedComponent
  BY <1>2, <1>3, <1>4 DEF SealedComponent
<1> QED
  BY <1>1, <1>2, <1>5, <1>6, Zenon DEF signature

LEMMA TheVerifyingKey ==
    /\ VerifyingKey.raw = SealerKey
    /\ VerifyingKey.key_id = key_id_from_public_key(SealerKey)
  BY DEF VerifyingKey, accept_verifying_key

(* The signature of a document that is verified is on its members.         *)
LEMMA VerifiedIsSigned ==
    ASSUME NEW bytes, NEW policy, verify({VerifyingKey}, bytes, policy) = "Ok",
           1 \in DOMAIN bytes.object.signatures
    PROVE  hex_decode(bytes.object.signatures[1].value) =
              Signature(SealerKey, signed_message(DOMAIN_PREFIX,
                          unsigned_document_from_wire(bytes.object)))
<1> DEFINE doc == bytes.object
           message == signed_message(DOMAIN_PREFIX, unsigned_document_from_wire(doc))
<1>1. CheckSignatures({VerifyingKey}, doc.signatures, message) = "Ok"
  BY OkIsEveryCheck
<1>2. ComponentIsValid({VerifyingKey}, doc.signatures[1], message)
  BY <1>1 DEF CheckSignatures
<1> QED
  BY <1>2, TheVerifyingKey, Zenon DEF ComponentIsValid, KeysOf

LEMMA SignedTheSame ==
    ASSUME NEW u, NEW v,
           Signature(SealerKey, signed_message(DOMAIN_PREFIX, u))
              = Signature(SealerKey, signed_message(DOMAIN_PREFIX, v))
    PROVE  u = v
<1> DEFINE m(x) == signed_message(DOMAIN_PREFIX, x)
<1>1. m(u) = m(v)
  BY DEF Signature
<1> QED
  BY <1>1 DEF signed_message, canonical_bytes

LEMMA VerifiedIsSealed ==
    ASSUME NEW u, NEW bytes, NEW policy,
           verify({VerifyingKey}, bytes, policy) = "Ok",
           1 \in DOMAIN bytes.object.signatures,
           hex_decode(bytes.object.signatures[1].value)
              = Signature(SealerKey, signed_message(DOMAIN_PREFIX, u))
    PROVE  unsigned_document_from_wire(bytes.object) = u
  BY VerifiedIsSigned, SignedTheSame

LEMMA WireIsWhole ==
    ASSUME NEW bytes, NEW policy, verify({VerifyingKey}, bytes, policy) = "Ok"
    PROVE  /\ DOMAIN bytes.object = WireDocument
           /\ \A k \in WireDocument : bytes.object[k] # Null
<1>1. IsWireDocument(bytes.object)
  BY OkIsEveryCheck
<1>2. Parses(bytes.object, WireDocument, {})
  BY <1>1 DEF IsWireDocument
<1> QED
  BY <1>2, Zenon DEF Parses

(* Whatever became of an assertion on its way, if it is verified it has    *)
(* the members that were sealed.                                           *)
LEMMA VerifiedCopy ==
    ASSUME NEW u \in Unsigned, NEW policy, NEW bytes,
           LET sealed == canonical_bytes(Signed(u, <<Sealed(u)>>))
           IN bytes \in {sealed} \cup AssertionCopies(sealed),
           verify({VerifyingKey}, bytes, policy) = "Ok"
    PROVE  unsigned_document_from_wire(bytes.object) = u
<1> DEFINE doc == Signed(u, <<Sealed(u)>>)
           sealed == canonical_bytes(doc)
           c == Sealed(u)
           signature == Signature(SealerKey, signed_message(DOMAIN_PREFIX, u))
<1>1. sealed.object = doc /\ sealed.layout = "canonical"
      /\ sealed = [object |-> doc, layout |-> "canonical"]
  BY DEF canonical_bytes
<1>2. /\ DOMAIN doc = WireDocument
      /\ doc.signatures = <<c>>
      /\ unsigned_document_from_wire(doc) = u
  BY SignedDocument, Zenon
<1>3. /\ c.value.bytes = signature /\ c.value.digits = "lower"
      /\ c \in SealedComponent /\ signature \in Sealing
  BY SealedComponents, Zenon
<1>4. hex_decode(c.value) = signature
  BY <1>3 DEF hex_decode
<1>5. "signatures" \in WireDocument
  BY DEF WireDocument
<1> HIDE DEF doc, c, signature, sealed
<1>6. CASE bytes = sealed
  BY <1>1, <1>2, <1>6, Zenon
<1>7. ASSUME NEW l \in {"other", "padded"}, bytes = [sealed EXCEPT !.layout = l]
      PROVE  FALSE
  <2>1. bytes.layout = l
    BY <1>1, <1>7
  <2>2. canonical_bytes(Signed(unsigned_document_from_wire(bytes.object),
                               bytes.object.signatures)) = bytes
    BY OkIsEveryCheck, Zenon
  <2> QED
    BY <2>1, <2>2 DEF canonical_bytes
<1>8. ASSUME NEW d, bytes = canonical_bytes(d), d = With(doc, "note", "text")
      PROVE  FALSE
  <2>1. bytes.object = d
    BY <1>8 DEF canonical_bytes
  <2>2. "note" \in DOMAIN d
    BY <1>8 DEF With
  <2> QED
    BY <2>1, <2>2, WireIsWhole DEF WireDocument
<1>9. ASSUME NEW d, bytes = canonical_bytes(d), NEW k \in WireDocument,
             d = Without(doc, k)
      PROVE  FALSE
  <2>1. bytes.object = d
    BY <1>9 DEF canonical_bytes
  <2>2. k \notin DOMAIN d
    BY <1>9 DEF Without
  <2> QED
    BY <2>1, <2>2, WireIsWhole
<1>10. ASSUME NEW d, bytes = canonical_bytes(d), NEW k \in WireDocument,
              k # "signatures", NEW v, d = With(doc, k, v)
       PROVE  unsigned_document_from_wire(bytes.object) = u
  <2>1. bytes.object = d
    BY <1>10 DEF canonical_bytes
  <2>2. d.signatures = <<c>>
    <3>1. d["signatures"] = doc["signatures"]
      BY <1>2, <1>10, <1>5 DEF With
    <3> QED
      BY <1>2, <3>1
  <2>3. 1 \in DOMAIN d.signatures /\ d.signatures[1] = c
    BY <2>2
  <2>4. /\ 1 \in DOMAIN bytes.object.signatures
        /\ hex_decode(bytes.object.signatures[1].value) = signature
    BY <1>4, <2>1, <2>3, Zenon
  <2> QED
    BY <2>4, VerifiedIsSealed, Zenon DEF signature
<1>11. ASSUME NEW d, bytes = canonical_bytes(d), NEW s,
              d = With(doc, "signatures", s)
       PROVE  /\ bytes.object = d
              /\ d.signatures = s
              /\ unsigned_document_from_wire(d) = u
  <2>1. bytes.object = d
    BY <1>11 DEF canonical_bytes
  <2>2. /\ d["signatures"] = s
        /\ \A m \in WireDocument : m # "signatures" => d[m] = doc[m]
    BY <1>2, <1>11, Zenon DEF With
  <2>3. unsigned_document_from_wire(d) = unsigned_document_from_wire(doc)
    BY <2>2 DEF unsigned_document_from_wire
  <2> QED
    BY <1>2, <2>1, <2>2, <2>3
<1>12. ASSUME NEW d, bytes = canonical_bytes(d), NEW k \in WireDocument, NEW v,
              d = With(doc, k, v)
       PROVE  unsigned_document_from_wire(bytes.object) = u
  BY <1>10, <1>11, <1>12
<1>13. \/ bytes = sealed
       \/ \E l \in {"other", "padded"} : bytes = [sealed EXCEPT !.layout = l]
       \/ \E d : /\ bytes = canonical_bytes(d)
                 /\ \/ d = With(doc, "note", "text")
                    \/ \E k \in WireDocument : d = Without(doc, k)
                    \/ \E k \in WireDocument : \E v : d = With(doc, k, v)
  <2>1. bytes = sealed \/ bytes \in AssertionCopies(sealed)
    BY DEF sealed, doc
  <2>2. ASSUME bytes \in AssertionCopies(sealed)
        PROVE  \/ \E l \in {"other", "padded"} :
                     bytes = [sealed EXCEPT !.layout = l]
               \/ \E d \in ObjectCopies(doc, Another.object, WireDocument)
                             \cup {With(doc, "schema_version", 2),
                                   With(doc, "suite", "identity-assertion/v2")}
                             \cup {With(doc, "signatures", s) : s \in
                                      ComponentCopies(doc.signatures)} :
                     bytes = canonical_bytes(d)
    BY <1>1, <2>2 DEF AssertionCopies
  <2>3. ASSUME NEW d \in ObjectCopies(doc, Another.object, WireDocument)
                             \cup {With(doc, "schema_version", 2),
                                   With(doc, "suite", "identity-assertion/v2")}
                             \cup {With(doc, "signatures", s) : s \in
                                      ComponentCopies(doc.signatures)}
        PROVE  \/ d = With(doc, "note", "text")
               \/ \E k \in WireDocument : d = Without(doc, k)
               \/ \E k \in WireDocument : \E v : d = With(doc, k, v)
    <3>1. {"schema_version", "suite"} \subseteq WireDocument
      BY DEF WireDocument
    <3> QED
      BY <1>5, <3>1, Zenon DEF ObjectCopies
  <2> QED
    BY <2>1, <2>2, <2>3
<1> QED
  BY <1>6, <1>7, <1>8, <1>9, <1>12, <1>13

(* An assertion that is not changed is verified within its window.         *)
LEMMA UnchangedVerifies ==
    ASSUME NEW u \in Unsigned, NEW policy,
           policy.accepted_suites = ACCEPTED_SUITES
    PROVE  verify({VerifyingKey}, canonical_bytes(Signed(u, <<Sealed(u)>>)),
                  policy) = "Ok"
             <=> /\ u.authority_domain = policy.expected_authority_domain
                 /\ WithinWindow(u, policy.now)
<1> DEFINE doc == Signed(u, <<Sealed(u)>>)
           bytes == canonical_bytes(doc)
           c == Sealed(u)
           message == signed_message(DOMAIN_PREFIX, u)
<1>1. bytes.object = doc /\ bytes.layout = "canonical"
  BY DEF canonical_bytes
<1>2. /\ DOMAIN doc = WireDocument
      /\ doc.signatures = <<c>>
      /\ \A k \in WireDocument \ {"signatures"} : doc[k] = u[k]
      /\ unsigned_document_from_wire(doc) = u
  BY SignedDocument
<1>3. /\ c.value.bytes = Signature(SealerKey, message)
      /\ c.value.digits = "lower" /\ c \in SealedComponent
  BY SealedComponents
<1>4. hex_decode(c.value) = Signature(SealerKey, message)
  BY <1>3 DEF hex_decode
<1>5. /\ c.key_id = key_id_from_public_key(SealerKey)
      /\ c.component = Components[1]
      /\ DOMAIN c = WireSignatureComponent
  BY DEF Sealed, Component, WireSignatureComponent
<1>6. canonical_bytes(Signed(u, <<c>>)) = bytes
  OBVIOUS
<1> HIDE DEF doc, c, message, bytes
<1>7. /\ doc.schema_version = 1 /\ doc.suite = SUITE_V1
      /\ doc.authority_domain = u.authority_domain
      /\ doc.issued_at = u.issued_at /\ doc.expires_at = u.expires_at
  <2>1. {"schema_version", "suite", "authority_domain", "issued_at",
         "expires_at"} \subseteq WireDocument \ {"signatures"}
    BY DEF WireDocument
  <2>2. u.schema_version = 1 /\ u.suite = SUITE_V1
    BY DEF Unsigned
  <2> QED
    BY <1>2, <2>1, <2>2
<1>8. IsWireDocument(doc)
  <2>1. \A k \in WireDocument \ {"signatures"} : u[k] # Null
    <3>1. /\ u.schema_version # Null /\ u.suite # Null
          /\ u.authority_domain # Null /\ u.subject_id # Null
          /\ u.aal # Null /\ u.auth_method # Null /\ u.audience # Null
          /\ u.issued_at # Null /\ u.expires_at # Null
          /\ u.audit_event_id # Null
      BY AbsenceAssumption DEF NullIsApart, Unsigned, Names
    <3> QED
      BY <3>1 DEF WireDocument
  <2>2. <<c>> \in Seq(SealedComponent)
    BY <1>3
  <2>3. <<c>> # Null
    BY <2>2, AbsenceAssumption, Zenon DEF NullIsApart
  <2>4. \A k \in WireDocument : doc[k] # Null
    BY <1>2, <2>1, <2>3
  <2>5. Parses(doc, WireDocument, {})
    BY <1>2, <2>4 DEF Parses
  <2>6. Parses(c, WireSignatureComponent, {})
    <3>1. c.component # Null /\ c.key_id # Null /\ c.value # Null
      BY <1>3, AbsenceAssumption DEF NullIsApart, SealedComponent
    <3>2. \A k \in WireSignatureComponent : c[k] # Null
      BY <3>1 DEF WireSignatureComponent
    <3> QED
      BY <1>5, <3>2 DEF Parses
  <2> QED
    BY <1>2, <2>5, <2>6 DEF IsWireDocument
<1>9. required_components(doc.suite) = Components /\ Components # None
  BY <1>7, AbsenceAssumption DEF NoneIsApart, required_components
<1>10. ArityIsRight(doc.signatures, Components)
  BY <1>2, <1>5 DEF ArityIsRight, Components
<1>11. CheckSignatures({VerifyingKey}, doc.signatures, message) = "Ok"
  <2>1. VerifyingKey \in KeysOf({VerifyingKey}, c)
    BY <1>5, TheVerifyingKey DEF KeysOf
  <2>2. ComponentIsValid({VerifyingKey}, c, message)
    BY <1>4, <2>1, TheVerifyingKey DEF ComponentIsValid
  <2> QED
    BY <1>2, <2>1, <2>2 DEF CheckSignatures
<1>12. ~IsTooLarge(bytes)
  BY <1>1 DEF IsTooLarge
<1>13. doc.suite \in policy.accepted_suites
  BY <1>7 DEF ACCEPTED_SUITES
<1>14. WithinWindow(doc, policy.now) <=> WithinWindow(u, policy.now)
  BY <1>7 DEF WithinWindow
<1>15. verify({VerifyingKey}, bytes, policy) = "Ok" <=>
         /\ doc.authority_domain = policy.expected_authority_domain
         /\ WithinWindow(doc, policy.now)
  <2>1. canonical_bytes(Signed(unsigned_document_from_wire(bytes.object),
                               bytes.object.signatures)) = bytes
    BY <1>1, <1>2, <1>6
  <2>2. CheckSignatures({VerifyingKey}, bytes.object.signatures,
           signed_message(DOMAIN_PREFIX,
                          unsigned_document_from_wire(bytes.object))) = "Ok"
    BY <1>1, <1>2, <1>11 DEF message
  <2>3. /\ IsWireDocument(bytes.object) /\ bytes.object.schema_version = 1
        /\ bytes.object.suite \in policy.accepted_suites
        /\ required_components(bytes.object.suite) # None
        /\ ArityIsRight(bytes.object.signatures,
                        required_components(bytes.object.suite))
    BY <1>1, <1>7, <1>8, <1>9, <1>10, <1>13
  <2>4. verify({VerifyingKey}, bytes, policy) = "Ok" <=>
          /\ bytes.object.authority_domain = policy.expected_authority_domain
          /\ WithinWindow(bytes.object, policy.now)
    BY <1>12, <2>1, <2>2, <2>3, OkIsEveryCheck, Zenon
  <2> QED
    BY <1>1, <2>4
<1> QED
  BY <1>7, <1>14, <1>15 DEF bytes, doc

-----------------------------------------------------------------------------
(* The dates of two days sort as the days do.                              *)
DatesSort ==
    \A n, m \in Int :
        /\ civil_from_days(n) \in Civil
        /\ n < m => Precedes(civil_from_days(n), civil_from_days(m))

LEMMA Dates == DatesSort
  BY CalendarOfEveryDay, DatesInOrder, Zenon DEF DatesSort

(* The comparison of two texts number by number.                           *)
LEMMA BeforeByNumbers ==
    ASSUME NEW a \in Text, NEW b \in Text
    PROVE  Before(a, b) <=>
              \/ Precedes(a.date, b.date)
              \/ /\ a.date = b.date
                 /\ \/ a.hour < b.hour
                    \/ a.hour = b.hour /\ a.minute < b.minute
                    \/ a.hour = b.hour /\ a.minute = b.minute
                         /\ a.second < b.second
<1>1. PICK a1 \in Int, a2 \in Int, a3 \in Int :
         /\ a1 = a.date.year /\ a2 = a.date.month /\ a3 = a.date.day
         /\ a.date = [year |-> a1, month |-> a2, day |-> a3]
  <2>1. a.date \in Civil
    BY DEF Text, Civil
  <2>2. PICK d \in Civil : d = a.date
    BY <2>1
  <2>3. /\ d.year \in Int /\ d.month \in Int /\ d.day \in Int
        /\ d = [year |-> d.year, month |-> d.month, day |-> d.day]
    BY DEF Civil
  <2> QED
    BY <2>2, <2>3, Zenon
<1>2. PICK b1 \in Int, b2 \in Int, b3 \in Int :
         /\ b1 = b.date.year /\ b2 = b.date.month /\ b3 = b.date.day
         /\ b.date = [year |-> b1, month |-> b2, day |-> b3]
  <2>1. b.date \in Civil
    BY DEF Text, Civil
  <2>2. PICK d \in Civil : d = b.date
    BY <2>1
  <2>3. /\ d.year \in Int /\ d.month \in Int /\ d.day \in Int
        /\ d = [year |-> d.year, month |-> d.month, day |-> d.day]
    BY DEF Civil
  <2> QED
    BY <2>2, <2>3, Zenon
<1>3. PICK a4 \in Int, a5 \in Int, a6 \in Int :
         a4 = a.hour /\ a5 = a.minute /\ a6 = a.second
  BY DEF Text
<1>4. PICK b4 \in Int, b5 \in Int, b6 \in Int :
         b4 = b.hour /\ b5 = b.minute /\ b6 = b.second
  BY DEF Text
<1>5. /\ Numbers(a) = <<a1, a2, a3, a4, a5, a6>>
      /\ Numbers(b) = <<b1, b2, b3, b4, b5, b6>>
  BY <1>1, <1>2, <1>3, <1>4 DEF Numbers
<1> DEFINE N(i) == Numbers(a)[i]
           M(i) == Numbers(b)[i]
           B(i) == N(i) < M(i) /\ \A j \in 1..i-1 : N(j) = M(j)
<1>6. /\ N(1) = a1 /\ N(2) = a2 /\ N(3) = a3 /\ N(4) = a4 /\ N(5) = a5
      /\ N(6) = a6
      /\ M(1) = b1 /\ M(2) = b2 /\ M(3) = b3 /\ M(4) = b4 /\ M(5) = b5
      /\ M(6) = b6
  BY <1>5
<1>7. Before(a, b) <=> \E i \in 1..6 : B(i)
  BY DEF Before
<1>8. 1..6 = {1, 2, 3, 4, 5, 6}
  BY SMTT(60)
<1> HIDE DEF N, M
<1>9. /\ 1..0 = {} /\ 1..1 = {1} /\ 1..2 = {1, 2} /\ 1..3 = {1, 2, 3}
      /\ 1..4 = {1, 2, 3, 4} /\ 1..5 = {1, 2, 3, 4, 5}
  BY SMTT(60)
<1>10. /\ 1 - 1 = 0 /\ 2 - 1 = 1 /\ 3 - 1 = 2 /\ 4 - 1 = 3 /\ 5 - 1 = 4
       /\ 6 - 1 = 5
  BY SMTT(60)
<1>11. B(1) <=> a1 < b1
  BY <1>6, <1>9, <1>10
<1>12. B(2) <=> a1 = b1 /\ a2 < b2
  BY <1>6, <1>9, <1>10
<1>13. B(3) <=> a1 = b1 /\ a2 = b2 /\ a3 < b3
  BY <1>6, <1>9, <1>10
<1>14. B(4) <=> a1 = b1 /\ a2 = b2 /\ a3 = b3 /\ a4 < b4
  BY <1>6, <1>9, <1>10
<1>15. B(5) <=> a1 = b1 /\ a2 = b2 /\ a3 = b3 /\ a4 = b4 /\ a5 < b5
  BY <1>6, <1>9, <1>10
<1>16. B(6) <=> a1 = b1 /\ a2 = b2 /\ a3 = b3 /\ a4 = b4 /\ a5 = b5 /\ a6 < b6
  BY <1>6, <1>9, <1>10
<1> HIDE DEF B
<1>17. Before(a, b) <=> B(1) \/ B(2) \/ B(3) \/ B(4) \/ B(5) \/ B(6)
  BY <1>7, <1>8
<1>18. a.date = b.date <=> a1 = b1 /\ a2 = b2 /\ a3 = b3
  BY <1>1, <1>2
<1> QED
  BY <1>17, <1>11, <1>12, <1>13, <1>14, <1>15, <1>16, <1>18, <1>1, <1>2, <1>3, <1>4
     DEF Precedes

(* The time of day s is h hours, m minutes and r seconds.                  *)
IsTime(s, h, m, r) ==
    /\ h = s \div 3600 /\ m = (s % 3600) \div 60 /\ r = s % 60
    /\ s = 3600 * h + 60 * m + r
    /\ 0 <= m /\ m < 60 /\ 0 <= r /\ r < 60

LEMMA ClockNumbers ==
    ASSUME NEW s \in Int, 0 <= s, s < 86400
    PROVE  \E h \in Int, m \in Int, r \in Int : IsTime(s, h, m, r)
<1>1. PICK h \in Int, q \in Int : h = s \div 3600 /\ q = s % 3600
                                   /\ s = 3600 * h + q /\ 0 <= q /\ q < 3600
  BY SMTT(60)
<1>2. PICK m \in Int, r \in Int : m = q \div 60 /\ r = q % 60
                                   /\ q = 60 * m + r /\ 0 <= r /\ r < 60
  BY SMTT(60)
<1>3. s = 60 * (60 * h + m) + r
  BY <1>1, <1>2, SMTT(60)
<1>4. r = s % 60
  BY <1>2, <1>3, SMTT(60)
<1>5. 0 <= m /\ m < 60
  BY <1>1, <1>2, SMTT(60)
<1>6. s = 3600 * h + 60 * m + r
  BY <1>3, SMTT(60)
<1>7. IsTime(s, h, m, r)
  BY <1>1, <1>2, <1>4, <1>5, <1>6 DEF IsTime
<1> QED
  BY <1>7

LEMMA TextOfInstant ==
    ASSUME NEW t, NEW n, NEW s, NEW h, NEW m, NEW r,
           t.days = n, t.second_of_day = s, IsTime(s, h, m, r)
    PROVE  format_rfc3339(t) = [date |-> civil_from_days(n), hour |-> h,
                                minute |-> m, second |-> r]
<1>1. h = s \div 3600 /\ m = (s % 3600) \div 60 /\ r = s % 60
  BY SMT DEF IsTime
<1> QED
  BY <1>1, SMT DEF format_rfc3339, rfc3339_from_seconds

(* The texts of instants sort as the instants do.                          *)
LEMMA TextsInOrder ==
    ASSUME DatesSort, NEW t \in Instant, NEW u \in Instant
    PROVE  /\ format_rfc3339(t) \in Text
           /\ Before(format_rfc3339(t), format_rfc3339(u)) <=>
                 \/ t.days < u.days
                 \/ t.days = u.days /\ t.second_of_day < u.second_of_day
<1>1. PICK n \in Int, s \in Int, k \in Int, v \in Int :
         /\ n = t.days /\ s = t.second_of_day
         /\ k = u.days /\ v = u.second_of_day
         /\ 0 <= s /\ s < 86400 /\ 0 <= v /\ v < 86400
  BY SMTT(60) DEF Instant
<1>2. PICK h \in Int, m \in Int, r \in Int : IsTime(s, h, m, r)
  BY <1>1, ClockNumbers
<1>3. PICK h2 \in Int, m2 \in Int, r2 \in Int : IsTime(v, h2, m2, r2)
  BY <1>1, ClockNumbers
<1>4. PICK d \in Civil, e \in Civil :
         d = civil_from_days(n) /\ e = civil_from_days(k)
  BY DEF DatesSort
<1>5. /\ n < k => Precedes(d, e)
      /\ k < n => Precedes(e, d)
      /\ n = k => d = e
  BY <1>4 DEF DatesSort
<1> DEFINE a == format_rfc3339(t)
           b == format_rfc3339(u)
<1>6. /\ t.days = n /\ t.second_of_day = s
      /\ u.days = k /\ u.second_of_day = v
  BY <1>1
<1>7. a = [date |-> d, hour |-> h, minute |-> m, second |-> r]
  BY <1>2, <1>4, <1>6, TextOfInstant, SMT
<1>8. b = [date |-> e, hour |-> h2, minute |-> m2, second |-> r2]
  BY <1>3, <1>4, <1>6, TextOfInstant, SMT
<1> HIDE DEF a, b
<1>9. /\ a.date = d /\ a.hour = h /\ a.minute = m /\ a.second = r
      /\ b.date = e /\ b.hour = h2 /\ b.minute = m2 /\ b.second = r2
  BY <1>7, <1>8, SMT
<1>10. a \in Text /\ b \in Text
  BY <1>7, <1>8, SMT DEF Text, Civil
<1>11. Before(a, b) <=>
        \/ Precedes(d, e)
        \/ d = e /\ \/ h < h2
                    \/ h = h2 /\ m < m2
                    \/ h = h2 /\ m = m2 /\ r < r2
  BY <1>9, <1>10, BeforeByNumbers
<1>12. s < v <=>
         \/ h < h2
         \/ h = h2 /\ m < m2
         \/ h = h2 /\ m = m2 /\ r < r2
  BY <1>2, <1>3, SMTT(60) DEF IsTime
<1>13. ~(Precedes(d, e) /\ Precedes(e, d)) /\ ~Precedes(d, d)
  BY SMTT(60) DEF Precedes, Civil
<1>14. n < k \/ k < n \/ n = k
  BY SMTT(60)
<1>15. Before(a, b) <=> n < k \/ (n = k /\ s < v)
  <2>1. CASE n = k
    <3>1. d = e /\ ~Precedes(d, e)
      BY <1>5, <1>13, <2>1
    <3>2. ~(n < k)
      BY <2>1
    <3> QED
      BY <1>11, <1>12, <2>1, <3>1, <3>2
  <2>2. CASE n < k
    BY <1>5, <1>11, <2>2
  <2>3. CASE k < n
    <3>1. d # e
      BY <1>5, <1>13, <2>3
    <3> QED
      BY <1>5, <1>11, <1>13, <2>3, <3>1
  <2> QED
    BY <1>14, <2>1, <2>2, <2>3
<1> QED
  BY <1>10, <1>15, <1>6 DEF a, b

(* The clock of the run, and the order of its texts.                       *)
LEMMA ClockInOrder ==
    ASSUME DatesSort, NEW x \in Nat, NEW y \in Nat
    PROVE  /\ format_rfc3339(At(x)) \in Text
           /\ Before(format_rfc3339(At(x)), format_rfc3339(At(y))) <=> x < y
<1>1. PICK n \in Int, s \in Int :
         /\ n = Start.days /\ s = Start.second_of_day /\ 0 <= s /\ s < 86400
  BY LoginAssumption, SMTT(60) DEF Instant
<1> DEFINE IsAt(i, q, r) == /\ At(i) = [days |-> n + q, second_of_day |-> r]
                            /\ s + i = 86400 * q + r /\ 0 <= r /\ r < 86400
<1>2. ASSUME NEW i \in Nat
      PROVE  \E q \in Int, r \in Int : IsAt(i, q, r)
  <2> DEFINE q == (s + i) \div 86400
             r == (s + i) % 86400
  <2>1. /\ q \in Int /\ r \in Int
        /\ s + i = 86400 * q + r /\ 0 <= r /\ r < 86400
    BY SMTT(60)
  <2>2. At(i) = [days |-> n + q, second_of_day |-> r]
    BY <1>1 DEF At
  <2>3. IsAt(i, q, r)
    BY <2>1, <2>2
  <2> HIDE DEF q, r, IsAt
  <2> QED
    BY <2>1, <2>3
<1> HIDE DEF IsAt
<1>3. PICK q \in Int, r \in Int : IsAt(x, q, r)
  BY <1>2
<1>4. PICK p \in Int, w \in Int : IsAt(y, p, w)
  BY <1>2
<1> USE DEF IsAt
<1>5. At(x) \in Instant /\ At(y) \in Instant
  BY <1>3, <1>4, SMTT(60) DEF Instant
<1>6. /\ format_rfc3339(At(x)) \in Text
      /\ Before(format_rfc3339(At(x)), format_rfc3339(At(y))) <=>
           n + q < n + p \/ (n + q = n + p /\ r < w)
  BY <1>3, <1>4, <1>5, TextsInOrder
<1>7. x < y <=> q < p \/ (q = p /\ r < w)
  BY <1>3, <1>4, SMTT(60)
<1> QED
  BY <1>6, <1>7, SMTT(60)

-----------------------------------------------------------------------------
(* The document of a login.                                                *)
LEMMA UnsignedOfLogin ==
    ASSUME DatesSort, IInv, EventsAreNamed, NEW i \in DOMAIN logins
    PROVE  LET u == unsigned_document(ClaimsOf(i))
               l == logins[i]
           IN /\ u \in Unsigned
              /\ u.authority_domain = authority_domain
              /\ u.subject_id = l.claims.subject_id
              /\ u.aal = l.claims.aal
              /\ u.auth_method = l.claims.method
              /\ u.audit_event_id = EventIds[i]
              /\ u.issued_at = format_rfc3339(At(l.at))
              /\ u.expires_at = format_rfc3339(At(l.at + AssertionTtl))
              /\ l.at \in Nat
<1> DEFINE c == ClaimsOf(i)
           u == unsigned_document(c)
           l == logins[i]
<1>1. l \in LoginRecord
  BY DEF IInv, TypeOK
<1>2. /\ l.at \in Nat /\ l.claims \in Claims
      /\ l.at + AssertionTtl \in Nat
  BY <1>1, LoginAssumption DEF LoginRecord
<1>3. /\ l.claims.subject_id \in Names /\ l.claims.aal \in Names
      /\ l.claims.method \in Names
  BY <1>2 DEF Claims, Names
<1>4. EventIds[i] \in Names
  BY DEF EventsAreNamed, EventId, Names
<1>5. /\ format_rfc3339(At(l.at)) \in Text
      /\ format_rfc3339(At(l.at + AssertionTtl)) \in Text
  BY <1>2, ClockInOrder
<1>6. /\ c.authority_domain = authority_domain
      /\ c.subject_id = l.claims.subject_id /\ c.aal = l.claims.aal
      /\ c.auth_method = l.claims.method /\ c.audience = audience
      /\ c.issued_at = format_rfc3339(At(l.at))
      /\ c.expires_at = format_rfc3339(At(l.at + AssertionTtl))
      /\ c.audit_event_id = EventIds[i]
  BY Zenon DEF AssertionClaims, ClaimsOf
<1> HIDE DEF c, l
<1> QED
  BY <1>2, <1>3, <1>4, <1>5, <1>6, Zenon DEF unsigned_document, Unsigned, c, l

LEMMA AssertionSpeaks ==
    ASSUME DatesSort, IInv, EventsAreNamed, ReplyIsCurrent
    PROVE  AssertionSpeaksForALogin
<1> SUFFICES ASSUME reply # None, reply.call = "VerifyAssertion"
             PROVE  AssertionSpeaksForALogin
  BY DEF AssertionSpeaksForALogin
<1>1. ReplyOfAssertion
  <2>1. ASSUME ReplyOfRecovery PROVE reply.call = "recovery"
    <3>1. \E approvals, threshold, outcome :
             reply = [call |-> "recovery", approvals |-> approvals,
                      threshold |-> threshold, outcome |-> outcome]
      BY <2>1, Zenon DEF ReplyOfRecovery
    <3> QED
      BY <3>1
  <2> QED
    BY <2>1, Zenon DEF ReplyIsCurrent
<1>2. PICK i \in DOMAIN logins, domain \in AuthorityDomains :
        \E bytes \in {AssertionOf(i)} \cup AssertionCopies(AssertionOf(i)) :
           reply = [call |-> "VerifyAssertion", domain |-> domain,
                    unchanged |-> IF bytes = AssertionOf(i) THEN i ELSE None,
                    response |-> verify_assertion(VerifyingKey, bytes, domain,
                                                  At(now))]
  BY <1>1, Zenon DEF ReplyOfAssertion
<1>3. PICK bytes \in {AssertionOf(i)} \cup AssertionCopies(AssertionOf(i)) :
           reply = [call |-> "VerifyAssertion", domain |-> domain,
                    unchanged |-> IF bytes = AssertionOf(i) THEN i ELSE None,
                    response |-> verify_assertion(VerifyingKey, bytes, domain,
                                                  At(now))]
  BY <1>2, Zenon
<1> DEFINE u == unsigned_document(ClaimsOf(i))
           l == logins[i]
           doc == bytes.object
           response == verify_assertion(VerifyingKey, bytes, domain, At(now))
           policy == [accepted_suites |-> ACCEPTED_SUITES,
                      now |-> format_rfc3339(At(now)),
                      expected_authority_domain |-> domain]
           current == /\ l.at <= now /\ now < l.at + AssertionTtl
                      /\ domain = authority_domain
<1>4. /\ reply.domain = domain /\ reply.response = response
      /\ reply.unchanged # None => reply.unchanged = i /\ bytes = AssertionOf(i)
  BY <1>3
<1>5. /\ u \in Unsigned
      /\ u.authority_domain = authority_domain
      /\ u.subject_id = l.claims.subject_id
      /\ u.aal = l.claims.aal
      /\ u.auth_method = l.claims.method
      /\ u.audit_event_id = EventIds[i]
      /\ u.issued_at = format_rfc3339(At(l.at))
      /\ u.expires_at = format_rfc3339(At(l.at + AssertionTtl))
      /\ l.at \in Nat
  BY UnsignedOfLogin, Zenon
<1>6. now \in Nat /\ l.at + AssertionTtl \in Nat
  <2>1. AssertionTtl \in Nat
    BY LoginAssumption, Zenon
  <2>2. now \in Nat
    BY DEF IInv, TypeOK
  <2>3. l.at \in Nat
    BY <1>5, Zenon
  <2> HIDE DEF l
  <2> QED
    BY <2>1, <2>2, <2>3, SMT
<1>7. AssertionOf(i) = canonical_bytes(Signed(u, <<Sealed(u)>>))
  BY Zenon DEF AssertionOf, SealedAssertion, Sealed, ClaimsOf
<1>8. /\ policy.accepted_suites = ACCEPTED_SUITES
      /\ policy.now = format_rfc3339(At(now))
      /\ policy.expected_authority_domain = domain
  OBVIOUS
<1>9. response = IF verify({VerifyingKey}, bytes, policy) = "Ok"
                 THEN [valid |-> TRUE, subject_id |-> doc.subject_id,
                       aal |-> doc.aal, auth_method |-> doc.auth_method,
                       audit_event_id |-> doc.audit_event_id]
                 ELSE [valid |-> FALSE,
                       reason |-> verify({VerifyingKey}, bytes, policy)]
  BY Zenon DEF verify_assertion
<1> HIDE DEF u, l, doc, response, policy
<1>10. response.valid <=> verify({VerifyingKey}, bytes, policy) = "Ok"
  BY <1>9
<1>11. WithinWindow(u, policy.now) <=> l.at <= now /\ now < l.at + AssertionTtl
  <2>1. /\ Before(format_rfc3339(At(now)), format_rfc3339(At(l.at)))
              <=> now < l.at
        /\ Before(format_rfc3339(At(now)),
                  format_rfc3339(At(l.at + AssertionTtl)))
              <=> now < l.at + AssertionTtl
    BY <1>5, <1>6, ClockInOrder, Zenon
  <2>2. /\ Before(policy.now, u.issued_at) <=> now < l.at
        /\ Before(policy.now, u.expires_at) <=> now < l.at + AssertionTtl
    BY <1>5, <1>8, <2>1, Zenon
  <2> QED
    BY <1>5, <1>6, <2>2, AtMostIsNotBelow, Zenon DEF WithinWindow
<1>12. ASSUME response.valid
       PROVE  /\ current
              /\ response.subject_id = l.claims.subject_id
              /\ response.aal = l.claims.aal
              /\ response.auth_method = l.claims.method
              /\ response.audit_event_id = EventIds[i]
  <2>1. verify({VerifyingKey}, bytes, policy) = "Ok"
    BY <1>10, <1>12
  <2>2. unsigned_document_from_wire(doc) = u
    BY <1>3, <1>5, <1>7, <2>1, VerifiedCopy, Zenon DEF doc
  <2>3. /\ doc.subject_id = u.subject_id /\ doc.aal = u.aal
        /\ doc.auth_method = u.auth_method
        /\ doc.audit_event_id = u.audit_event_id
        /\ doc.authority_domain = u.authority_domain
        /\ doc.issued_at = u.issued_at /\ doc.expires_at = u.expires_at
    BY <2>2 DEF unsigned_document_from_wire, WireDocument
  <2>4. /\ doc.authority_domain = domain /\ WithinWindow(doc, policy.now)
    BY <1>8, <2>1, OkIsEveryCheck, Zenon DEF doc
  <2>5. WithinWindow(u, policy.now)
    BY <2>3, <2>4 DEF WithinWindow
  <2>6. /\ response.subject_id = doc.subject_id /\ response.aal = doc.aal
        /\ response.auth_method = doc.auth_method
        /\ response.audit_event_id = doc.audit_event_id
    BY <1>9, <2>1
  <2> QED
    BY <1>5, <1>11, <2>3, <2>4, <2>5, <2>6, Zenon
<1>13. ASSUME bytes = AssertionOf(i)
       PROVE  response.valid <=> current
  <2>1. verify({VerifyingKey}, bytes, policy) = "Ok" <=>
           /\ u.authority_domain = policy.expected_authority_domain
           /\ WithinWindow(u, policy.now)
    BY <1>5, <1>7, <1>8, <1>13, UnchangedVerifies, Zenon
  <2> QED
    BY <1>5, <1>8, <1>10, <1>11, <2>1, Zenon
<1> QED
  BY <1>4, <1>12, <1>13 DEF AssertionSpeaksForALogin, l

-----------------------------------------------------------------------------
(* What FiniteSetTheorems proves, about the operators of FiniteSets.       *)
Finite == INSTANCE FiniteSetTheorems

LEMMA FiniteSetsAgree ==
    ASSUME NEW S
    PROVE  /\ Finite!IsFiniteSet(S) <=> IsFiniteSet(S)
           /\ Finite!Cardinality(S) = Cardinality(S)
BY DEF Finite!IsFiniteSet, IsFiniteSet, Finite!Cardinality, Cardinality

(* A recovery is decided by two devices at least, and by as many as the    *)
(* threshold asks for, each of which answered a challenge with the counter *)
(* of its approval (recovery.rs:25-28, 68-72).                             *)
THEOREM RecoveriesTakeDistinctHolders == Spec => []RecoveryTakesDistinctHolders
<1>1. IInv /\ ReplyIsCurrent => RecoveryTakesDistinctHolders
  <2> DEFINE Holders(approvals) ==
        {d \in Devices : \E p \in approvals, a \in answers :
            /\ Answered(a, d, "webauthn.get", a.challenge)
            /\ p.credential_id = d
            /\ p.new_sign_count = a.sign_count}
  <2> SUFFICES ASSUME IInv, ReplyIsCurrent, reply # None,
                      reply.call = "recovery", reply.outcome = "RecoveryOutcome"
               PROVE  /\ Cardinality(Holders(reply.approvals)) >= 2
                      /\ Cardinality(Holders(reply.approvals)) >= reply.threshold
    BY DEF RecoveryTakesDistinctHolders
  <2>1. ReplyOfRecovery
    <3>1. ASSUME ReplyOfAssertion PROVE reply.call = "VerifyAssertion"
      <4>1. \E domain, unchanged, response :
               reply = [call |-> "VerifyAssertion", domain |-> domain,
                        unchanged |-> unchanged, response |-> response]
        BY <3>1, Zenon DEF ReplyOfAssertion
      <4> QED
        BY <4>1
    <3> QED
      BY <3>1 DEF ReplyIsCurrent
  <2>2. PICK approvals \in SUBSET {logins[i].claims : i \in DOMAIN logins},
             threshold \in 0..3 :
        /\ reply.approvals = approvals /\ reply.threshold = threshold
        /\ verify_quorum(approvals, threshold) = "RecoveryOutcome"
    <3>1. PICK approvals \in SUBSET {logins[i].claims : i \in DOMAIN logins},
               threshold \in 0..3 :
             reply = [call |-> "recovery", approvals |-> approvals,
                      threshold |-> threshold,
                      outcome |-> verify_quorum(approvals, threshold)]
      BY <2>1, Zenon DEF ReplyOfRecovery
    <3>2. /\ reply.approvals = approvals /\ reply.threshold = threshold
          /\ reply.outcome = verify_quorum(approvals, threshold)
      BY <3>1, Zenon
    <3> QED
      BY <3>2, Zenon
  <2>3. DistinctHolders(approvals) = Holders(approvals)
    <3>1. ASSUME NEW p \in approvals
          PROVE  /\ p.credential_id \in Devices
                 /\ \E a \in answers :
                       /\ Answered(a, p.credential_id, "webauthn.get", a.challenge)
                       /\ p.new_sign_count = a.sign_count
      <4>1. PICK i \in DOMAIN logins : p = logins[i].claims
        OBVIOUS
      <4>2. logins[i] \in LoginRecord /\ LoginIsGenuine(logins[i])
        BY DEF IInv, TypeOK, Genuine
      <4>3. p.credential_id \in Devices
        BY <4>1, <4>2 DEF LoginRecord, Claims
      <4> QED
        BY <4>1, <4>2, <4>3 DEF LoginIsGenuine, Answered
    <3> QED
      BY <3>1 DEF DistinctHolders
  <2>4. threshold >= 2 /\ ~(Cardinality(DistinctHolders(approvals)) < threshold)
    BY <2>2 DEF verify_quorum, MINIMUM_THRESHOLD
  <2>5. Cardinality(DistinctHolders(approvals)) \in Nat
    <3>1. Finite!IsFiniteSet({logins[i].claims : i \in DOMAIN logins})
      <4>1. DOMAIN logins = 1..Len(logins) /\ Len(logins) \in Nat
        BY DEF IInv, TypeOK
      <4>2. Finite!IsFiniteSet(DOMAIN logins)
        BY <4>1, Finite!FS_Interval
      <4> DEFINE T == {logins[i].claims : i \in DOMAIN logins}
                 f == [i \in DOMAIN logins |-> logins[i].claims]
      <4>3. f \in Finite!Surjection(DOMAIN logins, T)
        BY DEF Finite!Surjection
      <4> QED
        BY <4>2, <4>3, Finite!FS_Surjection, Zenon
    <3>2. Finite!IsFiniteSet(approvals)
      BY <3>1, Finite!FS_Subset, Zenon
    <3>3. Finite!IsFiniteSet(DistinctHolders(approvals))
      <4> DEFINE f == [p \in approvals |-> p.credential_id]
      <4>1. f \in Finite!Surjection(approvals, DistinctHolders(approvals))
        BY DEF Finite!Surjection, DistinctHolders
      <4> QED
        BY <3>2, <4>1, Finite!FS_Surjection
    <3> QED
      BY <3>3, Finite!FS_CardinalityType, FiniteSetsAgree
  <2> HIDE DEF Holders
  <2> QED
    BY <2>2, <2>3, <2>4, <2>5, ThresholdIsMet, Zenon
<1> QED
  BY <1>1, Invariance, RepliesAreCurrent, PTL

-----------------------------------------------------------------------------
(* VerifyAssertion says valid only of a login of that subject, level,      *)
(* method and event, from its second on and strictly before its expiry,    *)
(* and says so of every assertion that reaches it unchanged                *)
(* (identity_assertion.rs:306-309, 382-385).                               *)
THEOREM AssertionsSpeakForLogins == Spec => []AssertionSpeaksForALogin
<1>1. IInv /\ EventsAreNamed /\ ReplyIsCurrent => AssertionSpeaksForALogin
  BY Dates, AssertionSpeaks
<1> QED
  BY <1>1, Invariance, LoginsHaveEvents, RepliesAreCurrent, PTL
=============================================================================
