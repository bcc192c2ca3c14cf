--------------------------- MODULE OfflineVerifier ---------------------------
(***************************************************************************)
(* The verification of an exported journal, away from the services: every  *)
(* event with audit_seal::verify, the chain they form with verify_chain.   *)
(* The two are independent controls (audit_seal.rs:518-522) and one of     *)
(* them is explored at a time:                                             *)
(*                                                                         *)
(*  - an event is requested, sealed by audit-sealer, and reaches the       *)
(*    auditor as it was sealed or as a copy that differs in one place;     *)
(*  - the entries of an export are read one at a time, every entry being   *)
(*    possible, so that TLC meets every sequence of at most MaxEntries.    *)
(***************************************************************************)
EXTENDS AuditSeal, DocumentCopies, ChainVerifier

CONSTANTS Bytes,          \* byte strings, each with its length
          SealRequests,   \* requests that audit-sealer receives
          Another,        \* the request of another event of the journal
          ExpectedDomain, \* the authority domain that the auditor expects
          SealerKey,      \* public key of the sealing key
          PublishedKeys,  \* keys that the auditor is given
          ExportDomains,  \* authority domains found in the export
          MaxSequence,    \* bound on the sequence numbers found in it
          MaxBytes,       \* bound on the number of sealed events found in it
          MaxEntries      \* bound on its length

ASSUME ExportAssumption ==
    {MaxSequence, MaxBytes, MaxEntries} \subseteq Nat

(* The messages of SealRequest: an optional field may be None.             *)
Option(S) == {None} \cup S
ActorMessage == [subject_id : STRING, kind : STRING, aal : Option(STRING),
                 auth_method : Option(STRING)]
TargetMessage == [type : STRING, id : STRING]
ContextMessage == [source_network : Option(STRING), ticket_ref : Option(STRING),
                   justification : Option(STRING)]
DecisionMessage ==
    [request_id : STRING, decision_hash : Bytes, policy_version : STRING,
     reasons : Seq(STRING), granted_ttl_seconds : Option(Nat),
     decision_signature : Option(Bytes),
     decision_signature_key_id : Option(STRING)]
SealRequest ==
    [event_id : STRING, sequence : Nat, prev_hash : Bytes,
     occurred_at : Option(Instant), authority_domain : STRING,
     event_type : STRING, actor : Option(ActorMessage),
     target : Option(TargetMessage), outcome : STRING,
     context : Option(ContextMessage), decision : Option(DecisionMessage)]

(* The sealing key is published.                                           *)
ASSUME RequestsAssumption ==
    /\ \A b \in Bytes : b.length \in Nat
    /\ SealRequests \subseteq SealRequest
    /\ \E p \in PublishedKeys :
          /\ p.suite = SUITE_V1 /\ p.key_id = key_id_from_public_key(SealerKey)
          /\ p.sec1.length = 65 /\ p.sec1.first = 4 /\ p.sec1.point = SealerKey

(* The values of a document and of its objects, before and after they are  *)
(* serialised; None and Null are none of them.                             *)
Hex == [bytes : Bytes, digits : {"lower"}]
Text == [date : [year : Int, month : 1..12, day : 1..31], hour : Int,
         minute : Int, second : Int]
Scalar == STRING \cup Nat \cup Bytes \cup Hex \cup Seq(STRING)
ObjectNames == UNION {SUBSET (w.required \cup w.optional) :
                         w \in {WireActor, WireTarget, WireContext, WireDecision}}

NoneIsApart ==
    /\ None \notin Scalar \cup Text \cup SealRequest \cup ActorMessage
                \cup TargetMessage \cup ContextMessage \cup DecisionMessage
                \cup {Components}
    /\ \A D \in ObjectNames : None \notin [D -> Option(Scalar)]
NullIsApart ==
    /\ Null \notin Scalar \cup Text
    /\ \A D \in ObjectNames : Null \notin [D -> Option(Scalar)]
    /\ Null # <<Component(key_id_from_public_key(SealerKey), [length |-> 64])>>
    /\ \A r \in {q \in SealRequests : RequestIsValid(q)} :
          LET s == SignatureUnder(SealerKey,
                      unsigned_document(fields_from_request(r)))
              c == s.components[1]
          IN  Null \notin {s, s.suite, s.components, c.component, c.key_id, c.value}

ASSUME AbsenceAssumption == NoneIsApart /\ NullIsApart

VARIABLES entries,       \* the entries of the export read so far
          key_id,        \* audit-sealer: the key identifier read at start-up
          request,       \* the request of the event
          answer,        \* what audit-sealer answers to it
          sealed_event,  \* the sealed bytes, if that is its answer
          received,      \* the bytes that the auditor reads
          verdict        \* what verify says of them

event == <<key_id, request, answer, sealed_event, received, verdict>>
auditor == <<entries, event>>

ChainEntry == [authority_domain : ExportDomains, sequence : 0..MaxSequence,
               prev_hash : {hash_sealed_event(b) : b \in 0..MaxBytes},
               sealed_bytes : 1..MaxBytes]

AuditorInit ==
    /\ entries = <<>>
    /\ key_id = None /\ request = None /\ answer = None
    /\ sealed_event = None /\ received = None /\ verdict = None

-----------------------------------------------------------------------------
(* AuditSealer::open: the public key is read once.                         *)
OpenSealer ==
    /\ key_id = None /\ entries = <<>>
    /\ key_id' = key_id_from_public_key(SealerKey)
    /\ UNCHANGED <<entries, request, answer, sealed_event, received, verdict>>

Request ==
    /\ key_id # None /\ request = None
    /\ request' \in SealRequests
    /\ UNCHANGED <<entries, key_id, answer, sealed_event, received, verdict>>

(* The service answers InvalidArgument; Unavailable, for fields that seal  *)
(* refuses and when the HSM does not sign (never retried); or sealed bytes. *)
InvalidArgument ==
    /\ request # None /\ answer = None
    /\ ~RequestIsValid(request)
    /\ answer' = "InvalidArgument"
    /\ UNCHANGED <<entries, key_id, request, sealed_event, received, verdict>>

Unavailable ==
    /\ request # None /\ answer = None
    /\ RequestIsValid(request)
    /\ answer' = "Unavailable"
    /\ UNCHANGED <<entries, key_id, request, sealed_event, received, verdict>>

SealEvent ==
    /\ request # None /\ answer = None
    /\ RequestIsValid(request)
    /\ ~SealIsRefused(fields_from_request(request), SealerKey)
    /\ answer' = "SealResponse"
    /\ sealed_event' = SealedEvent(fields_from_request(request), SealerKey)
    /\ UNCHANGED <<entries, key_id, request, received, verdict>>

-----------------------------------------------------------------------------
InnerCopies(document, other, k, wire) ==
    IF k \in DOMAIN document \cap DOMAIN other
    THEN {With(document, k, o) : o \in
             ObjectCopies(document[k], other[k], wire.required \cup wire.optional)}
    ELSE {}

SignatureCopies(document) ==
    LET s == document.signature
    IN {With(document, "signature", v) : v \in
          {[s EXCEPT !.suite = "audit-seal/v2"]}
            \cup {[s EXCEPT !.components = c] : c \in
                     ComponentCopies(s.components)}}

Copies(bytes) ==
    LET document == bytes.object
        other    == SealedEvent(fields_from_request(Another), SealerKey).object
    IN {[bytes EXCEPT !.layout = "other"]}
         \cup {canonical_bytes(d) : d \in
                 ObjectCopies(document, other,
                              WireDocument.required \cup WireDocument.optional)
                   \cup InnerCopies(document, other, "actor", WireActor)
                   \cup InnerCopies(document, other, "target", WireTarget)
                   \cup InnerCopies(document, other, "context", WireContext)
                   \cup InnerCopies(document, other, "decision", WireDecision)
                   \cup SignatureCopies(document)
                   \cup {With(document, "schema_version", 2)}}

(* The auditor accepts the keys that are published, and reads an event.    *)
KeyRing ==
    {k \in {accept_verifying_key(p.suite, SUITE_V1, p.key_id, p.sec1) :
               p \in PublishedKeys} : "error" \notin DOMAIN k}

Policy == [accepted_suites |-> {SUITE_V1},
           expected_authority_domain |-> ExpectedDomain]

VerifyEvent ==
    /\ sealed_event # None /\ received = None
    /\ received' \in {sealed_event} \cup Copies(sealed_event)
    /\ verdict' = verify(KeyRing, received', Policy)
    /\ UNCHANGED <<entries, key_id, request, answer, sealed_event>>

ReadEntry ==
    /\ key_id = None
    /\ Len(entries) < MaxEntries
    /\ \E entry \in ChainEntry : entries' = Append(entries, entry)
    /\ UNCHANGED event

Done ==
    /\ \/ Len(entries) = MaxEntries
       \/ answer \in {"InvalidArgument", "Unavailable"}
       \/ received # None
    /\ UNCHANGED auditor

AuditorNext ==
    \/ OpenSealer \/ Request \/ InvalidArgument \/ Unavailable \/ SealEvent
    \/ VerifyEvent \/ ReadEntry \/ Done

AuditorSpec == AuditorInit /\ [][AuditorNext]_auditor

-----------------------------------------------------------------------------
(* Whatever audit-sealer seals, the auditor accepts, and reads back what   *)
(* was requested: the size that seal admits is a size that verify admits,  *)
(* to the byte, and the optional members that seal leaves out are not      *)
(* written back as null.  Otherwise the chain would be broken for good     *)
(* (audit_seal.rs:45-48, 745-748, 814-821).                                *)
SealedIsVerifiable ==
    (/\ sealed_event # None /\ received = sealed_event
     /\ request.authority_domain = ExpectedDomain)
      => /\ verdict = "Ok"
         /\ LET v == VerifiedAuditEvent(received)
            IN /\ v.event_id = request.event_id
               /\ v.sequence = request.sequence
               /\ v.prev_hash = request.prev_hash
               /\ request_time_from_rfc3339(v.occurred_at) = request.occurred_at
               /\ EventType[v.event_type] = request.event_type

(* The object of the document says what the optional message of the        *)
(* request says: nothing dropped, nothing invented.                        *)
Plain(k, v) == IF k \in {"decision_hash", "decision_signature"}
               THEN hex_decode(v) ELSE v

Says(document, k) ==
    /\ k \in DOMAIN document <=> request[k] # None
    /\ k \in DOMAIN document =>
          \A m \in DOMAIN request[k] :
             /\ m \in DOMAIN document[k] <=> request[k][m] # None
             /\ m \in DOMAIN document[k] =>
                   Plain(m, document[k][m]) = request[k][m]

(* What the auditor accepts is an event that was requested, sealed for the *)
(* expected domain, member for member: a copy that differs from it is      *)
(* refused, be it by a null, by the order of its members or by its suite.  *)
(* (The digits of the signature may be in either case: they are not        *)
(* signed, and the next event of the chain covers them.)                   *)
VerifiedWasSealed ==
    received # None /\ verdict = "Ok" =>
        LET document == received.object
        IN /\ received.layout = "canonical"
           /\ Without(document, "signature")
                = Without(sealed_event.object, "signature")
           /\ request.authority_domain = ExpectedDomain
           /\ request.outcome = document.outcome
           /\ \A k \in {"actor", "target", "context", "decision"} :
                 Says(document, k)

-----------------------------------------------------------------------------
(* verify_chain accepts exactly the non-empty exports that are well        *)
(* chained (chain.rs:54-56).                                               *)
VerdictIsExact ==
    verify_chain(entries) = "Ok" <=> entries # <<>> /\ WellChained(entries)
=============================================================================
