-------------------------- MODULE IdentityCeremony --------------------------
(***************************************************************************)
(* identity-provider: the WebAuthn registration and authentication         *)
(* ceremonies over HTTP (httpapi.rs), on its Postgres tables               *)
(* identity.challenges and identity.authenticators (store.rs), with the    *)
(* audit journal seen through the outcome of seal_and_append_audit_event   *)
(* (the chain itself is AuditChain).                                       *)
(*                                                                         *)
(* A ceremony makes several calls -- consume the challenge, read the       *)
(* authenticator, advance its counter, seal, append the event -- between   *)
(* which others run; any of them may fail, and a write may be committed    *)
(* with its answer lost.  What happens between two calls is one step.      *)
(* What a client presents is a challenge, a credential, a signature        *)
(* counter, and whether the rest of the ceremony verifies (origin, rpId,   *)
(* user presence, signature): "genuine".                                   *)
(***************************************************************************)
EXTENDS Integers

CONSTANTS Requests,     \* verify requests handled concurrently
          Challenges,   \* challenges, drawn at random: never issued twice
          Credentials,  \* credential identifiers
          Earlier,      \* counters of authenticators registered earlier
          MaxCount      \* bound on the signature counters

ASSUME CeremonyAssumption == MaxCount \in Nat /\ Earlier \subseteq 0..MaxCount

VARIABLES challenges,      \* identity.challenges
          authenticators,  \* identity.authenticators
          journal,         \* events of these ceremonies in the audit journal
          pc,              \* pc[r]: the next call of the request r
          proof,           \* proof[r]: what the client of r presented
          row,             \* row[r]: the authenticator as r has read it
          event_id,        \* event_id[r]: the identifier r has generated
          minted,          \* number of event identifiers generated
          assertions,      \* assertions returned to clients
          reply            \* reply[r]: what the last request of r was answered

tables == <<challenges, authenticators>>
locals == <<proof, row, event_id>>
vars == <<tables, journal, pc, locals, minted, assertions, reply>>

-----------------------------------------------------------------------------
Kinds == {"registration", "authentication"}
Counts == 0..MaxCount

Challenge == [status : {"absent"}]
               \cup [status : {"issued", "used", "expired"}, kind : Kinds]
Absent == [status |-> "absent"]

Authenticator == [sign_count : Counts, counter_supported : BOOLEAN,
                  revoked : BOOLEAN]
NoRow == [sign_count |-> 0]

(* What a proof that does not verify says of its counter plays no part.    *)
Proof == [kind : Kinds, challenge : Challenges, credential : Credentials,
          sign_count : Counts, genuine : {TRUE}]
           \cup [kind : Kinds, challenge : Challenges, credential : Credentials,
                 sign_count : {0}, genuine : {FALSE}]
NoProof == [genuine |-> FALSE]

Event == [type : {"authenticator.registered", "authentication.failed"},
          credential : Credentials]
           \cup [type : {"authentication.succeeded"}, id : Nat]
Registered(c) == [type |-> "authenticator.registered", credential |-> c]
Failed(c) == [type |-> "authentication.failed", credential |-> c]
Succeeded(n) == [type |-> "authentication.succeeded", id |-> n]

Assertion == [id : Nat, challenge : Challenges, credential : Credentials,
              sign_count : Counts]

PC == {"idle", "consume", "insert", "audit_registered", "find", "advance",
       "audit_failed", "seal", "audit_succeeded"}
(* The refusals of the client (challenge_invalide, ceremonie_invalide,     *)
(* authentification_refusee) are one; that of a suspected clone, the same  *)
(* on the wire, is told apart by the event that comes with it.             *)
Reply == [status : {"none", "unavailable", "refused", "authenticated"}]
           \cup [status : {"registered", "clonage_suspecte"},
                 credential : Credentials]
Plain(status) == [status |-> status]
About(status, c) == [status |-> status, credential |-> c]

TypeOK ==
    /\ challenges \in [Challenges -> Challenge]
    /\ authenticators \in [Credentials -> Authenticator \cup {NoRow}]
    /\ journal \subseteq Event
    /\ pc \in [Requests -> PC]
    /\ proof \in [Requests -> Proof \cup {NoProof}]
    /\ row \in [Requests -> Authenticator \cup {NoRow}]
    /\ event_id \in [Requests -> Nat]
    /\ minted \in Nat
    /\ assertions \subseteq Assertion
    /\ reply \in [Requests -> Reply]

(* The request r goes on to its next call, or is answered.                 *)
Goto(r, p) ==
    /\ pc' = [pc EXCEPT ![r] = p]
    /\ UNCHANGED reply

Answer(r, answer) ==
    /\ pc' = [pc EXCEPT ![r] = "idle"]
    /\ proof' = [proof EXCEPT ![r] = NoProof]
    /\ row' = [row EXCEPT ![r] = NoRow]
    /\ event_id' = [event_id EXCEPT ![r] = 0]
    /\ reply' = [reply EXCEPT ![r] = answer]

(* The tables as earlier ceremonies left them: some authenticators are     *)
(* registered, with their events.                                          *)
Init ==
    /\ challenges = [c \in Challenges |-> Absent]
    /\ authenticators \in [Credentials -> {NoRow} \cup
           {[sign_count |-> n, counter_supported |-> n # 0, revoked |-> FALSE] :
               n \in Earlier}]
    /\ journal = {Registered(c) : c \in {d \in Credentials :
                                            authenticators[d] # NoRow}}
    /\ pc = [r \in Requests |-> "idle"]
    /\ proof = [r \in Requests |-> NoProof]
    /\ row = [r \in Requests |-> NoRow]
    /\ event_id = [r \in Requests |-> 0]
    /\ minted = 0
    /\ assertions = {}
    /\ reply = [r \in Requests |-> Plain("none")]

-----------------------------------------------------------------------------
(* registration_challenge, authentication_challenge.                       *)
IssueChallenge(c, kind) ==
    /\ challenges[c] = Absent
    /\ challenges' = [challenges EXCEPT ![c] = [status |-> "issued",
                                                kind |-> kind]]
    /\ UNCHANGED <<authenticators, journal, pc, locals, minted, assertions,
                   reply>>

(* expires_at passes.                                                      *)
ExpireChallenge(c) ==
    /\ challenges[c].status = "issued"
    /\ challenges' = [challenges EXCEPT ![c].status = "expired"]
    /\ UNCHANGED <<authenticators, journal, pc, locals, minted, assertions,
                   reply>>

(* revoked_at is set by an operator (no code of the repository does).      *)
RevokeAuthenticator(c) ==
    /\ authenticators[c] # NoRow
    /\ ~authenticators[c].revoked
    /\ authenticators' = [authenticators EXCEPT ![c].revoked = TRUE]
    /\ UNCHANGED <<challenges, journal, pc, locals, minted, assertions, reply>>

(* registration_verify or authentication_verify is called, and its fields  *)
(* decoded.                                                                *)
Verify(r) ==
    /\ pc[r] = "idle"
    /\ \E p \in Proof :
          /\ challenges[p.challenge] # Absent
          /\ proof' = [proof EXCEPT ![r] = p]
    /\ pc' = [pc EXCEPT ![r] = "consume"]
    /\ reply' = [reply EXCEPT ![r] = Plain("none")]
    /\ UNCHANGED <<tables, journal, row, event_id, minted, assertions>>

(* Mutant: the condition used_at IS NULL is missing.                       *)
ConsumableTwice(p) ==
    \E status \in {"issued", "used"} :
        challenges[p.challenge] = [status |-> status, kind |-> p.kind]

(* UPDATE ... SET used_at = now() WHERE challenge = $1 AND ceremony_kind =  *)
(* $2 AND used_at IS NULL AND expires_at > now().                          *)
Consumable(p) ==
    challenges[p.challenge] = [status |-> "issued", kind |-> p.kind]

Use(p) == challenges' = [challenges EXCEPT ![p.challenge].status = "used"]

ConsumeChallenge(r) ==
    /\ pc[r] = "consume"
    /\ Consumable(proof[r])
    /\ Use(proof[r])
    /\ Goto(r, IF proof[r].kind = "registration" THEN "insert" ELSE "find")
    /\ UNCHANGED <<authenticators, journal, locals, minted, assertions>>

ChallengeRefused(r) ==
    /\ pc[r] = "consume"
    /\ ~Consumable(proof[r])
    /\ Answer(r, Plain("refused"))
    /\ UNCHANGED <<tables, journal, minted, assertions>>

(* The UPDATE commits and its answer is lost: the challenge is spent.      *)
ConsumeUnacknowledged(r) ==
    /\ pc[r] = "consume"
    /\ Consumable(proof[r])
    /\ Use(proof[r])
    /\ Answer(r, Plain("unavailable"))
    /\ UNCHANGED <<authenticators, journal, minted, assertions>>

(* verify_registration_ceremony, then INSERT INTO identity.authenticators: *)
(* a counter counts if it is not zero at registration, once and for all.   *)
NewAuthenticator(p) ==
    [sign_count |-> p.sign_count, counter_supported |-> p.sign_count # 0,
     revoked |-> FALSE]

RegistrationRefused(r) ==
    /\ pc[r] = "insert"
    /\ ~proof[r].genuine
    /\ Answer(r, Plain("refused"))
    /\ UNCHANGED <<tables, journal, minted, assertions>>

InsertAuthenticator(r) ==
    LET c == proof[r].credential
    IN /\ pc[r] = "insert"
       /\ proof[r].genuine
       /\ authenticators[c] = NoRow
       /\ authenticators' = [authenticators EXCEPT ![c] =
                                NewAuthenticator(proof[r])]
       /\ Goto(r, "audit_registered")
       /\ UNCHANGED <<challenges, journal, locals, minted, assertions>>

InsertUnacknowledged(r) ==
    LET c == proof[r].credential
    IN /\ pc[r] = "insert"
       /\ proof[r].genuine
       /\ authenticators[c] = NoRow
       /\ authenticators' = [authenticators EXCEPT ![c] =
                                NewAuthenticator(proof[r])]
       /\ Answer(r, Plain("unavailable"))
       /\ UNCHANGED <<challenges, journal, minted, assertions>>

(* Mutant: ON CONFLICT DO UPDATE.                                          *)
InsertConflictReplaces(r) ==
    LET c == proof[r].credential
    IN /\ pc[r] = "insert"
       /\ proof[r].genuine
       /\ authenticators[c] # NoRow
       /\ authenticators' = [authenticators EXCEPT ![c] =
                                NewAuthenticator(proof[r])]
       /\ Goto(r, "audit_registered")
       /\ UNCHANGED <<challenges, journal, locals, minted, assertions>>

(* The credential is the primary key: a second row is a store error.       *)
InsertConflict(r) ==
    /\ pc[r] = "insert"
    /\ proof[r].genuine
    /\ authenticators[proof[r].credential] # NoRow
    /\ Answer(r, Plain("unavailable"))
    /\ UNCHANGED <<tables, journal, minted, assertions>>

(* find_authenticator, then verify_authentication_ceremony on the row just *)
(* read: revocation, the ceremony itself, and the counter if it counts.    *)
Verifies(p, a) ==
    /\ a # NoRow
    /\ ~a.revoked
    /\ p.genuine
    /\ a.counter_supported => p.sign_count > a.sign_count

FindAuthenticator(r) ==
    LET a == authenticators[proof[r].credential]
    IN /\ pc[r] = "find"
       /\ Verifies(proof[r], a)
       /\ row' = [row EXCEPT ![r] = a]
       /\ Goto(r, "advance")
       /\ UNCHANGED <<tables, journal, proof, event_id, minted, assertions>>

AuthenticationRefused(r) ==
    /\ pc[r] = "find"
    /\ ~Verifies(proof[r], authenticators[proof[r].credential])
    /\ Answer(r, Plain("refused"))
    /\ UNCHANGED <<tables, journal, minted, assertions>>

(* Mutant: sign_count <= $2.                                               *)
AdvancesOrEqual(p) == authenticators[p.credential].sign_count <= p.sign_count

(* UPDATE ... SET sign_count = $2 WHERE sign_count < $2, for every         *)
(* authenticator, whether its counter counts or not.                       *)
Advances(p) == authenticators[p.credential].sign_count < p.sign_count

SetCount(p) ==
    authenticators' = [authenticators EXCEPT ![p.credential].sign_count =
                                                p.sign_count]

AdvanceSignCount(r) ==
    /\ pc[r] = "advance"
    /\ Advances(proof[r])
    /\ SetCount(proof[r])
    /\ Goto(r, "seal")
    /\ UNCHANGED <<challenges, journal, locals, minted, assertions>>

AdvanceUnacknowledged(r) ==
    /\ pc[r] = "advance"
    /\ Advances(proof[r])
    /\ SetCount(proof[r])
    /\ Answer(r, Plain("unavailable"))
    /\ UNCHANGED <<challenges, journal, minted, assertions>>

(* Mutant: the ceremony is tried again on the row as it is now.            *)
AdvanceRefusedReads(r) ==
    /\ pc[r] = "advance"
    /\ ~Advances(proof[r])
    /\ Goto(r, "find")
    /\ UNCHANGED <<tables, journal, locals, minted, assertions>>

(* The counter does not advance: a clone is suspected.                     *)
AdvanceRefused(r) ==
    /\ pc[r] = "advance"
    /\ ~Advances(proof[r])
    /\ Goto(r, "audit_failed")
    /\ UNCHANGED <<tables, journal, locals, minted, assertions>>

(* Mutant: the assertion is returned as soon as it is sealed.              *)
SealAssertionAndReturn(r) ==
    /\ pc[r] = "seal"
    /\ minted' = minted + 1
    /\ event_id' = [event_id EXCEPT ![r] = minted + 1]
    /\ assertions' = assertions \cup
          {[id |-> minted + 1, challenge |-> proof[r].challenge,
            credential |-> proof[r].credential,
            sign_count |-> proof[r].sign_count]}
    /\ Goto(r, "audit_succeeded")
    /\ UNCHANGED <<tables, journal, proof, row>>

(* The event identifier is generated, then the assertion that names it is  *)
(* sealed, before the event itself exists.                                 *)
SealAssertion(r) ==
    /\ pc[r] = "seal"
    /\ minted' = minted + 1
    /\ event_id' = [event_id EXCEPT ![r] = minted + 1]
    /\ Goto(r, "audit_succeeded")
    /\ UNCHANGED <<tables, journal, proof, row, assertions>>

(* seal_and_append_audit_event, in the three places it is called from.     *)
EventOf(r) ==
    CASE pc[r] = "audit_registered" -> Registered(proof[r].credential)
      [] pc[r] = "audit_failed"     -> Failed(proof[r].credential)
      [] pc[r] = "audit_succeeded"  -> Succeeded(event_id[r])

Auditing(r) ==
    pc[r] \in {"audit_registered", "audit_failed", "audit_succeeded"}

AssertionOf(r) ==
    [id |-> event_id[r], challenge |-> proof[r].challenge,
     credential |-> proof[r].credential, sign_count |-> proof[r].sign_count]

AppendRegistered(r) ==
    /\ pc[r] = "audit_registered"
    /\ journal' = journal \cup {EventOf(r)}
    /\ Answer(r, About("registered", proof[r].credential))
    /\ UNCHANGED <<tables, minted, assertions>>

AppendFailed(r) ==
    /\ pc[r] = "audit_failed"
    /\ journal' = journal \cup {EventOf(r)}
    /\ Answer(r, About("clonage_suspecte", proof[r].credential))
    /\ UNCHANGED <<tables, minted, assertions>>

AppendSucceeded(r) ==
    /\ pc[r] = "audit_succeeded"
    /\ journal' = journal \cup {EventOf(r)}
    /\ assertions' = assertions \cup {AssertionOf(r)}
    /\ Answer(r, Plain("authenticated"))
    /\ UNCHANGED <<tables, minted>>

(* The event is in the journal and the request does not learn it.          *)
AppendUnacknowledged(r) ==
    /\ Auditing(r)
    /\ journal' = journal \cup {EventOf(r)}
    /\ Answer(r, Plain("unavailable"))
    /\ UNCHANGED <<tables, minted, assertions>>

(* Postgres or the HSM cannot be reached: nothing done by this call, and   *)
(* everything done by the calls before it stays.                           *)
CallFails(r) ==
    /\ pc[r] # "idle"
    /\ Answer(r, Plain("unavailable"))
    /\ UNCHANGED <<tables, journal, minted, assertions>>

(* The service crashes: its requests vanish.                               *)
Crash ==
    /\ \E r \in Requests : pc[r] # "idle"
    /\ pc' = [r \in Requests |-> "idle"]
    /\ proof' = [r \in Requests |-> NoProof]
    /\ row' = [r \in Requests |-> NoRow]
    /\ event_id' = [r \in Requests |-> 0]
    /\ UNCHANGED <<tables, journal, minted, assertions, reply>>

Step(r) ==
    \/ ConsumeChallenge(r) \/ ChallengeRefused(r) \/ ConsumeUnacknowledged(r)
    \/ RegistrationRefused(r)
    \/ InsertAuthenticator(r) \/ InsertUnacknowledged(r) \/ InsertConflict(r)
    \/ FindAuthenticator(r) \/ AuthenticationRefused(r)
    \/ AdvanceSignCount(r) \/ AdvanceUnacknowledged(r) \/ AdvanceRefused(r)
    \/ SealAssertion(r)
    \/ AppendRegistered(r) \/ AppendFailed(r) \/ AppendSucceeded(r)
    \/ AppendUnacknowledged(r)
    \/ CallFails(r)

Next ==
    \/ \E c \in Challenges :
          \/ \E kind \in Kinds : IssueChallenge(c, kind)
          \/ ExpireChallenge(c)
    \/ \E c \in Credentials : RevokeAuthenticator(c)
    \/ \E r \in Requests : Verify(r) \/ Step(r)
    \/ Crash

Spec == Init /\ [][Next]_vars

(* Calls to Postgres and to the HSM return or fail.                        *)
FairSpec == Spec /\ \A r \in Requests : WF_vars(Step(r))

-----------------------------------------------------------------------------
(* A challenge yields at most one assertion (ADR-023, httpapi.rs:173-174): *)
(* neither concurrent requests, nor a failed or unanswered one, leave it   *)
(* usable a second time.                                                   *)
OneAssertionPerChallenge ==
    \A a, b \in assertions : a.challenge = b.challenge => a = b

(* Two assertions for the same credential never carry the same signature   *)
(* counter, although requests verify the counter on a row that others may  *)
(* have advanced since (httpapi.rs:346-353), and the stored counter is at  *)
(* least that of every assertion.                                          *)
CountersAreNotReplayed ==
    \A a \in assertions :
        /\ a.sign_count <= authenticators[a.credential].sign_count
        /\ \A b \in assertions :
              a.credential = b.credential /\ a.sign_count = b.sign_count
                 => a = b

(* ADR-023 and httpapi.rs:417-418: a client is answered success, or is     *)
(* refused on suspicion of a clone, only when the event is in the journal, *)
(* and an assertion is returned only with the event that it names.         *)
AnswersAreAudited ==
    /\ \A a \in assertions : Succeeded(a.id) \in journal
    /\ \A r \in Requests :
          /\ reply[r].status = "registered" =>
                Registered(reply[r].credential) \in journal
          /\ reply[r].status = "clonage_suspecte" =>
                Failed(reply[r].credential) \in journal

(* A row is never removed or reinitialised, its counter never goes back    *)
(* and whether it counts is decided once (migration 004, store.rs:193).    *)
AuthenticatorsOnlyAdvance ==
    [][\A c \in Credentials : authenticators[c] # NoRow =>
          /\ authenticators'[c] # NoRow
          /\ authenticators'[c].sign_count >= authenticators[c].sign_count
          /\ authenticators'[c].counter_supported =
                authenticators[c].counter_supported
          /\ authenticators[c].revoked => authenticators'[c].revoked]_vars

(* Every verify request is answered, or the service crashes.               *)
EveryCeremonyEnds == \A r \in Requests : pc[r] # "idle" ~> pc[r] = "idle"

(* The test of authentication.rs:327-349: an authenticator whose counter   *)
(* stays at 0 for ever (a synchronised passkey) is never refused for that  *)
(* reason alone.                                                           *)
CounterlessIsNotSuspected ==
    \A r \in Requests :
        pc[r] = "audit_failed" => row[r].sign_count # 0 \/ proof[r].sign_count # 0
=============================================================================
