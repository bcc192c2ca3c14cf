--------------------------- MODULE ServiceProofs ----------------------------
(***************************************************************************)
(* Proofs about two services on their own.                                 *)
(*                                                                         *)
(* identity-provider (IdentityCeremony), for any number of concurrent      *)
(* requests, challenges, credentials and counters: a challenge yields one  *)
(* assertion, a counter is accepted once, nothing is answered before its   *)
(* event is in the journal, and a row of the registry only advances.       *)
(*                                                                         *)
(* policy-engine (PolicyEngine), for any set of requests, any clock and    *)
(* any number of concurrent calls: its decisions are the policy's, and     *)
(* they are verified exactly when they were answered.                      *)
(***************************************************************************)
EXTENDS IdentityCeremony, PolicyEngine, CivilCalendarProofs, TLAPS

-----------------------------------------------------------------------------
(* identity-provider.                                                      *)

(* The request r has consumed its challenge for an authentication; has     *)
(* found the authenticator; has advanced its counter.                      *)
Consumed(r) == pc[r] \in {"find", "advance", "audit_failed", "seal",
                          "audit_succeeded"}
Found(r) == pc[r] \in {"advance", "audit_failed", "seal", "audit_succeeded"}
Advanced(r) == pc[r] \in {"seal", "audit_succeeded"}

(* Types, and what the client presented while a request is under way.      *)
WellTyped ==
    /\ TypeOK
    /\ \A r \in Requests : pc[r] # "idle" => proof[r] \in Proof

(* The right to an assertion for a challenge is held once: by the request  *)
(* that consumed it, or by the assertion it produced.                      *)
ConsumedOnce ==
    /\ \A r \in Requests : Consumed(r) =>
          challenges[proof[r].challenge].status = "used"
    /\ \A r, s \in Requests :
          Consumed(r) /\ Consumed(s) /\ proof[r].challenge = proof[s].challenge
             => r = s
    /\ \A a \in assertions :
          /\ challenges[a.challenge].status = "used"
          /\ \A r \in Requests : Consumed(r) => proof[r].challenge # a.challenge
    /\ OneAssertionPerChallenge

(* So is the right to a counter, and the row has reached all of them.      *)
FoundHasRow ==
    \A r \in Requests : Found(r) => authenticators[proof[r].credential] # NoRow
RowHasReached ==
    \A r \in Requests : Advanced(r) =>
        proof[r].sign_count <= authenticators[proof[r].credential].sign_count
HeldOnce ==
    \A r, s \in Requests :
        /\ Advanced(r) /\ Advanced(s)
        /\ proof[r].credential = proof[s].credential
        /\ proof[r].sign_count = proof[s].sign_count
        => r = s
HeldIsNotReturned ==
    \A a \in assertions, r \in Requests :
        Advanced(r) /\ proof[r].credential = a.credential
           => proof[r].sign_count # a.sign_count
AdvancedOnce ==
    /\ FoundHasRow
    /\ RowHasReached
    /\ HeldOnce
    /\ HeldIsNotReturned
    /\ CountersAreNotReplayed

(* The inductive invariant.                                                *)
IInv ==
    /\ WellTyped
    /\ ConsumedOnce
    /\ AdvancedOnce
    /\ AnswersAreAudited

-----------------------------------------------------------------------------
(* The parts of the invariant, for the steps that need one of them.        *)
LEMMA RequestsTyped ==
    ASSUME IInv
    PROVE  /\ pc \in [Requests -> PC]
           /\ proof \in [Requests -> Proof \cup {NoProof}]
BY Zenon DEF IInv, WellTyped, TypeOK

LEMMA RepliesTyped ==
    ASSUME IInv
    PROVE  reply \in [Requests -> Reply]
BY Zenon DEF IInv, WellTyped, TypeOK

LEMMA CountersHeld ==
    ASSUME IInv
    PROVE  /\ FoundHasRow /\ RowHasReached /\ HeldOnce
           /\ HeldIsNotReturned /\ CountersAreNotReplayed
BY Zenon DEF IInv, AdvancedOnce

LEMMA FoundIsUnderWay ==
    ASSUME IInv
    PROVE  \A r \in Requests : Found(r) =>
              pc[r] # "idle" /\ authenticators[proof[r].credential] # NoRow
<1>1. \A r \in Requests : Found(r) => pc[r] # "idle"
  BY DEF Found
<1> QED
  BY <1>1, CountersHeld, Zenon DEF FoundHasRow

-----------------------------------------------------------------------------
LEMMA AtMostIsTransitive ==
    /\ \A n \in Nat : n <= n
    /\ \A k, m, n \in Nat : k <= m /\ m <= n => k <= n
OBVIOUS

LEMMA CountsAreNumbers == 0 \in Counts /\ Counts \subseteq Nat
BY CeremonyAssumption DEF Counts

LEMMA ProofFields ==
    ASSUME NEW p \in Proof
    PROVE  /\ p.kind \in Kinds /\ p.challenge \in Challenges
           /\ p.credential \in Credentials
           /\ p.sign_count \in Counts
BY CountsAreNumbers, Zenon DEF Proof

(* A row is an authenticator or there is none; both have a counter.        *)
LEMMA RowFields ==
    ASSUME NEW a \in Authenticator \cup {NoRow}
    PROVE  /\ a.sign_count \in Counts
           /\ a # NoRow => a \in Authenticator
BY CountsAreNumbers DEF Authenticator, NoRow

LEMMA NewRow ==
    ASSUME NEW n \in Counts, NEW s \in BOOLEAN, NEW v \in BOOLEAN
    PROVE  LET a == [sign_count |-> n, counter_supported |-> s, revoked |-> v]
           IN a \in Authenticator /\ a # NoRow
<1> DEFINE a == [sign_count |-> n, counter_supported |-> s, revoked |-> v]
<1>1. a \in Authenticator
  BY DEF Authenticator
<1>2. "revoked" \in DOMAIN a /\ "revoked" \notin DOMAIN NoRow
  BY DEF NoRow
<1> QED
  BY <1>1, <1>2

LEMMA Counted ==
    ASSUME NEW a \in Authenticator, NEW n \in Counts
    PROVE  LET b == [a EXCEPT !.sign_count = n]
           IN /\ b \in Authenticator /\ b # NoRow
              /\ b.sign_count = n /\ b.revoked = a.revoked
              /\ b.counter_supported = a.counter_supported
<1> DEFINE b == [a EXCEPT !.sign_count = n]
<1>1. b \in Authenticator
  BY DEF Authenticator
<1>2. b.sign_count = n
  BY DEF Authenticator
<1>3. b.revoked = a.revoked /\ b.counter_supported = a.counter_supported
  BY DEF Authenticator
<1>4. "revoked" \in DOMAIN b /\ "revoked" \notin DOMAIN NoRow
  BY DEF Authenticator, NoRow
<1> QED
  BY <1>1, <1>2, <1>3, <1>4

LEMMA Revoked ==
    ASSUME NEW a \in Authenticator
    PROVE  LET b == [a EXCEPT !.revoked = TRUE]
           IN /\ b \in Authenticator /\ b # NoRow
              /\ b.sign_count = a.sign_count /\ b.revoked
              /\ b.counter_supported = a.counter_supported
<1> DEFINE b == [a EXCEPT !.revoked = TRUE]
<1>1. b \in Authenticator
  BY Zenon DEF Authenticator
<1>2. b.sign_count = a.sign_count
  BY DEF Authenticator
<1>3. b.revoked /\ b.counter_supported = a.counter_supported
  BY DEF Authenticator
<1>4. "revoked" \in DOMAIN b /\ "revoked" \notin DOMAIN NoRow
  BY DEF Authenticator, NoRow
<1> QED
  BY <1>1, <1>2, <1>3, <1>4

LEMMA ReplyType ==
    /\ \A s \in {"none", "unavailable", "refused", "authenticated"} :
          Plain(s) \in Reply /\ Plain(s).status = s
    /\ \A s \in {"registered", "clonage_suspecte"}, c \in Credentials :
          /\ About(s, c) \in Reply /\ About(s, c).status = s
          /\ About(s, c).credential = c
BY DEF Reply, Plain, About

LEMMA EventType ==
    /\ \A c \in Credentials : Registered(c) \in Event /\ Failed(c) \in Event
    /\ \A n \in Nat : Succeeded(n) \in Event
BY DEF Event, Registered, Failed, Succeeded

LEMMA ChallengeType ==
    /\ Absent \in Challenge /\ Absent.status = "absent"
    /\ \A k \in Kinds : [status |-> "issued", kind |-> k] \in Challenge
    /\ \A c \in Challenge, s \in {"used", "expired"} :
          c # Absent => /\ [c EXCEPT !.status = s] \in Challenge
                        /\ [c EXCEPT !.status = s].status = s
BY DEF Challenge, Absent

-----------------------------------------------------------------------------
LEMMA InitIInv == Init => IInv
<1> SUFFICES ASSUME Init PROVE IInv
  OBVIOUS
<1> DEFINE rows == {[sign_count |-> n, counter_supported |-> n # 0,
                     revoked |-> FALSE] : n \in Earlier}
<1>0. rows \subseteq Authenticator
  <2> SUFFICES ASSUME NEW n \in Earlier
               PROVE  [sign_count |-> n, counter_supported |-> n # 0,
                       revoked |-> FALSE] \in Authenticator
    OBVIOUS
  <2> QED
    BY CeremonyAssumption, NewRow, Zenon DEF Counts
<1>1. authenticators \in [Credentials -> Authenticator \cup {NoRow}]
  <2>1. authenticators \in [Credentials -> {NoRow} \cup rows]
    BY DEF Init
  <2> HIDE DEF rows
  <2> QED
    BY <1>0, <2>1
<1>2. TypeOK
  BY <1>1, ReplyType, EventType, ChallengeType DEF Init, TypeOK, PC
<1>3. ConsumedOnce
  BY DEF Init, ConsumedOnce, Consumed, OneAssertionPerChallenge
<1>4. AdvancedOnce
  BY DEF Init, AdvancedOnce, FoundHasRow, RowHasReached, HeldOnce,
         HeldIsNotReturned, Found, Advanced, CountersAreNotReplayed
<1>5. AnswersAreAudited
  BY ReplyType DEF Init, AnswersAreAudited
<1> QED
  BY <1>2, <1>3, <1>4, <1>5 DEF IInv, WellTyped, Init

(* What the two ways to leave a call do to the locals of the requests.     *)
LocalsTyped ==
    /\ pc \in [Requests -> PC]
    /\ proof \in [Requests -> Proof \cup {NoProof}]
    /\ row \in [Requests -> Authenticator \cup {NoRow}]
    /\ event_id \in [Requests -> Nat]
    /\ reply \in [Requests -> Reply]
    /\ \A r \in Requests : pc[r] # "idle" => proof[r] \in Proof

TablesTyped ==
    /\ challenges \in [Challenges -> Challenge]
    /\ authenticators \in [Credentials -> Authenticator \cup {NoRow}]
    /\ journal \subseteq Event
    /\ minted \in Nat
    /\ assertions \subseteq Assertion

LEMMA TypedParts == WellTyped <=> LocalsTyped /\ TablesTyped
BY DEF WellTyped, TypeOK, LocalsTyped, TablesTyped

LEMMA TypedPartsNext == WellTyped' <=> LocalsTyped' /\ TablesTyped'
BY DEF WellTyped, TypeOK, LocalsTyped, TablesTyped

LEMMA AnswerTyped ==
    ASSUME LocalsTyped, NEW r \in Requests, NEW x \in Reply, Answer(r, x)
    PROVE  LocalsTyped'
BY DEF LocalsTyped, Answer, PC

LEMMA GotoTyped ==
    ASSUME LocalsTyped, NEW r \in Requests, NEW p \in PC, Goto(r, p),
           pc[r] # "idle", UNCHANGED <<proof, row, event_id>>
    PROVE  LocalsTyped'
BY DEF LocalsTyped, Goto

(* A challenge is consumed, and becomes used.                              *)
LEMMA Spent ==
    ASSUME challenges \in [Challenges -> Challenge],
           NEW p \in Proof, Consumable(p), Use(p)
    PROVE  /\ challenges' \in [Challenges -> Challenge]
           /\ challenges[p.challenge].status = "issued"
           /\ challenges'[p.challenge].status = "used"
           /\ \A d \in Challenges \ {p.challenge} : challenges'[d] = challenges[d]
<1> DEFINE c == challenges[p.challenge]
           u == [c EXCEPT !.status = "used"]
<1>1. p.challenge \in Challenges
  BY ProofFields
<1>2. challenges' = [challenges EXCEPT ![p.challenge] = u]
  BY DEF Use
<1>3. c.status = "issued" /\ c # Absent
  BY ChallengeType DEF Consumable
<1>4. u \in Challenge /\ u.status = "used"
  <2>1. c \in Challenge
    BY <1>1
  <2> HIDE DEF c
  <2> QED
    BY <1>3, <2>1, ChallengeType, Zenon
<1> HIDE DEF u
<1> QED
  BY <1>1, <1>2, <1>3, <1>4

LEMMA TypedKeeps ==
    ASSUME IInv, [Next]_vars
    PROVE  WellTyped'
<1> USE TypedParts, TypedPartsNext DEF IInv
<1>0. LocalsTyped /\ TablesTyped
  OBVIOUS
<1>1. ASSUME NEW c \in Challenges, NEW kind \in Kinds, IssueChallenge(c, kind)
      PROVE  WellTyped'
  <2>1. LocalsTyped'
    BY <1>0, <1>1 DEF IssueChallenge, LocalsTyped, locals
  <2>2. TablesTyped'
    BY <1>0, <1>1, ChallengeType DEF IssueChallenge, TablesTyped
  <2> QED
    BY <2>1, <2>2
<1>2. ASSUME NEW c \in Challenges, ExpireChallenge(c)
      PROVE  WellTyped'
  <2>1. LocalsTyped'
    BY <1>0, <1>2 DEF ExpireChallenge, LocalsTyped, locals
  <2>2. TablesTyped'
    BY <1>0, <1>2, ChallengeType, Zenon DEF ExpireChallenge, TablesTyped
  <2> QED
    BY <2>1, <2>2
<1>3. ASSUME NEW c \in Credentials, RevokeAuthenticator(c)
      PROVE  WellTyped'
  <2>1. LocalsTyped'
    BY <1>0, <1>3 DEF RevokeAuthenticator, LocalsTyped, locals
  <2>2. TablesTyped'
    BY <1>0, <1>3, Revoked, RowFields DEF RevokeAuthenticator, TablesTyped
  <2> QED
    BY <2>1, <2>2
<1>4. ASSUME NEW r \in Requests, Verify(r)
      PROVE  WellTyped'
  <2>1. LocalsTyped'
    BY <1>0, <1>4, ReplyType DEF Verify, LocalsTyped, PC
  <2>2. TablesTyped'
    BY <1>0, <1>4 DEF Verify, TablesTyped, tables
  <2> QED
    BY <2>1, <2>2
<1>5. ASSUME NEW r \in Requests, ConsumeChallenge(r) \/ ConsumeUnacknowledged(r)
      PROVE  WellTyped'
  <2>1. proof[r] \in Proof /\ Consumable(proof[r]) /\ Use(proof[r])
    BY <1>0, <1>5 DEF ConsumeChallenge, ConsumeUnacknowledged, LocalsTyped
  <2>2. LocalsTyped'
    <3>1. CASE ConsumeChallenge(r)
      <4>1. PICK p \in PC : Goto(r, p)
        BY <3>1 DEF ConsumeChallenge, PC
      <4> QED
        BY <1>0, <3>1, <4>1, GotoTyped DEF ConsumeChallenge, locals
    <3>2. CASE ConsumeUnacknowledged(r)
      BY <1>0, <3>2, ReplyType, AnswerTyped DEF ConsumeUnacknowledged
    <3> QED
      BY <1>5, <3>1, <3>2
  <2>3. challenges' \in [Challenges -> Challenge]
    BY <1>0, <2>1, Spent DEF TablesTyped
  <2>4. TablesTyped'
    BY <1>0, <1>5, <2>3
       DEF ConsumeChallenge, ConsumeUnacknowledged, TablesTyped
  <2> QED
    BY <2>2, <2>4
<1>6. ASSUME NEW r \in Requests,
             ChallengeRefused(r) \/ RegistrationRefused(r) \/ InsertConflict(r)
             \/ AuthenticationRefused(r) \/ CallFails(r)
      PROVE  WellTyped'
  <2>1. LocalsTyped'
    BY <1>0, <1>6, ReplyType, AnswerTyped
       DEF ChallengeRefused, RegistrationRefused, InsertConflict,
           AuthenticationRefused, CallFails
  <2>2. TablesTyped'
    BY <1>0, <1>6
       DEF ChallengeRefused, RegistrationRefused, InsertConflict,
           AuthenticationRefused, CallFails, TablesTyped, tables
  <2> QED
    BY <2>1, <2>2
<1>7. ASSUME NEW r \in Requests, InsertAuthenticator(r) \/ InsertUnacknowledged(r)
      PROVE  WellTyped'
  <2>1. proof[r] \in Proof
    BY <1>0, <1>7 DEF InsertAuthenticator, InsertUnacknowledged, LocalsTyped
  <2>2. LocalsTyped'
    BY <1>0, <1>7, ReplyType, AnswerTyped, GotoTyped
       DEF InsertAuthenticator, InsertUnacknowledged, PC, locals
  <2>3. NewAuthenticator(proof[r]) \in Authenticator
    BY <2>1, ProofFields, NewRow, Zenon DEF NewAuthenticator
  <2>4. TablesTyped'
    BY <1>0, <1>7, <2>1, <2>3, ProofFields
       DEF InsertAuthenticator, InsertUnacknowledged, TablesTyped
  <2> QED
    BY <2>2, <2>4
<1>8. ASSUME NEW r \in Requests, FindAuthenticator(r)
      PROVE  WellTyped'
  <2>1. proof[r] \in Proof
    BY <1>0, <1>8 DEF FindAuthenticator, LocalsTyped
  <2>2. LocalsTyped'
    BY <1>0, <1>8, <2>1, ProofFields
       DEF FindAuthenticator, Goto, LocalsTyped, TablesTyped, PC
  <2>3. TablesTyped'
    BY <1>0, <1>8 DEF FindAuthenticator, TablesTyped, tables
  <2> QED
    BY <2>2, <2>3
<1>9. ASSUME NEW r \in Requests, AdvanceSignCount(r) \/ AdvanceUnacknowledged(r)
      PROVE  WellTyped'
  <2>1. /\ proof[r] \in Proof /\ SetCount(proof[r])
        /\ authenticators[proof[r].credential] # NoRow
    BY <1>0, <1>9
       DEF AdvanceSignCount, AdvanceUnacknowledged, LocalsTyped, AdvancedOnce,
           FoundHasRow, Found
  <2>2. LocalsTyped'
    BY <1>0, <1>9, ReplyType, AnswerTyped, GotoTyped
       DEF AdvanceSignCount, AdvanceUnacknowledged, PC, locals
  <2>3. authenticators' \in [Credentials -> Authenticator \cup {NoRow}]
    BY <1>0, <2>1, ProofFields, RowFields, Counted DEF SetCount, TablesTyped
  <2>4. TablesTyped'
    BY <1>0, <1>9, <2>3
       DEF AdvanceSignCount, AdvanceUnacknowledged, TablesTyped
  <2> QED
    BY <2>2, <2>4
<1>10. ASSUME NEW r \in Requests, AdvanceRefused(r)
       PROVE  WellTyped'
  <2>1. LocalsTyped'
    BY <1>0, <1>10, GotoTyped DEF AdvanceRefused, PC, locals
  <2>2. TablesTyped'
    BY <1>0, <1>10 DEF AdvanceRefused, TablesTyped, tables
  <2> QED
    BY <2>1, <2>2
<1>11. ASSUME NEW r \in Requests, SealAssertion(r)
       PROVE  WellTyped'
  <2>1. LocalsTyped'
    BY <1>0, <1>11 DEF SealAssertion, Goto, LocalsTyped, TablesTyped, PC
  <2>2. TablesTyped'
    BY <1>0, <1>11 DEF SealAssertion, TablesTyped, tables
  <2> QED
    BY <2>1, <2>2
<1>12. ASSUME NEW r \in Requests,
              AppendRegistered(r) \/ AppendFailed(r) \/ AppendUnacknowledged(r)
       PROVE  WellTyped'
  <2>1. proof[r] \in Proof
    BY <1>0, <1>12
       DEF AppendRegistered, AppendFailed, AppendUnacknowledged, Auditing, LocalsTyped
  <2>2. LocalsTyped'
    BY <1>0, <1>12, <2>1, ProofFields, ReplyType, AnswerTyped
       DEF AppendRegistered, AppendFailed, AppendUnacknowledged
  <2>3. EventOf(r) \in Event
    BY <1>0, <1>12, <2>1, ProofFields, EventType
       DEF AppendRegistered, AppendFailed, AppendUnacknowledged, Auditing,
           EventOf, LocalsTyped
  <2>4. TablesTyped'
    BY <1>0, <1>12, <2>3
       DEF AppendRegistered, AppendFailed, AppendUnacknowledged, TablesTyped,
           tables
  <2> QED
    BY <2>2, <2>4
<1>13. ASSUME NEW r \in Requests, AppendSucceeded(r)
       PROVE  WellTyped'
  <2>1. proof[r] \in Proof
    BY <1>0, <1>13 DEF AppendSucceeded, LocalsTyped
  <2>2. LocalsTyped'
    BY <1>0, <1>13, ReplyType, AnswerTyped DEF AppendSucceeded
  <2>3. EventOf(r) \in Event
    BY <1>0, <1>13, EventType DEF AppendSucceeded, EventOf, LocalsTyped
  <2>4. AssertionOf(r) \in Assertion
    BY <1>0, <2>1, ProofFields DEF AssertionOf, Assertion, LocalsTyped
  <2>5. TablesTyped'
    BY <1>0, <1>13, <2>3, <2>4 DEF AppendSucceeded, TablesTyped, tables
  <2> QED
    BY <2>2, <2>5
<1>14. ASSUME Crash
       PROVE  WellTyped'
  <2>1. LocalsTyped'
    BY <1>0, <1>14 DEF Crash, LocalsTyped, PC
  <2>2. TablesTyped'
    BY <1>0, <1>14 DEF Crash, TablesTyped, tables
  <2> QED
    BY <2>1, <2>2
<1>15. ASSUME UNCHANGED vars
       PROVE  WellTyped'
  BY <1>0, <1>15 DEF vars, tables, locals, LocalsTyped, TablesTyped
<1> QED
  BY <1>1, <1>2, <1>3, <1>4, <1>5, <1>6, <1>7, <1>8, <1>9, <1>10, <1>11,
     <1>12, <1>13, <1>14, <1>15 DEF Next, Step

-----------------------------------------------------------------------------
(* A step in which no request comes to hold a consumed challenge, and no   *)
(* assertion is returned.                                                  *)
LEMMA NothingConsumed ==
    ASSUME IInv,
           \A r \in Requests : Consumed(r)' => Consumed(r) /\ proof'[r] = proof[r],
           \A c \in Challenges : challenges[c].status = "used" =>
                                    challenges'[c].status = "used",
           assertions' = assertions
    PROVE  ConsumedOnce'
<1> USE DEF IInv, ConsumedOnce
<1>1. \A r \in Requests : Consumed(r) => proof[r].challenge \in Challenges
  BY ProofFields DEF WellTyped, Consumed
<1>2. \A a \in assertions : a.challenge \in Challenges
  BY DEF WellTyped, TypeOK, Assertion
<1>3. OneAssertionPerChallenge'
  BY DEF OneAssertionPerChallenge
<1> QED
  BY <1>1, <1>2, <1>3

(* The same, when the calls of one request return and the tables stay.     *)
LEMMA AnswerConsumesNothing ==
    ASSUME IInv, NEW r \in Requests, NEW x, Answer(r, x),
           UNCHANGED <<challenges, assertions>>
    PROVE  ConsumedOnce'
<1>1. \A s \in Requests : Consumed(s)' => Consumed(s) /\ proof'[s] = proof[s]
  BY DEF IInv, WellTyped, TypeOK, Answer, Consumed
<1> QED
  BY <1>1, NothingConsumed

LEMMA GotoConsumesNothing ==
    ASSUME IInv, NEW r \in Requests, NEW p, Goto(r, p),
           Consumed(r) \/ p \in {"insert", "audit_registered"},
           UNCHANGED <<challenges, proof, assertions>>
    PROVE  ConsumedOnce'
<1>1. \A s \in Requests : Consumed(s)' => Consumed(s) /\ proof'[s] = proof[s]
  BY DEF IInv, WellTyped, TypeOK, Goto, Consumed
<1> QED
  BY <1>1, NothingConsumed

LEMMA ConsumedKeeps ==
    ASSUME IInv, [Next]_vars
    PROVE  ConsumedOnce'
<1> USE DEF tables, locals
<1>1. ASSUME NEW c \in Challenges, NEW kind \in Kinds, IssueChallenge(c, kind)
      PROVE  ConsumedOnce'
  <2>1. \A r \in Requests : Consumed(r)' => Consumed(r) /\ proof'[r] = proof[r]
    BY <1>1 DEF IssueChallenge, Consumed
  <2>2. challenges[c].status # "used"
    BY <1>1, ChallengeType DEF IssueChallenge
  <2>3. \A d \in Challenges : challenges[d].status = "used" =>
                                 challenges'[d].status = "used"
    BY <1>1, <2>2 DEF IssueChallenge, IInv, WellTyped, TypeOK
  <2> QED
    BY <1>1, <2>1, <2>3, NothingConsumed DEF IssueChallenge
<1>2. ASSUME NEW c \in Challenges, ExpireChallenge(c)
      PROVE  ConsumedOnce'
  <2>1. \A r \in Requests : Consumed(r)' => Consumed(r) /\ proof'[r] = proof[r]
    BY <1>2 DEF ExpireChallenge, Consumed
  <2>2. \A d \in Challenges : challenges[d].status = "used" =>
                                 challenges'[d].status = "used"
    BY <1>2 DEF ExpireChallenge, IInv, WellTyped, TypeOK
  <2> QED
    BY <1>2, <2>1, <2>2, NothingConsumed DEF ExpireChallenge
<1>3. ASSUME NEW c \in Credentials, RevokeAuthenticator(c)
      PROVE  ConsumedOnce'
  <2>1. \A r \in Requests : Consumed(r)' => Consumed(r) /\ proof'[r] = proof[r]
    BY <1>3 DEF RevokeAuthenticator, Consumed
  <2> QED
    BY <1>3, <2>1, NothingConsumed DEF RevokeAuthenticator
<1>4. ASSUME NEW r \in Requests, Verify(r)
      PROVE  ConsumedOnce'
  <2>1. \A s \in Requests : Consumed(s)' => Consumed(s) /\ proof'[s] = proof[s]
    BY <1>4, RequestsTyped DEF Verify, Consumed
  <2> QED
    BY <1>4, <2>1, NothingConsumed DEF Verify
<1>5. ASSUME NEW r \in Requests, ConsumeChallenge(r)
      PROVE  ConsumedOnce'
  <2>1. /\ proof[r] \in Proof /\ Consumable(proof[r]) /\ Use(proof[r])
        /\ UNCHANGED <<proof, assertions>>
    BY <1>5 DEF ConsumeChallenge, IInv, WellTyped
  <2>2. challenges \in [Challenges -> Challenge]
    BY DEF IInv, WellTyped, TypeOK
  <2>3. /\ challenges[proof[r].challenge].status = "issued"
        /\ \A d \in Challenges : challenges[d].status = "used" \/ d = proof[r].challenge
                                   => challenges'[d].status = "used"
    BY <2>1, <2>2, Spent
  <2>4. \A s \in Requests : Consumed(s)' => Consumed(s) \/ s = r
    BY <1>5, RequestsTyped DEF ConsumeChallenge, Goto, Consumed
  <2>5. /\ \A s \in Requests : Consumed(s) => /\ proof[s].challenge \in Challenges
                                              /\ proof[s].challenge # proof[r].challenge
        /\ proof[r].challenge \in Challenges
    BY <2>1, <2>3, ProofFields DEF IInv, WellTyped, ConsumedOnce, Consumed
  <2>6. \A a \in assertions : /\ a.challenge \in Challenges
                               /\ a.challenge # proof[r].challenge
    BY <2>3 DEF IInv, WellTyped, TypeOK, Assertion, ConsumedOnce
  <2>7. OneAssertionPerChallenge'
    BY <2>1 DEF IInv, ConsumedOnce, OneAssertionPerChallenge
  <2> QED
    BY <2>1, <2>3, <2>4, <2>5, <2>6, <2>7 DEF IInv, ConsumedOnce
<1>6. ASSUME NEW r \in Requests, ConsumeUnacknowledged(r)
      PROVE  ConsumedOnce'
  <2>1. /\ proof[r] \in Proof /\ Consumable(proof[r]) /\ Use(proof[r])
        /\ challenges \in [Challenges -> Challenge]
    BY <1>6 DEF ConsumeUnacknowledged, IInv, WellTyped, TypeOK
  <2>2. \A s \in Requests : Consumed(s)' => Consumed(s) /\ proof'[s] = proof[s]
    BY <1>6, RequestsTyped DEF ConsumeUnacknowledged, Answer, Consumed
  <2>3. \A d \in Challenges : challenges[d].status = "used" =>
                                 challenges'[d].status = "used"
    BY <2>1, Spent, Zenon
  <2> QED
    BY <1>6, <2>2, <2>3, NothingConsumed DEF ConsumeUnacknowledged
<1>7. ASSUME NEW r \in Requests,
             \/ ChallengeRefused(r) \/ RegistrationRefused(r)
             \/ InsertUnacknowledged(r) \/ InsertConflict(r)
             \/ AuthenticationRefused(r) \/ AdvanceUnacknowledged(r)
             \/ AppendRegistered(r) \/ AppendFailed(r)
             \/ AppendUnacknowledged(r) \/ CallFails(r)
      PROVE  ConsumedOnce'
  BY <1>7, AnswerConsumesNothing, Zenon
     DEF ChallengeRefused, RegistrationRefused, InsertUnacknowledged,
         InsertConflict, AuthenticationRefused, AdvanceUnacknowledged,
         AppendRegistered, AppendFailed, AppendUnacknowledged, CallFails
<1>8. ASSUME NEW r \in Requests,
             \/ InsertAuthenticator(r) \/ FindAuthenticator(r)
             \/ AdvanceSignCount(r) \/ AdvanceRefused(r) \/ SealAssertion(r)
      PROVE  ConsumedOnce'
  BY <1>8, GotoConsumesNothing, Zenon
     DEF InsertAuthenticator, FindAuthenticator, AdvanceSignCount,
         AdvanceRefused, SealAssertion, Consumed
<1>9. ASSUME NEW r \in Requests, AppendSucceeded(r)
      PROVE  ConsumedOnce'
  <2>1. /\ assertions' = assertions \cup {AssertionOf(r)}
        /\ AssertionOf(r).challenge = proof[r].challenge
        /\ UNCHANGED challenges /\ Consumed(r)
    BY <1>9 DEF AppendSucceeded, AssertionOf, Consumed
  <2>2. /\ ~Consumed(r)'
        /\ \A s \in Requests : Consumed(s)' => Consumed(s) /\ proof'[s] = proof[s]
    BY <1>9, RequestsTyped DEF AppendSucceeded, Answer, Consumed
  <2>3. OneAssertionPerChallenge'
    BY <2>1 DEF IInv, ConsumedOnce, OneAssertionPerChallenge
  <2> QED
    BY <2>1, <2>2, <2>3 DEF IInv, ConsumedOnce
<1>10. ASSUME Crash
       PROVE  ConsumedOnce'
  <2>1. \A s \in Requests : ~Consumed(s)'
    BY <1>10 DEF Crash, Consumed
  <2> QED
    BY <1>10, <2>1, NothingConsumed DEF Crash
<1>11. ASSUME UNCHANGED vars
       PROVE  ConsumedOnce'
  BY <1>11 DEF vars, IInv, ConsumedOnce, Consumed, OneAssertionPerChallenge
<1> QED
  BY <1>1, <1>2, <1>3, <1>4, <1>5, <1>6, <1>7, <1>8, <1>9, <1>10, <1>11
     DEF Next, Step

-----------------------------------------------------------------------------
(* What a step may do to the row a of a credential, b being the next one.  *)
RowAdvances(a, b) ==
    /\ a.sign_count <= b.sign_count
    /\ a # NoRow =>
          /\ b # NoRow
          /\ b.counter_supported = a.counter_supported
          /\ a.revoked => b.revoked

LEMMA RowStays ==
    ASSUME NEW a \in Authenticator \cup {NoRow}
    PROVE  RowAdvances(a, a)
<1>1. a.sign_count \in Nat
  BY RowFields, CountsAreNumbers, Zenon
<1>2. a.sign_count <= a.sign_count
  BY <1>1
<1> QED
  BY <1>2, Zenon DEF RowAdvances

LEMMA RowsAdvance ==
    ASSUME IInv, [Next]_vars, NEW c \in Credentials
    PROVE  RowAdvances(authenticators[c], authenticators'[c])
<1> USE DEF tables, locals
<1> DEFINE a == authenticators[c]
<1>0. /\ authenticators \in [Credentials -> Authenticator \cup {NoRow}]
      /\ a \in Authenticator \cup {NoRow}
      /\ a.sign_count \in Nat
  BY RowFields, CountsAreNumbers, Zenon DEF IInv, WellTyped, TypeOK
<1>1. CASE authenticators'[c] = authenticators[c]
  BY <1>0, <1>1, RowStays
<1>2. ASSUME NEW d \in Credentials, RevokeAuthenticator(d)
      PROVE  RowAdvances(authenticators[c], authenticators'[c])
  <2>1. CASE c = d
    <3>1. a \in Authenticator /\ authenticators'[c] = [a EXCEPT !.revoked = TRUE]
      BY <1>0, <1>2, <2>1, RowFields DEF RevokeAuthenticator
    <3> HIDE DEF a
    <3>2. /\ authenticators'[c] # NoRow /\ authenticators'[c].revoked
          /\ authenticators'[c].sign_count = a.sign_count
          /\ authenticators'[c].counter_supported = a.counter_supported
      BY <3>1, Revoked
    <3>3. RowAdvances(a, authenticators'[c])
      BY <1>0, <3>2 DEF RowAdvances
    <3> QED
      BY <3>3 DEF a
  <2>2. CASE c # d
    BY <1>0, <1>1, <1>2, <2>2 DEF RevokeAuthenticator
  <2> QED
    BY <2>1, <2>2
<1>3. ASSUME NEW r \in Requests, InsertAuthenticator(r) \/ InsertUnacknowledged(r)
      PROVE  RowAdvances(authenticators[c], authenticators'[c])
  <2>1. proof[r] \in Proof
    BY <1>3 DEF InsertAuthenticator, InsertUnacknowledged, IInv, WellTyped
  <2>2. CASE c = proof[r].credential
    <3>1. a = NoRow /\ authenticators'[c] = NewAuthenticator(proof[r])
      BY <1>0, <1>3, <2>2 DEF InsertAuthenticator, InsertUnacknowledged
    <3>2. authenticators'[c].sign_count = proof[r].sign_count
      BY <3>1 DEF NewAuthenticator
    <3>3. proof[r].sign_count \in Nat
      BY <2>1, ProofFields, CountsAreNumbers, Zenon
    <3> QED
      BY <3>1, <3>2, <3>3 DEF RowAdvances, NoRow
  <2>3. CASE c # proof[r].credential
    BY <1>0, <1>1, <1>3, <2>3 DEF InsertAuthenticator, InsertUnacknowledged
  <2> QED
    BY <2>2, <2>3
<1>4. ASSUME NEW r \in Requests, AdvanceSignCount(r) \/ AdvanceUnacknowledged(r)
      PROVE  RowAdvances(authenticators[c], authenticators'[c])
  <2>1. proof[r] \in Proof /\ Advances(proof[r]) /\ SetCount(proof[r])
    BY <1>4 DEF AdvanceSignCount, AdvanceUnacknowledged, IInv, WellTyped
  <2>2. CASE c = proof[r].credential
    <3>1. a \in Authenticator
      BY <1>0, <1>4, <2>2, RowFields, FoundIsUnderWay
         DEF AdvanceSignCount, AdvanceUnacknowledged, Found
    <3>2. /\ proof[r].sign_count \in Counts /\ a.sign_count < proof[r].sign_count
          /\ authenticators'[c] = [a EXCEPT !.sign_count = proof[r].sign_count]
      BY <1>0, <2>1, <2>2, ProofFields DEF Advances, SetCount
    <3> HIDE DEF a
    <3>3. /\ authenticators'[c] # NoRow
          /\ authenticators'[c].sign_count = proof[r].sign_count
          /\ authenticators'[c].revoked = a.revoked
          /\ authenticators'[c].counter_supported = a.counter_supported
      BY <3>1, <3>2, Counted
    <3>4. RowAdvances(a, authenticators'[c])
      BY <1>0, <3>2, <3>3, CountsAreNumbers DEF RowAdvances
    <3> QED
      BY <3>4 DEF a
  <2>3. CASE c # proof[r].credential
    BY <1>0, <1>1, <2>1, <2>3 DEF SetCount
  <2> QED
    BY <2>2, <2>3
<1>5. CASE UNCHANGED authenticators
  BY <1>1, <1>5, Zenon
<1>6. \/ UNCHANGED authenticators
      \/ \E d \in Credentials : RevokeAuthenticator(d)
      \/ \E r \in Requests :
            \/ InsertAuthenticator(r) \/ InsertUnacknowledged(r)
            \/ AdvanceSignCount(r) \/ AdvanceUnacknowledged(r)
  BY DEF Next, Step, vars, IssueChallenge, ExpireChallenge, Verify,
         ConsumeChallenge, ChallengeRefused, ConsumeUnacknowledged,
         RegistrationRefused, InsertConflict, FindAuthenticator,
         AuthenticationRefused, AdvanceRefused, SealAssertion,
         AppendRegistered, AppendFailed, AppendSucceeded,
         AppendUnacknowledged, CallFails, Crash
<1> QED
  BY <1>2, <1>3, <1>4, <1>5, <1>6

(* What the requests and the assertions say of counters is of numbers.     *)
LEMMA CountersAreNumbers ==
    ASSUME WellTyped
    PROVE  /\ \A c \in Credentials : authenticators[c].sign_count \in Nat
           /\ \A r \in Requests : pc[r] # "idle" =>
                 /\ proof[r].credential \in Credentials
                 /\ proof[r].sign_count \in Nat
           /\ \A a \in assertions :
                 a.credential \in Credentials /\ a.sign_count \in Nat
<1>1. \A c \in Credentials : authenticators[c].sign_count \in Nat
  BY RowFields, CountsAreNumbers, Zenon DEF WellTyped, TypeOK
<1>2. ASSUME NEW r \in Requests, pc[r] # "idle"
      PROVE  proof[r].credential \in Credentials /\ proof[r].sign_count \in Nat
  BY <1>2, ProofFields, CountsAreNumbers, Zenon DEF WellTyped
<1>3. \A a \in assertions : a.credential \in Credentials /\ a.sign_count \in Nat
  BY CountsAreNumbers, Zenon DEF WellTyped, TypeOK, Assertion
<1> QED
  BY <1>1, <1>2, <1>3

(* A step in which no request comes to hold a counter, and no assertion is *)
(* returned; a request that finds its authenticator finds a row.           *)
LEMMA NothingAdvanced ==
    ASSUME IInv, WellTyped',
           \A c \in Credentials :
              RowAdvances(authenticators[c], authenticators'[c]),
           \A r \in Requests : Advanced(r)' => Advanced(r),
           \A r \in Requests : Found(r)' =>
              /\ proof'[r] = proof[r] /\ pc[r] # "idle"
              /\ authenticators[proof[r].credential] # NoRow,
           assertions' = assertions
    PROVE  AdvancedOnce'
<1>1. /\ \A c \in Credentials :
            /\ authenticators[c].sign_count \in Nat
            /\ authenticators'[c].sign_count \in Nat
            /\ authenticators[c].sign_count <= authenticators'[c].sign_count
            /\ authenticators[c] # NoRow => authenticators'[c] # NoRow
      /\ \A r \in Requests : pc[r] # "idle" =>
            proof[r].credential \in Credentials /\ proof[r].sign_count \in Nat
      /\ \A a \in assertions :
            a.credential \in Credentials /\ a.sign_count \in Nat
  <2>1. \A c \in Credentials : authenticators'[c].sign_count \in Nat
    BY RowFields, CountsAreNumbers, Zenon DEF WellTyped, TypeOK
  <2> QED
    BY <2>1, CountersAreNumbers DEF IInv, RowAdvances
<1>2. /\ \A r \in Requests : Advanced(r) => Found(r)
      /\ \A r \in Requests : Advanced(r)' => Found(r)'
  BY DEF Advanced, Found
<1>3. CountersAreNotReplayed'
  BY <1>1, CountersHeld DEF CountersAreNotReplayed
<1>4. FoundHasRow'
  BY <1>1 DEF FoundHasRow
<1>5. RowHasReached'
  BY <1>1, <1>2, CountersHeld DEF RowHasReached
<1>6. HeldOnce'
  BY <1>2, CountersHeld, Zenon DEF HeldOnce
<1>7. HeldIsNotReturned'
  BY <1>2, CountersHeld, Zenon DEF HeldIsNotReturned
<1> QED
  BY <1>3, <1>4, <1>5, <1>6, <1>7, Zenon DEF AdvancedOnce

LEMMA AnswerAdvancesNothing ==
    ASSUME IInv, WellTyped', NEW r \in Requests, NEW x, Answer(r, x),
           \A c \in Credentials :
              RowAdvances(authenticators[c], authenticators'[c]),
           UNCHANGED assertions
    PROVE  AdvancedOnce'
<1>1. \A s \in Requests : Advanced(s)' => Advanced(s)
  BY RequestsTyped DEF Answer, Advanced
<1>2. \A s \in Requests : Found(s)' => Found(s) /\ proof'[s] = proof[s]
  BY RequestsTyped DEF Answer, Found
<1> QED
  BY <1>1, <1>2, FoundIsUnderWay, NothingAdvanced

LEMMA GotoAdvancesNothing ==
    ASSUME IInv, WellTyped', NEW r \in Requests, NEW p, Goto(r, p),
           \A c \in Credentials :
              RowAdvances(authenticators[c], authenticators'[c]),
           \/ p \in {"insert", "find", "audit_registered"}
           \/ /\ p \in {"advance", "audit_failed"} /\ pc[r] # "idle"
              /\ authenticators[proof[r].credential] # NoRow
           \/ Advanced(r),
           UNCHANGED <<proof, assertions>>
    PROVE  AdvancedOnce'
<1>1. \A s \in Requests : Advanced(s)' => Advanced(s)
  BY RequestsTyped DEF Goto, Advanced
<1>2. \A s \in Requests : Found(s)' =>
         pc[s] # "idle" /\ authenticators[proof[s].credential] # NoRow
  BY RequestsTyped, FoundIsUnderWay DEF Goto, Found, Advanced
<1> QED
  BY <1>1, <1>2, NothingAdvanced

LEMMA AdvancedKeeps ==
    ASSUME IInv, [Next]_vars, WellTyped'
    PROVE  AdvancedOnce'
<1> USE DEF tables, locals
<1>0. \A c \in Credentials : RowAdvances(authenticators[c], authenticators'[c])
  BY RowsAdvance
<1>1. ASSUME assertions' = assertions, pc' = pc, proof' = proof
      PROVE  AdvancedOnce'
  <2>1. \A r \in Requests : Advanced(r)' => Advanced(r)
    BY <1>1 DEF Advanced
  <2>2. \A r \in Requests : Found(r)' =>
           pc[r] # "idle" /\ authenticators[proof[r].credential] # NoRow
    BY <1>1, FoundIsUnderWay DEF Found
  <2> QED
    BY <1>0, <1>1, <2>1, <2>2, NothingAdvanced
<1>2. ASSUME NEW r \in Requests, Verify(r)
      PROVE  AdvancedOnce'
  <2>1. \A s \in Requests : Advanced(s)' => Advanced(s)
    BY <1>2, RequestsTyped DEF Verify, Advanced
  <2>2. \A s \in Requests : Found(s)' => Found(s) /\ proof'[s] = proof[s]
    BY <1>2, RequestsTyped DEF Verify, Found
  <2>3. assertions' = assertions
    BY <1>2, Zenon DEF Verify
  <2> QED
    BY <1>0, <2>1, <2>2, <2>3, FoundIsUnderWay, NothingAdvanced
<1>3. ASSUME NEW r \in Requests,
             \/ ChallengeRefused(r) \/ ConsumeUnacknowledged(r)
             \/ RegistrationRefused(r)
             \/ InsertUnacknowledged(r) \/ InsertConflict(r)
             \/ AuthenticationRefused(r) \/ AdvanceUnacknowledged(r)
             \/ AppendRegistered(r) \/ AppendFailed(r)
             \/ AppendUnacknowledged(r) \/ CallFails(r)
      PROVE  AdvancedOnce'
  BY <1>0, <1>3, AnswerAdvancesNothing, Zenon
     DEF ChallengeRefused, ConsumeUnacknowledged, RegistrationRefused,
         InsertUnacknowledged, InsertConflict, AuthenticationRefused,
         AdvanceUnacknowledged, AppendRegistered, AppendFailed,
         AppendUnacknowledged, CallFails
<1>4. ASSUME NEW r \in Requests,
             \/ ConsumeChallenge(r) \/ InsertAuthenticator(r)
             \/ FindAuthenticator(r) \/ AdvanceRefused(r) \/ SealAssertion(r)
      PROVE  AdvancedOnce'
  <2>1. CASE ConsumeChallenge(r)
    <3>1. PICK p \in {"insert", "find"} : Goto(r, p)
      BY <2>1, Zenon DEF ConsumeChallenge
    <3> QED
      BY <1>0, <2>1, <3>1, GotoAdvancesNothing, Zenon DEF ConsumeChallenge
  <2>2. CASE InsertAuthenticator(r)
    BY <1>0, <2>2, GotoAdvancesNothing, Zenon DEF InsertAuthenticator
  <2>3. CASE FindAuthenticator(r)
    BY <1>0, <2>3, GotoAdvancesNothing DEF FindAuthenticator, Verifies
  <2>4. CASE AdvanceRefused(r)
    <3>1. pc[r] # "idle" /\ authenticators[proof[r].credential] # NoRow
      BY <2>4, FoundIsUnderWay DEF AdvanceRefused, Found
    <3> QED
      BY <1>0, <2>4, <3>1, GotoAdvancesNothing DEF AdvanceRefused
  <2>5. CASE SealAssertion(r)
    BY <1>0, <2>5, GotoAdvancesNothing DEF SealAssertion, Advanced
  <2> QED
    BY <1>4, <2>1, <2>2, <2>3, <2>4, <2>5, Zenon
<1>5. ASSUME NEW r \in Requests, AdvanceSignCount(r)
      PROVE  AdvancedOnce'
  <2> DEFINE c == proof[r].credential
             n == proof[r].sign_count
  <2>1. /\ proof[r] \in Proof /\ c \in Credentials /\ n \in Nat
        /\ authenticators[c] # NoRow /\ authenticators[c].sign_count < n
        /\ SetCount(proof[r]) /\ UNCHANGED <<proof, assertions>>
    <3>1. proof[r] \in Proof
      BY <1>5 DEF AdvanceSignCount, IInv, WellTyped
    <3>2. authenticators[c] # NoRow
      BY <1>5, FoundIsUnderWay, Zenon DEF AdvanceSignCount, Found
    <3> QED
      BY <1>5, <3>1, <3>2, ProofFields, CountsAreNumbers, Zenon
         DEF AdvanceSignCount, Advances
  <2>2. authenticators'[c].sign_count = n
    <3>1. /\ authenticators[c] \in Authenticator /\ n \in Counts
          /\ authenticators'[c] = [authenticators[c] EXCEPT !.sign_count = n]
      BY <2>1, RowFields, ProofFields DEF SetCount, IInv, WellTyped, TypeOK
    <3> QED
      BY <3>1, Counted
  <2>3. \A s \in Requests : Advanced(s)' => Advanced(s) \/ s = r
    BY <1>5, RequestsTyped DEF AdvanceSignCount, Goto, Advanced
  <2>4. \A s \in Requests : Found(s)' => Found(s)
    BY <1>5, RequestsTyped DEF AdvanceSignCount, Goto, Found
  <2>5. /\ \A d \in Credentials :
              /\ authenticators[d].sign_count \in Nat
              /\ authenticators'[d].sign_count \in Nat
              /\ authenticators[d].sign_count <= authenticators'[d].sign_count
              /\ authenticators[d] # NoRow => authenticators'[d] # NoRow
        /\ \A s \in Requests : Found(s) =>
              proof[s].credential \in Credentials /\ proof[s].sign_count \in Nat
        /\ \A a \in assertions :
              a.credential \in Credentials /\ a.sign_count \in Nat
    <3>1. \A d \in Credentials : authenticators'[d].sign_count \in Nat
      BY RowFields, CountsAreNumbers, Zenon DEF WellTyped, TypeOK
    <3>2. \A s \in Requests : Found(s) => pc[s] # "idle"
      BY DEF Found
    <3> QED
      BY <1>0, <3>1, <3>2, CountersAreNumbers DEF IInv, RowAdvances
  <2>6. \A s \in Requests : Advanced(s) =>
           /\ Found(s)
           /\ proof[s].sign_count <= authenticators[proof[s].credential].sign_count
    BY CountersHeld DEF RowHasReached, Advanced, Found
  <2>7. \A s \in Requests : Advanced(s) /\ proof[s].credential = c =>
           proof[s].sign_count # n
    BY <2>1, <2>5, <2>6
  <2>8. \A a \in assertions :
           /\ a.sign_count <= authenticators[a.credential].sign_count
           /\ a.credential = c => a.sign_count # n
    BY <2>1, <2>5, CountersHeld DEF CountersAreNotReplayed
  <2>9. CountersAreNotReplayed'
    BY <2>1, <2>5, CountersHeld, AtMostIsTransitive DEF CountersAreNotReplayed
  <2>10. FoundHasRow'
    BY <2>1, <2>4, <2>5, CountersHeld DEF FoundHasRow
  <2>11. RowHasReached'
    <3> SUFFICES ASSUME NEW s \in Requests, Advanced(s)'
                 PROVE  proof'[s].sign_count
                           <= authenticators'[proof'[s].credential].sign_count
      BY Zenon DEF RowHasReached
    <3>1. proof' = proof
      BY <2>1, Zenon
    <3>2. CASE s = r
      BY <2>1, <2>2, <3>1, <3>2, AtMostIsTransitive, Zenon
    <3>3. CASE Advanced(s)
      <4> DEFINE d == proof[s].credential
      <4>1. /\ d \in Credentials /\ proof[s].sign_count \in Nat
            /\ proof[s].sign_count <= authenticators[d].sign_count
        BY <2>5, <2>6, <3>3, Zenon
      <4>2. /\ authenticators[d].sign_count \in Nat
            /\ authenticators'[d].sign_count \in Nat
            /\ authenticators[d].sign_count <= authenticators'[d].sign_count
        BY <2>5, <4>1, Zenon
      <4>3. proof[s].sign_count <= authenticators'[d].sign_count
        BY <4>1, <4>2, AtMostIsTransitive
      <4> QED
        BY <3>1, <4>3, Zenon
    <3> QED
      BY <2>3, <3>2, <3>3, Zenon
  <2>12. HeldOnce'
    BY <2>1, <2>3, <2>7, CountersHeld DEF HeldOnce
  <2>13. HeldIsNotReturned'
    BY <2>1, <2>3, <2>8, CountersHeld, Zenon DEF HeldIsNotReturned
  <2> QED
    BY <2>9, <2>10, <2>11, <2>12, <2>13, Zenon DEF AdvancedOnce
<1>6. ASSUME NEW r \in Requests, AppendSucceeded(r)
      PROVE  AdvancedOnce'
  <2> DEFINE new == AssertionOf(r)
  <2>1. /\ assertions' = assertions \cup {new}
        /\ new.credential = proof[r].credential
        /\ new.sign_count = proof[r].sign_count
        /\ UNCHANGED authenticators /\ Advanced(r)
    BY <1>6, Zenon DEF AppendSucceeded, AssertionOf, Advanced
  <2>2. /\ ~Advanced(r)'
        /\ \A s \in Requests : Advanced(s)' => Advanced(s) /\ proof'[s] = proof[s]
        /\ \A s \in Requests : Found(s)' => Found(s) /\ proof'[s] = proof[s]
    BY <1>6, RequestsTyped DEF AppendSucceeded, Answer, Advanced, Found
  <2> HIDE DEF new
  <2>3. \A a \in assertions : a.credential = new.credential =>
                                a.sign_count # new.sign_count
    BY <2>1, CountersHeld DEF HeldIsNotReturned
  <2>4. CountersAreNotReplayed'
    <3>1. RowHasReached /\ CountersAreNotReplayed
      BY CountersHeld
    <3> QED
      BY <2>1, <2>3, <3>1 DEF RowHasReached, CountersAreNotReplayed
  <2>5. FoundHasRow'
    BY <2>1, <2>2, CountersHeld DEF FoundHasRow
  <2>6. RowHasReached'
    BY <2>1, <2>2, CountersHeld DEF RowHasReached
  <2>7. HeldOnce'
    BY <2>2, CountersHeld DEF HeldOnce
  <2>8. HeldIsNotReturned'
    <3>1. HeldIsNotReturned /\ HeldOnce
      BY CountersHeld
    <3> QED
      BY <2>1, <2>2, <3>1 DEF HeldIsNotReturned, HeldOnce
  <2> QED
    BY <2>4, <2>5, <2>6, <2>7, <2>8, Zenon DEF AdvancedOnce
<1>7. ASSUME Crash
      PROVE  AdvancedOnce'
  <2>1. \A s \in Requests : ~Advanced(s)' /\ ~Found(s)'
    BY <1>7 DEF Crash, Advanced, Found
  <2>2. assertions' = assertions
    BY <1>7 DEF Crash
  <2> QED
    BY <1>0, <2>1, <2>2, NothingAdvanced
<1>8. \/ assertions' = assertions /\ pc' = pc /\ proof' = proof
      \/ \E r \in Requests : Verify(r) \/ Step(r)
      \/ Crash
  BY DEF Next, vars, IssueChallenge, ExpireChallenge, RevokeAuthenticator
<1> QED
  BY <1>1, <1>2, <1>3, <1>4, <1>5, <1>6, <1>7, <1>8 DEF Step

-----------------------------------------------------------------------------
(* A step that returns no assertion, and answers none of the two answers   *)
(* that come with an event.                                                *)
LEMMA NothingClaimed ==
    ASSUME IInv, journal \subseteq journal', assertions' = assertions,
           \A r \in Requests : reply'[r] = reply[r] \/
              reply'[r].status \notin {"registered", "clonage_suspecte"}
    PROVE  AnswersAreAudited'
BY DEF IInv, AnswersAreAudited

LEMMA AuditedKeeps ==
    ASSUME IInv, [Next]_vars
    PROVE  AnswersAreAudited'
<1> USE DEF tables, locals
<1>1. ASSUME journal' = journal, assertions' = assertions, reply' = reply
      PROVE  AnswersAreAudited'
  BY <1>1 DEF IInv, AnswersAreAudited
<1>2. ASSUME NEW r \in Requests, Verify(r)
      PROVE  AnswersAreAudited'
  <2>1. \A s \in Requests : reply'[s] = reply[s] \/
           reply'[s].status \notin {"registered", "clonage_suspecte"}
    <3>1. reply' = [reply EXCEPT ![r] = Plain("none")]
      BY <1>2, Zenon DEF Verify
    <3>2. Plain("none").status = "none"
      BY ReplyType, Zenon
    <3> QED
      BY <3>1, <3>2, RepliesTyped
  <2> QED
    BY <1>2, <2>1, NothingClaimed DEF Verify
<1>3. ASSUME NEW r \in Requests,
             \/ ConsumeChallenge(r) \/ InsertAuthenticator(r)
             \/ FindAuthenticator(r) \/ AdvanceSignCount(r)
             \/ AdvanceRefused(r) \/ SealAssertion(r)
      PROVE  AnswersAreAudited'
  BY <1>1, <1>3, Zenon
     DEF ConsumeChallenge, InsertAuthenticator, FindAuthenticator,
         AdvanceSignCount, AdvanceRefused, SealAssertion, Goto
<1>4. ASSUME NEW r \in Requests,
             \/ ChallengeRefused(r) \/ ConsumeUnacknowledged(r)
             \/ RegistrationRefused(r)
             \/ InsertUnacknowledged(r) \/ InsertConflict(r)
             \/ AuthenticationRefused(r) \/ AdvanceUnacknowledged(r)
             \/ AppendUnacknowledged(r) \/ CallFails(r)
      PROVE  AnswersAreAudited'
  <2>1. PICK status \in {"unavailable", "refused"} : Answer(r, Plain(status))
    BY <1>4, Zenon
       DEF ChallengeRefused, ConsumeUnacknowledged, RegistrationRefused,
           InsertUnacknowledged, InsertConflict, AuthenticationRefused,
           AdvanceUnacknowledged, AppendUnacknowledged, CallFails
  <2>2. \A s \in Requests : reply'[s] = reply[s] \/
           reply'[s].status \notin {"registered", "clonage_suspecte"}
    <3>1. reply' = [reply EXCEPT ![r] = Plain(status)]
      BY <2>1, Zenon DEF Answer
    <3>2. Plain(status).status = status
      BY ReplyType, Zenon
    <3> QED
      BY <3>1, <3>2, RepliesTyped
  <2>3. journal \subseteq journal' /\ assertions' = assertions
    BY <1>4, Zenon
       DEF ChallengeRefused, ConsumeUnacknowledged, RegistrationRefused,
           InsertUnacknowledged, InsertConflict, AuthenticationRefused,
           AdvanceUnacknowledged, AppendUnacknowledged, CallFails
  <2> QED
    BY <2>2, <2>3, NothingClaimed, Zenon
<1>5. ASSUME NEW r \in Requests, AppendRegistered(r)
      PROVE  AnswersAreAudited'
  <2>1. proof[r].credential \in Credentials
    BY <1>5, ProofFields DEF AppendRegistered, IInv, WellTyped
  <2>2. /\ journal' = journal \cup {Registered(proof[r].credential)}
        /\ assertions' = assertions
    BY <1>5 DEF AppendRegistered, EventOf
  <2>3. /\ reply'[r].status = "registered"
        /\ reply'[r].credential = proof[r].credential
        /\ \A s \in Requests : s # r => reply'[s] = reply[s]
    BY <1>5, <2>1, ReplyType, RepliesTyped DEF AppendRegistered, Answer
  <2> QED
    BY <2>2, <2>3 DEF IInv, AnswersAreAudited
<1>6. ASSUME NEW r \in Requests, AppendFailed(r)
      PROVE  AnswersAreAudited'
  <2>1. proof[r].credential \in Credentials
    BY <1>6, ProofFields DEF AppendFailed, IInv, WellTyped
  <2>2. /\ journal' = journal \cup {Failed(proof[r].credential)}
        /\ assertions' = assertions
    BY <1>6 DEF AppendFailed, EventOf
  <2>3. /\ reply'[r].status = "clonage_suspecte"
        /\ reply'[r].credential = proof[r].credential
        /\ \A s \in Requests : s # r => reply'[s] = reply[s]
    BY <1>6, <2>1, ReplyType, RepliesTyped DEF AppendFailed, Answer
  <2> QED
    BY <2>2, <2>3 DEF IInv, AnswersAreAudited
<1>7. ASSUME NEW r \in Requests, AppendSucceeded(r)
      PROVE  AnswersAreAudited'
  <2>1. /\ journal' = journal \cup {Succeeded(event_id[r])}
        /\ assertions' = assertions \cup {AssertionOf(r)}
        /\ AssertionOf(r).id = event_id[r]
    BY <1>7 DEF AppendSucceeded, EventOf, AssertionOf
  <2>2. \A s \in Requests : reply'[s] = reply[s] \/
           reply'[s].status \notin {"registered", "clonage_suspecte"}
    BY <1>7, ReplyType, RepliesTyped DEF AppendSucceeded, Answer
  <2> QED
    BY <2>1, <2>2 DEF IInv, AnswersAreAudited
<1>8. \/ journal' = journal /\ assertions' = assertions /\ reply' = reply
      \/ \E r \in Requests : Verify(r) \/ Step(r)
  BY DEF Next, vars, IssueChallenge, ExpireChallenge, RevokeAuthenticator, Crash
<1> QED
  BY <1>1, <1>2, <1>3, <1>4, <1>5, <1>6, <1>7, <1>8 DEF Step

-----------------------------------------------------------------------------
LEMMA IInvKeeps == IInv /\ [Next]_vars => IInv'
BY TypedKeeps, ConsumedKeeps, AdvancedKeeps, AuditedKeeps DEF IInv

LEMMA IInvHolds == Spec => []IInv
BY InitIInv, IInvKeeps, PTL DEF Spec

(* The tables of identity-provider and its requests are well typed.        *)
THEOREM TypeCorrect == Spec => []TypeOK
<1>1. IInv => TypeOK
  BY DEF IInv, WellTyped
<1> QED
  BY <1>1, IInvHolds, PTL

(* A challenge yields at most one assertion, whatever the requests that    *)
(* present it, their failures, lost answers and crashes: consume_challenge *)
(* is the only way to hold it.                                             *)
THEOREM SingleAssertion == Spec => []OneAssertionPerChallenge
<1>1. IInv => OneAssertionPerChallenge
  BY DEF IInv, ConsumedOnce
<1> QED
  BY <1>1, IInvHolds, PTL

(* No two assertions of a credential carry the same counter, although the  *)
(* row is read in one call and advanced in another: advance_sign_count     *)
(* decides.                                                                *)
THEOREM SingleUseOfCounters == Spec => []CountersAreNotReplayed
<1>1. IInv => CountersAreNotReplayed
  BY DEF IInv, AdvancedOnce
<1> QED
  BY <1>1, IInvHolds, PTL

(* Success, and the suspicion of a clone, are answered with their event in *)
(* the journal (seal_and_append_audit_event comes before the answer).      *)
THEOREM AuditedAnswers == Spec => []AnswersAreAudited
<1>1. IInv => AnswersAreAudited
  BY DEF IInv
<1> QED
  BY <1>1, IInvHolds, PTL

(* A row of identity.authenticators is neither removed nor reinitialised,  *)
(* and its counter never goes back.                                        *)
THEOREM RowsOnlyAdvance == Spec => AuthenticatorsOnlyAdvance
<1> DEFINE Kept == \A c \in Credentials : authenticators[c] # NoRow =>
                      /\ authenticators'[c] # NoRow
                      /\ authenticators'[c].sign_count >= authenticators[c].sign_count
                      /\ authenticators'[c].counter_supported =
                            authenticators[c].counter_supported
                      /\ authenticators[c].revoked => authenticators'[c].revoked
<1>1. ASSUME IInv, [Next]_vars
      PROVE  Kept
  BY <1>1, RowsAdvance DEF RowAdvances
<1>2. IInv /\ [Next]_vars => [Kept]_vars
  BY <1>1
<1> QED
  BY <1>2, IInvHolds, PTL DEF Spec, AuthenticatorsOnlyAdvance

-----------------------------------------------------------------------------
(* policy-engine.                                                          *)

(* The instants of the clock that have an RFC 3339 text.                   *)
Printable == {t \in Clock : ValidTimestamp(rfc3339_from_seconds(t))}

-----------------------------------------------------------------------------
(* Every instant that the clock may show, or a decision may carry,         *)
(* survives the trip through its text.                                     *)
InstantsSurvive ==
    \A t \in Clock \cup Foreign :
        request_time_from_rfc3339(rfc3339_from_seconds(t)) = t

LEMMA InstantIsSet == \A t \in Instant : t # NoInstant
  <1>1. NoInstant.second_of_day = -1
    BY DEF NoInstant
  <1>2. \A t \in Instant : t.second_of_day \in Nat
    BY DEF Instant
  <1>. QED
    BY <1>1, <1>2

LEMMA NoSealIsNoFields ==
    ASSUME NEW r, NEW t
    PROVE  decision_fields(r, t) # NoSeal
  <1>1. "issued_at" \in DOMAIN decision_fields(r, t)
    BY DEF decision_fields
  <1>2. "issued_at" \notin DOMAIN NoSeal
    BY DEF NoSeal
  <1>. QED
    BY <1>1, <1>2

(* The decision of a request, as decide answers it at the instant t.       *)
AnswerTo(q, t) == Signed(Unsealed(q), Fields(q, t))

LEMMA Effects ==
    ASSUME NEW q
    PROVE  decide(q).effect \in {"ALLOW", "DENY"}
  BY DEF decide, DecideWith, IsAuthorized

LEMMA FieldsOf ==
    ASSUME NEW q, NEW t
    PROVE  Fields(q, t) =
              [decision_hash |-> q,
               effect_allow |-> decide(q).effect = "ALLOW",
               reasons |-> decide(q).reasons,
               issued_at |-> rfc3339_from_seconds(t)]
  BY Zenon DEF Fields, decision_fields, Unsealed

LEMMA AnswerFields ==
    ASSUME NEW q, NEW t
    PROVE  /\ AnswerTo(q, t).effect = decide(q).effect
           /\ AnswerTo(q, t).reasons = decide(q).reasons
           /\ AnswerTo(q, t).decision_hash = q
           /\ AnswerTo(q, t).decision_signature = Fields(q, t)
           /\ AnswerTo(q, t).issued_at
                 = request_time_from_rfc3339(rfc3339_from_seconds(t))
           /\ Fields(q, t).decision_hash = q
           /\ Fields(q, t).effect_allow = (decide(q).effect = "ALLOW")
           /\ Fields(q, t).reasons = decide(q).reasons
           /\ Fields(q, t).issued_at = rfc3339_from_seconds(t)
  BY Zenon DEF AnswerTo, Signed, IssuedAt, Fields,
               decision_fields, Unsealed

-----------------------------------------------------------------------------
(* The inductive invariant: what waits for the HSM is the decision of a    *)
(* request and its fields at an instant of the clock; what was answered is *)
(* such a decision with these fields as its seal.                          *)
EngineInv ==
    /\ now \in Clock
    /\ call \in [Calls -> {"idle", "seal"}]
    /\ pending \in [Calls -> {Unsealed(q) : q \in Queries}
                                \cup {NoResponse}]
    /\ fields \in [Calls -> {Fields(q, t) : q \in Queries, t \in Printable}
                               \cup {NoSeal}]
    /\ \A c \in Calls : call[c] = "seal" =>
          \E q \in Queries, t \in Printable :
             pending[c] = Unsealed(q) /\ fields[c] = Fields(q, t)
    /\ \A d \in answered :
          \E q \in Queries, t \in Printable : d = AnswerTo(q, t)

LEMMA EngineInvInit == EngineInit => EngineInv
  BY DEF EngineInit, EngineInv

LEMMA EngineInvStep == EngineInv /\ [EngineNext]_engine => EngineInv'
  <1>. SUFFICES ASSUME EngineInv, [EngineNext]_engine PROVE EngineInv'
    OBVIOUS
  <1>. USE DEF EngineInv
  <1>1. CASE Tick
    BY <1>1 DEF Tick
  <1>2. ASSUME NEW c \in Calls, Evaluate(c) PROVE EngineInv'
    BY <1>2 DEF Evaluate, Printable
  <1>3. ASSUME NEW c \in Calls, Sealed(c) PROVE EngineInv'
    <2>1. PICK q \in Queries, t \in Printable :
             pending[c] = Unsealed(q) /\ fields[c] = Fields(q, t)
      BY <1>3 DEF Sealed
    <2>2. answered' = answered \cup {AnswerTo(q, t)}
      BY <1>3, <2>1 DEF Sealed, AnswerTo
    <2>3. \A d \in answered' :
             \E p \in Queries, s \in Printable : d = AnswerTo(p, s)
      BY <2>2
    <2>4. /\ now' \in Clock
          /\ call' \in [Calls -> {"idle", "seal"}]
          /\ pending' \in [Calls -> {Unsealed(p) : p \in Queries}
                                       \cup {NoResponse}]
          /\ fields' \in [Calls -> {Fields(p, s) : p \in Queries, s \in Printable}
                                      \cup {NoSeal}]
      BY <1>3 DEF Sealed, Return
    <2>5. \A e \in Calls : call'[e] = "seal" =>
             \E p \in Queries, s \in Printable :
                pending'[e] = Unsealed(p) /\ fields'[e] = Fields(p, s)
      BY <1>3 DEF Sealed, Return
    <2>. QED
      BY <2>3, <2>4, <2>5
  <1>4. ASSUME NEW c \in Calls, SealUnavailable(c) PROVE EngineInv'
    BY <1>4 DEF SealUnavailable, Return
  <1>5. ASSUME NEW d \in Presented, VerifyDecision(d) PROVE EngineInv'
    BY <1>5 DEF VerifyDecision
  <1>6. CASE UNCHANGED engine
    BY <1>6 DEF engine
  <1>. HIDE DEF EngineInv
  <1>. QED
    BY <1>1, <1>2, <1>3, <1>4, <1>5, <1>6, Zenon DEF EngineNext

LEMMA EngineInvariant == EngineSpec => []EngineInv
  BY EngineInvInit, EngineInvStep, PTL DEF EngineSpec

-----------------------------------------------------------------------------
(* The PDP allows exactly the requests that the policy describes           *)
(* (db_connect.cedar:1-5), for every request and in every state.           *)
LEMMA DecideIsJustified ==
    ASSUME NEW q \in Queries
    PROVE  decide(q).effect = "ALLOW" <=> RequestIsJustified(q)
  <1>1. /\ q \in DecisionRequest
        /\ q.requested_at \in Int /\ q.evaluated_at \in Int
    BY TimesAssumption, EngineAssumption, Zenon DEF DecisionRequest
  <1>2. decide(q).effect = "ALLOW" <=>
           /\ q.policy_version \in {"", "served"}
           /\ Translates(q)
           /\ Permits(q) # {}
           /\ Forbids(q) = {}
    BY Zenon DEF decide, DecideWith, IsAuthorized
  <1>3. Permits(q) # {} <=> DbConnectProduction(q)
    BY DEF Permits
  <1>4. Forbids(q) = {} <=> ~(\/ RequiresAal3(q)
                              \/ DomainIsolation(q)
                              \/ RequiresTicketAndApproval(q))
    BY DEF Forbids
  <1>5. q.requested_at \in
           q.evaluated_at .. (q.evaluated_at + PostureWindow) <=>
           /\ q.evaluated_at <= q.requested_at
           /\ q.requested_at - q.evaluated_at <= PostureWindow
    BY <1>1 DEF PostureWindow
  <1>6. /\ q.policy_version \in {"", "served"} <=> q.policy_version # "other"
        /\ q.ticket_ref # "" <=> q.ticket_ref = "ticket"
        /\ q.approvals # {} <=> \E a \in q.approvals : TRUE
    BY <1>1, Zenon DEF DecisionRequest
  <1>7. DbConnectProduction(q) => ~(\/ RequiresAal3(q)
                                    \/ DomainIsolation(q)
                                    \/ RequiresTicketAndApproval(q))
    <2>. SUFFICES ASSUME DbConnectProduction(q)
                  PROVE  /\ ~RequiresAal3(q)
                         /\ ~DomainIsolation(q)
                         /\ ~RequiresTicketAndApproval(q)
      OBVIOUS
    <2>1. /\ q.aal = "AAL3"
          /\ q.principal_domain = q.resource_domain
          /\ q.ticket_ref # ""
          /\ q.approvals # {}
      BY Zenon DEF DbConnectProduction
    <2>2. ~RequiresAal3(q) /\ ~DomainIsolation(q)
      BY <2>1, Zenon DEF RequiresAal3, DomainIsolation
    <2>3. ~RequiresTicketAndApproval(q)
      BY <2>1, Zenon DEF RequiresTicketAndApproval
    <2>. QED
      BY <2>2, <2>3
  <1>8. decide(q).effect = "ALLOW" <=>
           /\ q.policy_version # "other"
           /\ Translates(q)
           /\ DbConnectProduction(q)
    BY <1>2, <1>3, <1>4, <1>6, <1>7, Zenon
  <1>9. ASSUME Translates(q), DbConnectProduction(q),
               q.policy_version # "other"
        PROVE  RequestIsJustified(q)
    <2>1. /\ q.complete /\ q.resource_type = "Database" /\ q.verb = "db.connect"
          /\ q.environment = "production" /\ q.aal = "AAL3"
          /\ q.principal_domain = q.resource_domain
      BY <1>9, Zenon DEF Translates, DbConnectProduction
    <2>2. /\ q.evaluated_at <= q.requested_at
          /\ q.requested_at - q.evaluated_at <= PostureWindow
      BY <1>9, Zenon DEF DbConnectProduction
    <2>3. q.ticket_ref # "" /\ q.approvals # {}
      BY <1>9, Zenon DEF DbConnectProduction
    <2>4. /\ q.requested_at \in
                q.evaluated_at .. (q.evaluated_at + PostureWindow)
          /\ q.ticket_ref = "ticket"
          /\ \E a \in q.approvals : TRUE
      BY <1>5, <1>6, <2>2, <2>3, Zenon
    <2>. QED
      BY <1>9, <2>1, <2>4, Zenon DEF RequestIsJustified
  <1>10. ASSUME RequestIsJustified(q)
         PROVE  /\ Translates(q)
                /\ DbConnectProduction(q)
                /\ q.policy_version # "other"
    <2>1. /\ q.complete /\ q.resource_type = "Database" /\ q.verb = "db.connect"
          /\ q.environment = "production" /\ q.aal = "AAL3"
          /\ q.principal_domain = q.resource_domain
          /\ q.policy_version # "other"
      BY <1>10, Zenon DEF RequestIsJustified
    <2>2. /\ q.requested_at \in
                q.evaluated_at .. (q.evaluated_at + PostureWindow)
          /\ q.ticket_ref = "ticket"
          /\ \E a \in q.approvals : TRUE
      BY <1>10, Zenon DEF RequestIsJustified
    <2>3. /\ q.evaluated_at <= q.requested_at
          /\ q.requested_at - q.evaluated_at <= PostureWindow
          /\ q.ticket_ref # ""
          /\ q.approvals # {}
      BY <1>5, <1>6, <2>2, Zenon
    <2>4. Translates(q)
      BY <2>1 DEF Translates
    <2>. QED
      BY <2>1, <2>3, <2>4, Zenon DEF DbConnectProduction
  <1>. QED
    BY <1>8, <1>9, <1>10

(* A decision that policy-engine seals is an ALLOW exactly when the        *)
(* request meets every condition of the corpus (lib.rs Pdp::decide,        *)
(* db_connect.cedar), for every request.                                   *)
THEOREM DecisionsAreJustified == EngineSpec => []AllowIsJustified
  <1>1. EngineInv => AllowIsJustified
    <2>. SUFFICES ASSUME EngineInv, NEW c \in Calls, call[c] = "seal"
                  PROVE  pending[c].effect = "ALLOW" <=>
                            RequestIsJustified(pending[c].decision_hash)
      BY DEF AllowIsJustified
    <2>1. PICK q \in Queries : pending[c] = Unsealed(q)
      BY DEF EngineInv
    <2>2. /\ pending[c].effect = decide(q).effect
          /\ pending[c].decision_hash = q
      BY <2>1 DEF Unsealed
    <2>. QED
      BY <2>2, DecideIsJustified
  <1>. QED
    BY <1>1, EngineInvariant, PTL

(* The guardrails bound any corpus that adds permits to this one           *)
(* (db_connect_guardrails.cedar:1-4).                                      *)
THEOREM GuardrailsAlwaysHold == EngineSpec => []GuardrailsHold
  <1>1. EngineInv => GuardrailsHold
    <2>. SUFFICES ASSUME EngineInv, NEW c \in Calls, call[c] = "seal",
                         NEW q, q = pending[c].decision_hash,
                         DecideWith(q, Permits(q) \cup {"future"}).effect
                            = "ALLOW"
                  PROVE  /\ q.principal_domain = q.resource_domain
                         /\ q.environment = "production" =>
                               /\ q.aal = "AAL3"
                               /\ q.ticket_ref = "ticket"
                               /\ q.approvals # {}
      BY DEF GuardrailsHold
    <2>1. q \in Queries
      BY DEF EngineInv, Unsealed
    <2>2. Forbids(q) = {}
      BY Zenon DEF DecideWith, IsAuthorized
    <2>3. ~(\/ RequiresAal3(q)
            \/ DomainIsolation(q)
            \/ RequiresTicketAndApproval(q))
      BY <2>2 DEF Forbids
    <2>4. q.ticket_ref # "" => q.ticket_ref = "ticket"
      BY <2>1, EngineAssumption, Zenon DEF DecisionRequest
    <2>. QED
      BY <2>3, <2>4, Zenon DEF RequiresAal3, DomainIsolation,
                             RequiresTicketAndApproval
  <1>. QED
    BY <1>1, EngineInvariant, PTL

LEMMA AnswerVerifies ==
    ASSUME InstantsSurvive, EngineInv, NEW d \in answered
    PROVE  verify_decision(d)
  <1>1. PICK q \in Queries, t \in Printable : d = AnswerTo(q, t)
    BY DEF EngineInv
  <1>2. /\ d.effect = decide(q).effect /\ d.reasons = decide(q).reasons
        /\ d.decision_hash = q /\ d.decision_signature = Fields(q, t)
        /\ d.issued_at = request_time_from_rfc3339(rfc3339_from_seconds(t))
    <2> DEFINE e == AnswerTo(q, t)
    <2>1. /\ e.effect = decide(q).effect /\ e.reasons = decide(q).reasons
          /\ e.decision_hash = q /\ e.decision_signature = Fields(q, t)
          /\ e.issued_at = request_time_from_rfc3339(rfc3339_from_seconds(t))
      BY AnswerFields
    <2> HIDE DEF e
    <2>2. d = e
      BY <1>1, Zenon DEF e
    <2> QED
      BY <2>1, <2>2, Zenon
  <1>3. d.issued_at = t
    BY <1>2 DEF InstantsSurvive, Printable
  <1>4. d.issued_at # NoInstant
    BY <1>3, InstantIsSet, EngineAssumption, Zenon DEF Printable
  <1>5. decision_fields(d, rfc3339_from_seconds(t)) = Fields(q, t)
    BY <1>2, FieldsOf, Zenon DEF decision_fields
  <1>6. d.decision_signature # NoSeal
    BY <1>2, <1>5, NoSealIsNoFields, Zenon
  <1>. QED
    BY <1>2, <1>3, <1>4, <1>5, <1>6 DEF verify_decision, Printable

-----------------------------------------------------------------------------
(* The decisions that verify_decision is handed.                           *)
Seals == {Fields(q, t) : q \in Queries, t \in Printable} \cup {NoSeal}
SealedDecision == [effect : {"ALLOW", "DENY"},
             reasons : {decide(q).reasons : q \in Queries},
             decision_hash : Queries,
             issued_at : Clock \cup Foreign \cup {NoInstant},
             decision_signature : Seals]

LEMMA PresentedFrom ==
    ASSUME InstantsSurvive, EngineInv, NEW d \in Presented
    PROVE  \E q \in Queries, t \in Printable :
              /\ AnswerTo(q, t) \in answered
              /\ d.decision_signature \in {Fields(q, t), NoSeal}
              /\ d.effect \in {"ALLOW", "DENY"}
              /\ d.issued_at \in Clock \cup Foreign \cup {NoInstant}
  <1>1. PICK a \in answered :
           \/ d = a
           \/ \E e \in {"ALLOW", "DENY"} : d = [a EXCEPT !.effect = e]
           \/ \E s \in Clock \cup Foreign \cup {NoInstant} :
                 d = [a EXCEPT !.issued_at = s]
           \/ \E p \in Queries : d = [a EXCEPT !.decision_hash = p]
           \/ d = [a EXCEPT !.decision_signature = NoSeal]
    BY DEF Presented
  <1>2. PICK q \in Queries, t \in Printable : a = AnswerTo(q, t)
    BY DEF EngineInv
  <1>3. /\ a \in SealedDecision
        /\ a.decision_signature = Fields(q, t)
    <2>1. IssuedAt(Fields(q, t)) = t
      BY AnswerFields DEF IssuedAt, InstantsSurvive, Printable
    <2>2. a = [effect |-> decide(q).effect,
               reasons |-> decide(q).reasons,
               decision_hash |-> q, issued_at |-> t,
               decision_signature |-> Fields(q, t)]
      BY <1>2, <2>1 DEF AnswerTo, Signed, Unsealed
    <2>3. Fields(q, t) \in Seals /\ t \in Clock
      BY DEF Seals, Printable
    <2>. QED
      BY <2>2, <2>3, Effects DEF SealedDecision
  <1>4. /\ d \in SealedDecision
        /\ d.decision_signature \in {a.decision_signature, NoSeal}
    <2>1. NoSeal \in Seals
      BY DEF Seals
    <2>. QED
      BY <1>1, <1>3, <2>1 DEF SealedDecision
  <1>. QED
    BY <1>2, <1>3, <1>4 DEF SealedDecision

LEMMA AcceptedWasAnswered ==
    ASSUME InstantsSurvive, EngineInv, NEW d \in Presented,
           verify_decision(d)
    PROVE  \E a \in answered :
              /\ a.decision_hash = d.decision_hash
              /\ a.effect = d.effect
              /\ a.issued_at = d.issued_at
  <1>1. PICK q \in Queries, t \in Printable :
           /\ AnswerTo(q, t) \in answered
           /\ d.decision_signature \in {Fields(q, t), NoSeal}
           /\ d.effect \in {"ALLOW", "DENY"}
           /\ d.issued_at \in Clock \cup Foreign \cup {NoInstant}
    BY PresentedFrom
  <1>2. /\ d.issued_at \in Clock \cup Foreign
        /\ decision_fields(d, rfc3339_from_seconds(d.issued_at))
              = Fields(q, t)
    BY <1>1 DEF verify_decision
  <1>3. /\ d.decision_hash = q
        /\ (d.effect = "ALLOW") = (decide(q).effect = "ALLOW")
        /\ rfc3339_from_seconds(d.issued_at) = rfc3339_from_seconds(t)
    <2>1. /\ Fields(q, t).decision_hash = q
          /\ Fields(q, t).effect_allow = (decide(q).effect = "ALLOW")
          /\ Fields(q, t).issued_at = rfc3339_from_seconds(t)
      BY FieldsOf, Zenon
    <2>. QED
      BY <1>2, <2>1 DEF decision_fields
  <1>4. d.issued_at = t
    BY <1>2, <1>3 DEF InstantsSurvive, Printable
  <1>5. d.effect = decide(q).effect
    BY <1>1, <1>3, Effects, Zenon
  <1>6. AnswerTo(q, t).issued_at = t
    BY AnswerFields DEF InstantsSurvive, Printable
  <1>7. /\ AnswerTo(q, t).effect = decide(q).effect
        /\ AnswerTo(q, t).decision_hash = q
    BY AnswerFields, Zenon
  <1>. QED
    BY <1>1, <1>3, <1>4, <1>5, <1>6, <1>7, Zenon

LEMMA VerifiedStep ==
    ASSUME InstantsSurvive, EngineInv, VerifiedWasDecided,
           [EngineNext]_engine
    PROVE  VerifiedWasDecided'
  <1>1. ASSUME answered \subseteq answered', UNCHANGED verdict
        PROVE  VerifiedWasDecided'
    BY <1>1 DEF VerifiedWasDecided
  <1>2. CASE Tick
    BY <1>1, <1>2 DEF Tick
  <1>3. ASSUME NEW c \in Calls,
               Evaluate(c) \/ Sealed(c) \/ SealUnavailable(c)
        PROVE  VerifiedWasDecided'
    BY <1>1, <1>3 DEF Evaluate, Sealed, SealUnavailable, Return
  <1>4. ASSUME NEW d \in Presented, VerifyDecision(d)
        PROVE  VerifiedWasDecided'
    <2>1. /\ verdict'.valid = verify_decision(d)
          /\ verdict'.decision = d
          /\ answered' = answered
      BY <1>4 DEF VerifyDecision
    <2>2. CASE verify_decision(d)
      BY <2>1, <2>2, AcceptedWasAnswered DEF VerifiedWasDecided
    <2>3. CASE ~verify_decision(d)
      BY <2>1, <2>3 DEF VerifiedWasDecided
    <2>. QED
      BY <2>2, <2>3
  <1>5. CASE UNCHANGED engine
    BY <1>1, <1>5 DEF engine
  <1>. QED
    BY <1>2, <1>3, <1>4, <1>5 DEF EngineNext

-----------------------------------------------------------------------------
LEMMA RoundTrip == InstantsSurvive
  BY EngineAssumption, TextsReadBack DEF InstantsSurvive

(* What decide answers, verify_decision accepts (lib.rs:221-223).          *)
THEOREM AnswersAlwaysVerify == EngineSpec => []AnswersVerify
  <1>1. EngineInv => AnswersVerify
    BY RoundTrip, AnswerVerifies DEF AnswersVerify
  <1>. QED
    BY <1>1, EngineInvariant, PTL

(* verify_decision accepts only what decide answered: the request, the     *)
(* effect and the instant of an accepted decision are those of one answer  *)
(* (decision_seal.rs:20-23).                                               *)
THEOREM VerifiedAreDecided == EngineSpec => []VerifiedWasDecided
  <1>1. EngineInit => VerifiedWasDecided
    BY DEF EngineInit, VerifiedWasDecided
  <1>2. EngineInv /\ VerifiedWasDecided /\ [EngineNext]_engine
        => VerifiedWasDecided'
    BY RoundTrip, VerifiedStep
  <1>. QED
    BY <1>1, <1>2, EngineInvariant, PTL DEF EngineSpec
=============================================================================
