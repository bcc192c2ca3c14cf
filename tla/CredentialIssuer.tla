-------------------------- MODULE CredentialIssuer --------------------------
(***************************************************************************)
(* credential-issuer: the Emit handler that turns a sealed ALLOW decision  *)
(* into an OpenBao lease (issuer.go, consumed_decisions.go, handler.go),   *)
(* the Revoke handler, and restarts of the service.                        *)
(*                                                                         *)
(* Emit makes three calls that other requests, failures and crashes can    *)
(* come between: VerifyDecision (policy-engine), the write of the lease    *)
(* path (OpenBao), Record (audit-collector).  What happens between two     *)
(* calls is one step.  The set of consumed decisions is guarded by a mutex *)
(* and lives in memory.  OpenBao gives up nothing when its client does: a  *)
(* request whose answer was not awaited may still produce a lease.         *)
(***************************************************************************)
EXTENDS Integers

CONSTANTS Calls,            \* Emit requests handled concurrently
          Decisions,        \* sealed decisions, by decision_hash
          AllowDecisions,   \* those whose effect is ALLOW
          NoDecision,       \* the decision of an order without one
          MaxOrders,        \* bound on the number of Emit requests
          MaxRestarts       \* bound on the number of restarts

ASSUME IssuerAssumption ==
    /\ AllowDecisions \subseteq Decisions
    /\ MaxOrders \in Nat
    /\ MaxRestarts \in Nat

VARIABLES pc,         \* pc[c]: the next call of the request c
          order,      \* order[c]: the EmissionOrder of c
          held,       \* held[c]: the lease c has obtained
          reply,      \* reply[c]: what the last request of c was answered
          orders,     \* number of requests received
          epoch,      \* number of restarts of the service
          consumed,   \* InMemoryConsumedDecisionStore.consumed
          minted,     \* number of leases OpenBao has created
          leases,     \* those leases
          late,       \* lease requests OpenBao may still act on, unawaited
          revoked,    \* leases OpenBao has revoked
          recorded    \* leases whose credential.issued event is in the journal

service == <<pc, order, held, reply, orders, epoch, consumed>>
openbao == <<minted, leases, late, revoked>>
vars == <<service, openbao, recorded>>

-----------------------------------------------------------------------------
NoLease == [id |-> 0]

Verbs == {"db.connect", "other"}
EmissionOrder == [decision : Decisions \cup {NoDecision}, authentic : BOOLEAN,
                  verb : Verbs]
Lease == [id : Nat \ {0}, decision : AllowDecisions, epoch : Nat]
LeaseRequest == [decision : AllowDecisions, epoch : Nat]
Refusals == {"decision_absente", "decision_invalide", "deny",
             "decision_deja_consommee", "moteur_non_supporte"}
Answer == [status : {"none", "unavailable"} \cup Refusals]
            \cup [status : {"allowed"}, lease : Lease]
PC == {"idle", "verify", "issue", "audit"}

TypeOK ==
    /\ pc \in [Calls -> PC]
    /\ order \in [Calls -> EmissionOrder]
    /\ held \in [Calls -> Lease \cup {NoLease}]
    /\ reply \in [Calls -> Answer]
    /\ orders \in Nat
    /\ epoch \in Nat
    /\ consumed \subseteq AllowDecisions
    /\ minted \in Nat
    /\ leases \subseteq Lease
    /\ late \subseteq LeaseRequest
    /\ revoked \subseteq Lease
    /\ recorded \subseteq Lease

Return(c, answer) ==
    /\ pc' = [pc EXCEPT ![c] = "idle"]
    /\ held' = [held EXCEPT ![c] = NoLease]
    /\ reply' = [reply EXCEPT ![c] = answer]

Init ==
    /\ pc = [c \in Calls |-> "idle"]
    /\ order = [c \in Calls |-> [decision |-> NoDecision, authentic |-> FALSE,
                                 verb |-> "other"]]
    /\ held = [c \in Calls |-> NoLease]
    /\ reply = [c \in Calls |-> [status |-> "none"]]
    /\ orders = 0
    /\ epoch = 0
    /\ consumed = {}
    /\ minted = 0
    /\ leases = {}
    /\ late = {}
    /\ revoked = {}
    /\ recorded = {}

-----------------------------------------------------------------------------
(* An order without a decision is refused at once; any other goes to       *)
(* VerifyDecision.                                                         *)
Emit(c) ==
    /\ pc[c] = "idle"
    /\ orders < MaxOrders
    /\ orders' = orders + 1
    /\ \E o \in EmissionOrder :
          /\ order' = [order EXCEPT ![c] = o]
          /\ IF o.decision = NoDecision
             THEN Return(c, [status |-> "decision_absente"])
             ELSE /\ pc' = [pc EXCEPT ![c] = "verify"]
                  /\ reply' = [reply EXCEPT ![c] = [status |-> "none"]]
                  /\ UNCHANGED held
    /\ UNCHANGED <<epoch, consumed, openbao, recorded>>

(* The verification answers valid = false, or the effect is not ALLOW.     *)
DecisionRefused(c) ==
    /\ pc[c] = "verify"
    /\ \/ /\ ~order[c].authentic
          /\ Return(c, [status |-> "decision_invalide"])
       \/ /\ order[c].authentic
          /\ order[c].decision \notin AllowDecisions
          /\ Return(c, [status |-> "deny"])
    /\ UNCHANGED <<order, orders, epoch, consumed, openbao, recorded>>

VerifiedAllow(c) ==
    /\ pc[c] = "verify"
    /\ order[c].authentic
    /\ order[c].decision \in AllowDecisions

(* Mutant of MarkConsumed: it looks the decision up and does not keep it.  *)
LookUpOnly(d) == UNCHANGED consumed

(* MarkConsumed, on a decision not seen before.                            *)
MarkConsumed(d) == consumed' = consumed \cup {d}

Replayed(c) ==
    /\ VerifiedAllow(c)
    /\ order[c].decision \in consumed
    /\ Return(c, [status |-> "decision_deja_consommee"])
    /\ UNCHANGED <<order, orders, epoch, consumed, openbao, recorded>>

(* A verified ALLOW seen for the first time is consumed, then its verb is  *)
(* mapped to an OpenBao engine; a verb without engine is refused although  *)
(* the decision is by now consumed.                                        *)
Consume(c) ==
    /\ VerifiedAllow(c)
    /\ order[c].decision \notin consumed
    /\ MarkConsumed(order[c].decision)
    /\ IF order[c].verb = "db.connect"
       THEN /\ pc' = [pc EXCEPT ![c] = "issue"]
            /\ UNCHANGED <<held, reply>>
       ELSE Return(c, [status |-> "moteur_non_supporte"])
    /\ UNCHANGED <<order, orders, epoch, openbao, recorded>>

(* OpenBao creates a lease on request r, with an identifier of its own.    *)
Request(c) == [decision |-> order[c].decision, epoch |-> epoch]
NewLease(r) == [id |-> minted + 1, decision |-> r.decision, epoch |-> r.epoch]
Create(r) ==
    /\ minted' = minted + 1
    /\ leases' = leases \cup {NewLease(r)}
    /\ UNCHANGED revoked

(* Mutant of IssueLease: the lease is answered from a cache when there is  *)
(* one for the same decision.                                              *)
IssueLeaseCached(c) ==
    /\ pc[c] = "issue"
    /\ IF \E l \in leases : l.decision = order[c].decision
       THEN /\ held' = [held EXCEPT ![c] =
                           CHOOSE l \in leases : l.decision = order[c].decision]
            /\ UNCHANGED <<minted, leases, revoked>>
       ELSE /\ Create(Request(c))
            /\ held' = [held EXCEPT ![c] = NewLease(Request(c))]
    /\ pc' = [pc EXCEPT ![c] = "audit"]
    /\ UNCHANGED <<order, reply, orders, epoch, consumed, late, recorded>>

(* IssueLease succeeds: the event credential.issued is built and sent.     *)
IssueLease(c) ==
    /\ pc[c] = "issue"
    /\ Create(Request(c))
    /\ held' = [held EXCEPT ![c] = NewLease(Request(c))]
    /\ pc' = [pc EXCEPT ![c] = "audit"]
    /\ UNCHANGED <<order, reply, orders, epoch, consumed, late, recorded>>

(* Mutant of IssueLeaseFails: the decision is freed and the order starts   *)
(* again.                                                                  *)
IssueLeaseStartsAgain(c) ==
    /\ pc[c] = "issue"
    /\ pc' = [pc EXCEPT ![c] = "verify"]
    /\ consumed' = consumed \ {order[c].decision}
    /\ UNCHANGED <<order, held, reply, orders, epoch, openbao, recorded>>

(* IssueLease fails before OpenBao does anything.                          *)
IssueLeaseFails(c) ==
    /\ pc[c] = "issue"
    /\ Return(c, [status |-> "unavailable"])
    /\ UNCHANGED <<order, orders, epoch, consumed, openbao, recorded>>

(* Mutant of IssueLeaseTimesOut: the event is sent without the answer.     *)
IssueLeaseRecordedBlindly(c) ==
    /\ pc[c] = "issue"
    /\ late' = late \cup {Request(c)}
    /\ recorded' = recorded \cup {NewLease(Request(c))}
    /\ Return(c, [status |-> "unavailable"])
    /\ UNCHANGED <<order, orders, epoch, consumed, minted, leases, revoked>>

(* IssueLease times out, or its answer is lost: no retry, and OpenBao may  *)
(* still act on the request.                                               *)
IssueLeaseTimesOut(c) ==
    /\ pc[c] = "issue"
    /\ late' = late \cup {Request(c)}
    /\ Return(c, [status |-> "unavailable"])
    /\ UNCHANGED <<order, orders, epoch, consumed, minted, leases, revoked,
                   recorded>>

(* OpenBao acts on a request nobody awaits any more, or drops it.          *)
LateLease ==
    \E r \in late :
        /\ late' = late \ {r}
        /\ Create(r)
        /\ UNCHANGED <<service, recorded>>

LateDropped ==
    \E r \in late :
        /\ late' = late \ {r}
        /\ UNCHANGED <<service, minted, leases, revoked, recorded>>

(* recordCredentialIssued is best effort: the answer is the lease whether  *)
(* audit-collector recorded the event or not.                              *)
RecordIssued(c) ==
    /\ pc[c] = "audit"
    /\ recorded' = recorded \cup {held[c]}
    /\ Return(c, [status |-> "allowed", lease |-> held[c]])
    /\ UNCHANGED <<order, orders, epoch, consumed, openbao>>

RecordIssuedFails(c) ==
    /\ pc[c] = "audit"
    /\ Return(c, [status |-> "allowed", lease |-> held[c]])
    /\ UNCHANGED <<order, orders, epoch, consumed, openbao, recorded>>

(* VerifyDecision cannot be reached: an error, nothing consumed.           *)
VerifyFails(c) ==
    /\ pc[c] = "verify"
    /\ Return(c, [status |-> "unavailable"])
    /\ UNCHANGED <<order, orders, epoch, consumed, openbao, recorded>>

(* The holder of a lease has it revoked; an error answer (or a revocation  *)
(* that did not happen) changes nothing here.                              *)
Known == {reply[c].lease : c \in {k \in Calls : reply[k].status = "allowed"}}
Revoke(l) ==
    /\ l \notin revoked
    /\ revoked' = revoked \cup {l}
    /\ UNCHANGED <<service, minted, leases, late, recorded>>

(* The service restarts: requests are dropped, and with them the memory of *)
(* what was consumed.  OpenBao may still act on what it was sent.          *)
Restart ==
    /\ epoch < MaxRestarts
    /\ epoch' = epoch + 1
    /\ consumed' = {}
    /\ pc' = [c \in Calls |-> "idle"]
    /\ held' = [c \in Calls |-> NoLease]
    /\ reply' = [c \in Calls |-> IF pc[c] = "idle" THEN reply[c]
                                 ELSE [status |-> "none"]]
    /\ late' = late \cup {Request(c) : c \in {k \in Calls : pc[k] = "issue"}}
    /\ UNCHANGED <<order, orders, minted, leases, revoked, recorded>>

Step(c) ==
    \/ DecisionRefused(c)
    \/ Replayed(c)
    \/ Consume(c)
    \/ IssueLease(c)
    \/ IssueLeaseFails(c)
    \/ IssueLeaseTimesOut(c)
    \/ RecordIssued(c)
    \/ RecordIssuedFails(c)
    \/ VerifyFails(c)

(* The bound on requests is reached and every request is answered.         *)
Quiescent ==
    /\ orders = MaxOrders
    /\ \A c \in Calls : pc[c] = "idle"
    /\ UNCHANGED vars

Next ==
    \/ \E c \in Calls : Emit(c) \/ Step(c)
    \/ \E l \in Known : Revoke(l)
    \/ LateLease
    \/ LateDropped
    \/ Restart
    \/ Quiescent

Spec == Init /\ [][Next]_vars

(* Every call out of the service ends: OpenBao after 5 s (client.go), the  *)
(* gRPC calls when they answer or their connection breaks.                 *)
FairSpec == Spec /\ \A c \in Calls : WF_vars(Step(c))

-----------------------------------------------------------------------------
(* issuer.go:71-73, within one life of the service: whatever the order in  *)
(* which concurrent requests for a decision are verified, time out or      *)
(* fail, and whatever OpenBao does late, the decision produces at most one *)
(* lease.                                                                  *)
OneLeasePerDecision ==
    \A l, m \in leases :
        l.decision = m.decision /\ l.epoch = m.epoch => l = m

(* A request answered allowed names a lease that OpenBao created for the   *)
(* decision it presented, and no other request was given that lease.       *)
AllowedHoldsItsLease ==
    \A c \in Calls : reply[c].status = "allowed" =>
        /\ reply[c].lease \in leases
        /\ reply[c].lease.decision = order[c].decision
        /\ order[c].authentic
        /\ \A b \in Calls \ {c} : reply[b].status = "allowed" =>
              reply[b].lease # reply[c].lease

(* issuer.go:87-89 and handler.go:59-61: the journal has no                *)
(* credential.issued event for a lease that OpenBao did not create, late   *)
(* leases, timeouts and restarts notwithstanding.                          *)
RecordedWasIssued == recorded \subseteq leases

(* Every order is answered or the service restarts.                        *)
EveryOrderEnds == \A c \in Calls : pc[c] # "idle" ~> pc[c] = "idle"
=============================================================================
