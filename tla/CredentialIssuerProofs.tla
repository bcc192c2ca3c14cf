----------------------- MODULE CredentialIssuerProofs -----------------------
(***************************************************************************)
(* Proofs about CredentialIssuer, for any number of requests, decisions    *)
(* and restarts: within one life of the service a decision yields at most  *)
(* one lease, and what is answered or recorded is a lease that exists.     *)
(***************************************************************************)
EXTENDS CredentialIssuer, TLAPS

(* The right to emit for a decision is held once: by the request that is   *)
(* waiting for OpenBao, by a request OpenBao may still act on, or by the   *)
(* lease it produced.                                                      *)
IssuingIsExclusive ==
    \A c \in Calls : pc[c] = "issue" =>
        /\ order[c].authentic
        /\ order[c].decision \in consumed
        /\ Request(c) \notin late
        /\ \A l \in leases :
              ~(l.decision = order[c].decision /\ l.epoch = epoch)
        /\ \A b \in Calls \ {c} :
              pc[b] = "issue" => order[b].decision # order[c].decision

LateIsExclusive ==
    \A r \in late :
        /\ r.epoch <= epoch
        /\ r.epoch = epoch => r.decision \in consumed
        /\ \A l \in leases : ~(l.decision = r.decision /\ l.epoch = r.epoch)

LeasesAreConsumed ==
    \A l \in leases :
        /\ l.id <= minted
        /\ l.epoch <= epoch
        /\ l.epoch = epoch => l.decision \in consumed

(* A request about to send its event holds a lease of its own.             *)
HeldIsExclusive ==
    \A c \in Calls : pc[c] = "audit" =>
        /\ held[c] \in leases
        /\ held[c].decision = order[c].decision
        /\ order[c].authentic
        /\ \A b \in Calls \ {c} :
              /\ pc[b] = "audit" => held[b] # held[c]
              /\ reply[b].status = "allowed" => reply[b].lease # held[c]

(* A request under way has no answer yet.                                  *)
AnswersAreFinal ==
    \A c \in Calls : pc[c] # "idle" => reply[c] = [status |-> "none"]

(* The inductive invariant.                                                *)
IInv ==
    /\ TypeOK
    /\ IssuingIsExclusive
    /\ LateIsExclusive
    /\ LeasesAreConsumed
    /\ HeldIsExclusive
    /\ AnswersAreFinal
    /\ OneLeasePerDecision
    /\ AllowedHoldsItsLease
    /\ RecordedWasIssued

-----------------------------------------------------------------------------
LEMMA AnswerType ==
    /\ \A a \in {"none", "unavailable"} \cup Refusals : [status |-> a] \in Answer
    /\ \A l \in Lease : [status |-> "allowed", lease |-> l] \in Answer
BY DEF Answer

LEMMA InitIInv == Init => IInv
<1> SUFFICES ASSUME Init PROVE IInv
  OBVIOUS
<1>1. TypeOK
  BY AnswerType DEF Init, TypeOK, PC, EmissionOrder, Verbs
<1>2. IssuingIsExclusive /\ LateIsExclusive /\ LeasesAreConsumed
  BY DEF Init, IssuingIsExclusive, LateIsExclusive, LeasesAreConsumed
<1>3. HeldIsExclusive /\ AnswersAreFinal /\ OneLeasePerDecision
  BY DEF Init, HeldIsExclusive, AnswersAreFinal, OneLeasePerDecision
<1>4. AllowedHoldsItsLease /\ RecordedWasIssued
  BY DEF Init, AllowedHoldsItsLease, RecordedWasIssued
<1> QED
  BY <1>1, <1>2, <1>3, <1>4 DEF IInv

(* The request of a call waiting for OpenBao is well formed.               *)
LEMMA RequestType ==
    ASSUME IInv, NEW c \in Calls, pc[c] = "issue"
    PROVE  Request(c) \in LeaseRequest
BY DEF IInv, TypeOK, IssuingIsExclusive, Request, LeaseRequest

LEMMA NewLeaseType ==
    ASSUME TypeOK, NEW r \in LeaseRequest
    PROVE  NewLease(r) \in Lease
BY DEF TypeOK, NewLease, LeaseRequest, Lease

(* A request that takes a step without creating a lease and without an     *)
(* answer that grants one; its order may be new, and a decision may become *)
(* consumed.                                                               *)
LEMMA QuietKeeps ==
    ASSUME IInv, TypeOK', NEW c \in Calls, NEW p \in {"idle", "verify"},
           NEW a \in Answer, a.status # "allowed",
           p # "idle" => a = [status |-> "none"],
           pc' = [pc EXCEPT ![c] = p],
           reply' = [reply EXCEPT ![c] = a],
           \A b \in Calls \ {c} : order'[b] = order[b] /\ held'[b] = held[b],
           consumed \subseteq consumed',
           UNCHANGED <<epoch, openbao, recorded>>
    PROVE  IInv'
<1> USE DEF TypeOK, openbao
<1>1. IssuingIsExclusive'
  BY DEF IInv, IssuingIsExclusive, Request
<1>2. LateIsExclusive' /\ LeasesAreConsumed'
  BY DEF IInv, LateIsExclusive, LeasesAreConsumed
<1>3. HeldIsExclusive'
  BY DEF IInv, HeldIsExclusive
<1>4. AnswersAreFinal'
  BY DEF IInv, AnswersAreFinal
<1>5. OneLeasePerDecision' /\ RecordedWasIssued'
  BY DEF IInv, OneLeasePerDecision, RecordedWasIssued
<1>6. AllowedHoldsItsLease'
  BY DEF IInv, AllowedHoldsItsLease
<1> QED
  BY <1>1, <1>2, <1>3, <1>4, <1>5, <1>6 DEF IInv

LEMMA EmitKeeps ==
    ASSUME IInv, NEW c \in Calls, Emit(c)
    PROVE  IInv'
<1> DEFINE none == [status |-> "none"]
           absent == [status |-> "decision_absente"]
<1>1. PICK o \in EmissionOrder :
        /\ order' = [order EXCEPT ![c] = o]
        /\ IF o.decision = NoDecision
           THEN Return(c, absent)
           ELSE /\ pc' = [pc EXCEPT ![c] = "verify"]
                /\ reply' = [reply EXCEPT ![c] = none]
                /\ UNCHANGED held
  BY DEF Emit
<1>2. none \in Answer /\ absent \in Answer
  BY AnswerType DEF Refusals
<1>3. none.status # "allowed" /\ absent.status # "allowed"
  OBVIOUS
<1>4. UNCHANGED <<epoch, consumed, openbao, recorded>>
  BY DEF Emit
<1> HIDE DEF none, absent
<1>5. TypeOK'
  BY <1>1, <1>2, <1>4 DEF IInv, TypeOK, Emit, Return, openbao, PC
<1>6. CASE o.decision = NoDecision
  BY <1>1, <1>2, <1>3, <1>4, <1>5, <1>6, QuietKeeps DEF Return, IInv, TypeOK
<1>7. CASE o.decision # NoDecision
  BY <1>1, <1>2, <1>3, <1>4, <1>5, <1>7, QuietKeeps DEF none, IInv, TypeOK
<1> QED
  BY <1>6, <1>7

(* A request answered a refusal or an error, a decision consumed or not.   *)
LEMMA RefuseKeeps ==
    ASSUME IInv, NEW c \in Calls,
           NEW a \in {"unavailable"} \cup Refusals,
           Return(c, [status |-> a]),
           consumed \subseteq consumed', consumed' \subseteq AllowDecisions,
           UNCHANGED <<order, orders, epoch, openbao, recorded>>
    PROVE  IInv'
<1> DEFINE answer == [status |-> a]
<1>1. answer \in Answer /\ answer.status # "allowed"
  BY AnswerType DEF Refusals
<1>2. /\ pc' = [pc EXCEPT ![c] = "idle"]
      /\ held' = [held EXCEPT ![c] = NoLease]
      /\ reply' = [reply EXCEPT ![c] = answer]
  BY DEF Return
<1> HIDE DEF answer
<1>3. TypeOK'
  BY <1>1, <1>2 DEF IInv, TypeOK, openbao, PC
<1> QED
  BY <1>1, <1>2, <1>3, QuietKeeps DEF IInv, TypeOK

(* Consuming: nobody holds the right to emit for a decision that was not   *)
(* consumed, so the request that consumes it gets that right alone.        *)
LEMMA ConsumeKeeps ==
    ASSUME IInv, NEW c \in Calls, Consume(c)
    PROVE  IInv'
<1>1. /\ pc[c] = "verify" /\ order[c].authentic
      /\ order[c].decision \in AllowDecisions \ consumed
      /\ consumed' = consumed \cup {order[c].decision}
      /\ UNCHANGED <<order, orders, epoch, openbao, recorded>>
  BY DEF Consume, VerifiedAllow, MarkConsumed
<1>2. CASE order[c].verb # "db.connect"
  BY <1>1, <1>2, RefuseKeeps DEF Consume, Refusals, IInv, TypeOK
<1>3. CASE order[c].verb = "db.connect"
  <2> USE DEF TypeOK, openbao
  <2>1. pc' = [pc EXCEPT ![c] = "issue"] /\ UNCHANGED <<held, reply>>
    BY <1>3 DEF Consume
  <2>2. TypeOK'
    BY <1>1, <2>1 DEF IInv, PC
  <2>3. IssuingIsExclusive'
    BY <1>1, <2>1 DEF IInv, IssuingIsExclusive, Request, LateIsExclusive,
       LeasesAreConsumed
  <2>4. LateIsExclusive' /\ LeasesAreConsumed'
    BY <1>1 DEF IInv, LateIsExclusive, LeasesAreConsumed
  <2>5. HeldIsExclusive' /\ AnswersAreFinal'
    BY <1>1, <2>1 DEF IInv, HeldIsExclusive, AnswersAreFinal
  <2>6. OneLeasePerDecision' /\ RecordedWasIssued' /\ AllowedHoldsItsLease'
    BY <1>1, <2>1 DEF IInv, OneLeasePerDecision, RecordedWasIssued,
       AllowedHoldsItsLease
  <2> QED
    BY <2>2, <2>3, <2>4, <2>5, <2>6 DEF IInv
<1> QED
  BY <1>2, <1>3

(* A lease created on a request that held the right to emit is the only    *)
(* one of its decision and life of the service, and unlike any before it.  *)
LEMMA CreateKeeps ==
    ASSUME IInv, NEW r \in LeaseRequest, Create(r),
           r.epoch <= epoch, r.epoch = epoch => r.decision \in consumed,
           \A l \in leases : ~(l.decision = r.decision /\ l.epoch = r.epoch),
           UNCHANGED <<epoch, consumed>>
    PROVE  /\ leases' \subseteq Lease /\ minted' \in Nat
           /\ LeasesAreConsumed'
           /\ OneLeasePerDecision'
           /\ NewLease(r) \in leases' \ leases
<1> DEFINE n == NewLease(r)
<1>1. /\ n \in Lease /\ n.id = minted + 1
      /\ n.decision = r.decision /\ n.epoch = r.epoch
  BY NewLeaseType DEF IInv, NewLease
<1>2. leases' = leases \cup {n} /\ minted' = minted + 1
  BY DEF Create
<1>3. n \notin leases
  BY <1>1 DEF IInv, LeasesAreConsumed, TypeOK
<1> HIDE DEF n
<1>4. LeasesAreConsumed'
  <2>1. ASSUME NEW l \in leases'
        PROVE  /\ l.id <= minted' /\ l.epoch <= epoch'
               /\ l.epoch = epoch' => l.decision \in consumed'
    <3>1. CASE l \in leases
      BY <1>2, <3>1 DEF IInv, TypeOK, LeasesAreConsumed, Lease
    <3>2. CASE l = n
      BY <1>1, <1>2, <3>2 DEF IInv, TypeOK
    <3> QED
      BY <1>2, <2>1, <3>1, <3>2
  <2> QED
    BY <2>1 DEF LeasesAreConsumed
<1>5. OneLeasePerDecision'
  BY <1>1, <1>2 DEF IInv, OneLeasePerDecision
<1>6. leases' \subseteq Lease /\ minted' \in Nat
  BY <1>1, <1>2 DEF IInv, TypeOK
<1> QED
  BY <1>2, <1>3, <1>4, <1>5, <1>6 DEF n

LEMMA IssueLeaseKeeps ==
    ASSUME IInv, NEW c \in Calls, IssueLease(c)
    PROVE  IInv'
<1> DEFINE r == Request(c)
           n == NewLease(r)
<1>1. /\ pc[c] = "issue" /\ Create(r)
      /\ held' = [held EXCEPT ![c] = n]
      /\ pc' = [pc EXCEPT ![c] = "audit"]
      /\ UNCHANGED <<order, reply, orders, epoch, consumed, late, recorded,
                     revoked>>
  BY DEF IssueLease, Create
<1>2. /\ r \in LeaseRequest
      /\ r.decision = order[c].decision /\ r.epoch = epoch
  BY <1>1, RequestType DEF Request
<1>3. /\ order[c].authentic /\ order[c].decision \in consumed
      /\ r \notin late
      /\ \A l \in leases : ~(l.decision = r.decision /\ l.epoch = r.epoch)
      /\ \A b \in Calls \ {c} :
            pc[b] = "issue" => order[b].decision # order[c].decision
  BY <1>1, <1>2 DEF IInv, IssuingIsExclusive
<1>4. /\ leases' \subseteq Lease /\ minted' \in Nat
      /\ LeasesAreConsumed' /\ OneLeasePerDecision'
      /\ n \in leases' \ leases
  BY <1>1, <1>2, <1>3, CreateKeeps DEF IInv, TypeOK
<1>5. leases' = leases \cup {n} /\ n.decision = r.decision /\ n.epoch = r.epoch
  BY <1>1 DEF Create, NewLease
<1>6. \A q \in late : ~(q.decision = r.decision /\ q.epoch = r.epoch)
  BY <1>2, <1>3 DEF IInv, TypeOK, LeaseRequest
<1> HIDE DEF n, r
<1>7. TypeOK'
  BY <1>1, <1>4 DEF IInv, TypeOK, PC
<1>8. IssuingIsExclusive'
  BY <1>1, <1>2, <1>3, <1>5 DEF IInv, TypeOK, IssuingIsExclusive, Request
<1>9. LateIsExclusive'
  BY <1>1, <1>5, <1>6 DEF IInv, LateIsExclusive
<1>10. HeldIsExclusive'
  BY <1>1, <1>2, <1>3, <1>4, <1>5 DEF IInv, TypeOK, HeldIsExclusive,
     AllowedHoldsItsLease
<1>11. AnswersAreFinal'
  BY <1>1 DEF IInv, TypeOK, AnswersAreFinal
<1>12. RecordedWasIssued' /\ AllowedHoldsItsLease'
  BY <1>1, <1>5 DEF IInv, RecordedWasIssued, AllowedHoldsItsLease
<1> QED
  BY <1>4, <1>7, <1>8, <1>9, <1>10, <1>11, <1>12 DEF IInv

(* The right to emit passes from the request to what OpenBao may still do. *)
LEMMA TimeoutKeeps ==
    ASSUME IInv, NEW c \in Calls, IssueLeaseTimesOut(c)
    PROVE  IInv'
<1> DEFINE r == Request(c)
           answer == [status |-> "unavailable"]
<1>1. /\ pc[c] = "issue" /\ late' = late \cup {r}
      /\ pc' = [pc EXCEPT ![c] = "idle"]
      /\ held' = [held EXCEPT ![c] = NoLease]
      /\ reply' = [reply EXCEPT ![c] = answer]
      /\ UNCHANGED <<order, orders, epoch, consumed, minted, leases, revoked,
                     recorded>>
  BY DEF IssueLeaseTimesOut, Return
<1>2. /\ r \in LeaseRequest
      /\ r.decision = order[c].decision /\ r.epoch = epoch
  BY <1>1, RequestType DEF Request
<1>3. answer \in Answer /\ answer.status # "allowed"
  BY AnswerType
<1>4. /\ order[c].decision \in consumed
      /\ \A l \in leases : ~(l.decision = r.decision /\ l.epoch = r.epoch)
      /\ \A b \in Calls \ {c} :
            pc[b] = "issue" => order[b].decision # order[c].decision
  BY <1>1, <1>2 DEF IInv, IssuingIsExclusive
<1>5. \A b \in Calls \ {c} : pc[b] = "issue" => Request(b) # r
  BY <1>2, <1>4 DEF Request
<1> HIDE DEF r, answer
<1>6. TypeOK'
  BY <1>1, <1>2, <1>3 DEF IInv, TypeOK, PC
<1>7. IssuingIsExclusive'
  BY <1>1, <1>5 DEF IInv, TypeOK, IssuingIsExclusive, Request
<1>8. LateIsExclusive' /\ LeasesAreConsumed'
  BY <1>1, <1>2, <1>4 DEF IInv, TypeOK, LateIsExclusive, LeasesAreConsumed
<1>9. HeldIsExclusive' /\ AnswersAreFinal'
  BY <1>1, <1>3 DEF IInv, TypeOK, HeldIsExclusive, AnswersAreFinal
<1>10. OneLeasePerDecision' /\ RecordedWasIssued' /\ AllowedHoldsItsLease'
  BY <1>1, <1>3 DEF IInv, TypeOK, OneLeasePerDecision, RecordedWasIssued,
     AllowedHoldsItsLease
<1> QED
  BY <1>6, <1>7, <1>8, <1>9, <1>10 DEF IInv

LEMMA LateLeaseKeeps ==
    ASSUME IInv, LateLease
    PROVE  IInv'
<1>1. PICK r \in late : late' = late \ {r} /\ Create(r)
  BY DEF LateLease
<1> DEFINE n == NewLease(r)
<1>2. UNCHANGED <<pc, order, held, reply, orders, epoch, consumed, recorded,
                  revoked>>
  BY DEF LateLease, service, Create
<1>3. /\ r \in LeaseRequest
      /\ r.epoch <= epoch
      /\ r.epoch = epoch => r.decision \in consumed
      /\ \A l \in leases : ~(l.decision = r.decision /\ l.epoch = r.epoch)
  BY DEF IInv, TypeOK, LateIsExclusive
<1>4. /\ leases' \subseteq Lease /\ minted' \in Nat
      /\ LeasesAreConsumed' /\ OneLeasePerDecision'
      /\ n \in leases' \ leases
  BY <1>1, <1>2, <1>3, CreateKeeps
<1>5. leases' = leases \cup {n} /\ n.decision = r.decision /\ n.epoch = r.epoch
  BY <1>1 DEF Create, NewLease
<1>6. \A q \in late' : ~(q.decision = r.decision /\ q.epoch = r.epoch)
  BY <1>1 DEF IInv, TypeOK, LeaseRequest
<1>7. \A c \in Calls : pc[c] = "issue" =>
         ~(r.decision = order[c].decision /\ r.epoch = epoch)
  <2> SUFFICES ASSUME NEW c \in Calls, pc[c] = "issue",
                      r.decision = order[c].decision, r.epoch = epoch
               PROVE  FALSE
    OBVIOUS
  <2>1. Request(c) = r
    BY <1>3 DEF Request, LeaseRequest
  <2> QED
    BY <2>1 DEF IInv, IssuingIsExclusive
<1> HIDE DEF n
<1>8. TypeOK'
  BY <1>1, <1>2, <1>4 DEF IInv, TypeOK
<1>9. IssuingIsExclusive'
  BY <1>1, <1>2, <1>5, <1>7 DEF IInv, IssuingIsExclusive, Request
<1>10. LateIsExclusive'
  BY <1>1, <1>2, <1>5, <1>6 DEF IInv, LateIsExclusive
<1>11. HeldIsExclusive' /\ AnswersAreFinal'
  BY <1>2, <1>5 DEF IInv, HeldIsExclusive, AnswersAreFinal
<1>12. RecordedWasIssued' /\ AllowedHoldsItsLease'
  BY <1>2, <1>5 DEF IInv, RecordedWasIssued, AllowedHoldsItsLease
<1> QED
  BY <1>4, <1>8, <1>9, <1>10, <1>11, <1>12 DEF IInv

(* Sending the event: the lease goes from the request to its answer.       *)
LEMMA AnswerKeeps ==
    ASSUME IInv, NEW c \in Calls, RecordIssued(c) \/ RecordIssuedFails(c)
    PROVE  IInv'
<1> DEFINE answer == [status |-> "allowed", lease |-> held[c]]
<1>1. /\ pc[c] = "audit"
      /\ pc' = [pc EXCEPT ![c] = "idle"]
      /\ held' = [held EXCEPT ![c] = NoLease]
      /\ reply' = [reply EXCEPT ![c] = answer]
      /\ recorded' \subseteq recorded \cup {held[c]}
      /\ UNCHANGED <<order, orders, epoch, consumed, openbao>>
  BY DEF RecordIssued, RecordIssuedFails, Return
<1>2. /\ held[c] \in leases /\ held[c].decision = order[c].decision
      /\ order[c].authentic
      /\ \A b \in Calls \ {c} :
            /\ pc[b] = "audit" => held[b] # held[c]
            /\ reply[b].status = "allowed" => reply[b].lease # held[c]
  BY <1>1 DEF IInv, HeldIsExclusive
<1>3. answer \in Answer /\ answer.status = "allowed" /\ answer.lease = held[c]
  BY <1>2, AnswerType DEF IInv, TypeOK
<1> HIDE DEF answer
<1> USE DEF openbao
<1>4. TypeOK'
  BY <1>1, <1>2, <1>3 DEF IInv, TypeOK, PC
<1>5. IssuingIsExclusive' /\ LateIsExclusive' /\ LeasesAreConsumed'
  BY <1>1 DEF IInv, TypeOK, IssuingIsExclusive, Request, LateIsExclusive,
     LeasesAreConsumed
<1>6. HeldIsExclusive' /\ AnswersAreFinal'
  BY <1>1, <1>2, <1>3 DEF IInv, TypeOK, HeldIsExclusive, AnswersAreFinal
<1>7. OneLeasePerDecision' /\ RecordedWasIssued'
  BY <1>1, <1>2 DEF IInv, OneLeasePerDecision, RecordedWasIssued
<1>8. AllowedHoldsItsLease'
  BY <1>1, <1>2, <1>3 DEF IInv, TypeOK, AllowedHoldsItsLease
<1> QED
  BY <1>4, <1>5, <1>6, <1>7, <1>8 DEF IInv

(* A restart forgets what was consumed; leases and requests of the lives   *)
(* before it are told apart by their epoch.                                *)
LEMMA RestartKeeps ==
    ASSUME IInv, Restart
    PROVE  IInv'
<1> DEFINE waiting == {k \in Calls : pc[k] = "issue"}
<1>1. /\ epoch' = epoch + 1 /\ consumed' = {}
      /\ pc' = [c \in Calls |-> "idle"]
      /\ held' = [c \in Calls |-> NoLease]
      /\ reply' = [c \in Calls |-> IF pc[c] = "idle" THEN reply[c]
                                   ELSE [status |-> "none"]]
      /\ late' = late \cup {Request(c) : c \in waiting}
      /\ UNCHANGED <<order, orders, minted, leases, revoked, recorded>>
  BY DEF Restart
<1>2. \A c \in waiting :
        /\ Request(c) \in LeaseRequest
        /\ Request(c).decision = order[c].decision
        /\ Request(c).epoch = epoch
  BY RequestType DEF Request
<1>3. epoch \in Nat
  BY DEF IInv, TypeOK
<1>3a. epoch' = epoch + 1 /\ leases' = leases
  BY <1>1
<1>4. TypeOK'
  BY <1>1, <1>2, <1>3, AnswerType DEF IInv, TypeOK, PC
<1>5. IssuingIsExclusive' /\ HeldIsExclusive' /\ AnswersAreFinal'
  BY <1>1 DEF IssuingIsExclusive, HeldIsExclusive, AnswersAreFinal
<1>6. LateIsExclusive'
  <2> SUFFICES ASSUME NEW r \in late'
               PROVE  /\ r.epoch <= epoch'
                      /\ r.epoch = epoch' => r.decision \in consumed'
                      /\ \A l \in leases' :
                            ~(l.decision = r.decision /\ l.epoch = r.epoch)
    BY DEF LateIsExclusive
  <2>1. CASE r \in late
    <3>1. LateIsExclusive /\ r \in LeaseRequest
      BY <2>1 DEF IInv, TypeOK
    <3>2. /\ r.epoch <= epoch /\ r.epoch \in Nat
          /\ \A l \in leases :
                ~(l.decision = r.decision /\ l.epoch = r.epoch)
      BY <2>1, <3>1 DEF LateIsExclusive, LeaseRequest
    <3>3. r.epoch < epoch'
      BY <1>3, <1>3a, <3>2
    <3> QED
      BY <1>3, <1>3a, <3>2, <3>3
  <2>2. CASE \E c \in waiting : r = Request(c)
    <3>1. /\ r.epoch = epoch
          /\ \A l \in leases :
                ~(l.decision = r.decision /\ l.epoch = r.epoch)
      BY <1>2, <2>2 DEF IInv, IssuingIsExclusive
    <3> QED
      BY <1>3, <1>3a, <3>1
  <2> QED
    BY <1>1, <2>1, <2>2
<1>7. LeasesAreConsumed'
  BY <1>1, <1>3 DEF IInv, TypeOK, Lease, LeasesAreConsumed
<1>8. OneLeasePerDecision' /\ RecordedWasIssued' /\ AllowedHoldsItsLease'
  BY <1>1 DEF IInv, OneLeasePerDecision, RecordedWasIssued,
     AllowedHoldsItsLease
<1> QED
  BY <1>4, <1>5, <1>6, <1>7, <1>8 DEF IInv

LEMMA StepIInv == IInv /\ [Next]_vars => IInv'
<1> SUFFICES ASSUME IInv, [Next]_vars PROVE IInv'
  OBVIOUS
<1> USE DEF Refusals
<1>1. CASE UNCHANGED vars
  BY <1>1 DEF vars, service, openbao, IInv, TypeOK, IssuingIsExclusive,
     Request, LateIsExclusive, LeasesAreConsumed, HeldIsExclusive,
     AnswersAreFinal, OneLeasePerDecision, AllowedHoldsItsLease,
     RecordedWasIssued
<1>2. ASSUME NEW c \in Calls, Emit(c) PROVE IInv'
  BY <1>2, EmitKeeps
<1>3. ASSUME NEW c \in Calls, DecisionRefused(c) PROVE IInv'
  BY <1>3, RefuseKeeps DEF DecisionRefused, IInv, TypeOK
<1>4. ASSUME NEW c \in Calls, Replayed(c) PROVE IInv'
  BY <1>4, RefuseKeeps DEF Replayed, IInv, TypeOK
<1>5. ASSUME NEW c \in Calls, Consume(c) PROVE IInv'
  BY <1>5, ConsumeKeeps
<1>6. ASSUME NEW c \in Calls, IssueLease(c) PROVE IInv'
  BY <1>6, IssueLeaseKeeps
<1>7. ASSUME NEW c \in Calls, IssueLeaseFails(c) PROVE IInv'
  BY <1>7, RefuseKeeps DEF IssueLeaseFails, IInv, TypeOK
<1>8. ASSUME NEW c \in Calls, IssueLeaseTimesOut(c) PROVE IInv'
  BY <1>8, TimeoutKeeps
<1>9. ASSUME NEW c \in Calls, RecordIssued(c) \/ RecordIssuedFails(c)
      PROVE IInv'
  BY <1>9, AnswerKeeps
<1>10. ASSUME NEW c \in Calls, VerifyFails(c) PROVE IInv'
  BY <1>10, RefuseKeeps DEF VerifyFails, IInv, TypeOK
<1>11. ASSUME NEW l \in Known, Revoke(l) PROVE IInv'
  <2>1. l \in Lease
    BY <1>11 DEF Known, IInv, TypeOK, AllowedHoldsItsLease
  <2> USE <1>11 DEF Revoke, service
  <2>2. TypeOK'
    BY <2>1 DEF IInv, TypeOK
  <2>3. IssuingIsExclusive' /\ HeldIsExclusive' /\ AnswersAreFinal'
    BY DEF IInv, IssuingIsExclusive, Request, HeldIsExclusive, AnswersAreFinal
  <2>4. LateIsExclusive' /\ LeasesAreConsumed'
    BY DEF IInv, LateIsExclusive, LeasesAreConsumed
  <2>5. OneLeasePerDecision' /\ AllowedHoldsItsLease' /\ RecordedWasIssued'
    BY DEF IInv, OneLeasePerDecision, AllowedHoldsItsLease, RecordedWasIssued
  <2> QED
    BY <2>2, <2>3, <2>4, <2>5 DEF IInv
<1>12. CASE LateLease
  BY <1>12, LateLeaseKeeps
<1>13. CASE LateDropped
  <2> USE <1>13 DEF LateDropped, service
  <2>1. TypeOK'
    BY DEF IInv, TypeOK
  <2>2. IssuingIsExclusive' /\ HeldIsExclusive' /\ AnswersAreFinal'
    BY DEF IInv, IssuingIsExclusive, Request, HeldIsExclusive, AnswersAreFinal
  <2>3. LateIsExclusive' /\ LeasesAreConsumed'
    BY DEF IInv, LateIsExclusive, LeasesAreConsumed
  <2>4. OneLeasePerDecision' /\ AllowedHoldsItsLease' /\ RecordedWasIssued'
    BY DEF IInv, OneLeasePerDecision, AllowedHoldsItsLease, RecordedWasIssued
  <2> QED
    BY <2>1, <2>2, <2>3, <2>4 DEF IInv
<1>14. CASE Restart
  BY <1>14, RestartKeeps
<1> QED
  BY <1>1, <1>2, <1>3, <1>4, <1>5, <1>6, <1>7, <1>8, <1>9, <1>10, <1>11,
     <1>12, <1>13, <1>14 DEF Next, Step, Quiescent

LEMMA Invariant == Spec => []IInv
BY InitIInv, StepIInv, PTL DEF Spec

-----------------------------------------------------------------------------
(* Every variable keeps its type; in particular only ALLOW decisions are   *)
(* ever consumed (issuer.go:71-73).                                        *)
THEOREM TypeCorrect == Spec => []TypeOK
<1>1. IInv => TypeOK
  BY DEF IInv
<1> QED
  BY <1>1, Invariant, PTL

(* Within one life of the service, a decision yields at most one lease     *)
(* (issuer.go Emit, consumed_decisions.go MarkConsumed).                   *)
THEOREM SingleEmission == Spec => []OneLeasePerDecision
<1>1. IInv => OneLeasePerDecision
  BY DEF IInv
<1> QED
  BY <1>1, Invariant, PTL

(* A request answered allowed names an existing lease of its own decision  *)
(* that no other request was given (issuer.go:122-128).                    *)
THEOREM AllowedAreIssued == Spec => []AllowedHoldsItsLease
<1>1. IInv => AllowedHoldsItsLease
  BY DEF IInv
<1> QED
  BY <1>1, Invariant, PTL

(* Only leases that exist have a credential.issued event                   *)
(* (issuer.go:87-89).                                                      *)
THEOREM RecordedAreIssued == Spec => []RecordedWasIssued
<1>1. IInv => RecordedWasIssued
  BY DEF IInv
<1> QED
  BY <1>1, Invariant, PTL
=============================================================================
