-------------------------- MODULE AccessFlowProofs --------------------------
(***************************************************************************)
(* Proofs about AccessFlow, for any number of requests, any bodies and any *)
(* number of restarts: the composition implements CredentialIssuer, whose  *)
(* theorems therefore hold in it, and no lease exists that the body of its *)
(* request, the approvals and the policy do not justify.                   *)
(***************************************************************************)
EXTENDS AccessFlow, TLAPS

(* credential-issuer as it is proved about on its own.                     *)
Proved == INSTANCE CredentialIssuerProofs WITH
             Calls <- AccessRequests,
             Decisions <- Decision,
             AllowDecisions <- {d \in Decision : d.effect = "ALLOW"},
             MaxOrders <- Cardinality(AccessRequests)

-----------------------------------------------------------------------------
(* The broker has not sent the order of a request at these steps.          *)
Unsent == {"new", "requester", "approvals", "record", "emit"}

HttpAnswer ==
    [status : {"none", "bad_request", "unauthorized", "bad_gateway", "lost"}]
      \cup [status : {"ok"}, allowed : BOOLEAN,
            lease : Issuer!Lease \cup {Issuer!NoLease}]

BrokerTypeOK ==
    /\ body \in [AccessRequests -> AccessRequest]
    /\ step \in [AccessRequests -> Unsent \cup {"await", "done"}]
    /\ signed \in [AccessRequests -> Decision \cup {NoDecision}]
    /\ response \in [AccessRequests -> HttpAnswer]

Justified(r) == Justifies(body[r])

(* The request has no lease, and OpenBao has none to create for it.        *)
NoTrace(r) ==
    /\ \A l \in leases : l.decision.request # r
    /\ \A q \in late : q.decision.request # r

Untouched(r) ==
    /\ pc[r] = "idle"
    /\ reply[r].status = "none"
    /\ NoTrace(r)

(* What the handler has established when it reaches a step.                *)
HandlerKnows ==
    \A r \in AccessRequests :
        /\ step[r] = "approvals" => body[r].valid /\ body[r].short
        /\ step[r] \in {"record", "emit"} =>
              /\ signed[r] \in Decision
              /\ signed[r].request = r
              /\ signed[r].effect = "ALLOW" => Justified(r)
        /\ step[r] = "emit" => signed[r].effect = "ALLOW"

(* An order comes from the request whose decision it carries.              *)
OrdersAreOwn ==
    \A r \in AccessRequests : order[r].authentic =>
        /\ order[r].decision.request = r
        /\ Justified(r)

(* Until the order is sent, credential-issuer knows nothing of a request.  *)
UnsentIsUntouched ==
    \A r \in AccessRequests : step[r] \in Unsent => Untouched(r)

(* The right to a lease for a request is held once: by the order that      *)
(* credential-issuer is handling, by a request OpenBao may still act on,   *)
(* or by the lease.                                                        *)
RightIsHeldOnce ==
    /\ \A r \in AccessRequests : pc[r] \in {"verify", "issue"} => NoTrace(r)
    /\ \A q \in late :
          /\ Justified(q.decision.request)
          /\ \A l \in leases : l.decision.request # q.decision.request
          /\ \A p \in late : p.decision.request = q.decision.request => p = q
    /\ \A l \in leases : Justified(l.decision.request)
    /\ OneLeasePerRequest

(* An answer is final, and a refusal was given before any order was sent.  *)
AnswersAreHonest ==
    \A r \in AccessRequests : response[r].status = "ok" =>
        /\ step[r] = "done"
        /\ response[r].lease # Issuer!NoLease =>
              /\ response[r].allowed
              /\ response[r].lease \in leases
              /\ response[r].lease.decision.request = r
        /\ ~response[r].allowed => Untouched(r)

(* The invariant of the broker; with that of credential-issuer             *)
(* (Proved!IInv) it is inductive.                                          *)
FlowInv ==
    /\ BrokerTypeOK
    /\ HandlerKnows
    /\ OrdersAreOwn
    /\ UnsentIsUntouched
    /\ RightIsHeldOnce
    /\ AnswersAreHonest
IndInv == Proved!IInv /\ FlowInv
-----------------------------------------------------------------------------
(* A step of the flow is a step of credential-issuer, or leaves it alone.  *)
LEMMA FlowStep ==
    ASSUME [Next]_vars
    PROVE  [Issuer!Next]_(Issuer!vars)
<1> USE DEF issuer, Issuer!vars, Issuer!service, Issuer!openbao
<1>1. CASE UNCHANGED vars
  BY <1>1 DEF vars
<1>2. ASSUME NEW r \in AccessRequests, Submit(r) \/ Malformed(r)
      PROVE  UNCHANGED Issuer!vars
  BY <1>2 DEF Submit, Malformed
<1>3. ASSUME NEW r \in AccessRequests, Handle(r)
      PROVE  UNCHANGED Issuer!vars \/ Issuer!Emit(r)
  BY <1>3, Zenon DEF Handle, VerifyRequester, Decide, CallFails, RecordDecided,
     RecordDecidedFails, EmitOrder, EmitAnswered, EmitLost
<1>4. ASSUME BrokerStops \/ AllDone
      PROVE  UNCHANGED Issuer!vars
  BY <1>4 DEF BrokerStops, AllDone, vars
<1>5. ASSUME NEW r \in AccessRequests, IssuerWorks(r)
      PROVE  Issuer!Step(r)
  BY <1>5 DEF IssuerWorks
<1>6. ASSUME OpenBaoLate \/ IssuerRestarts
      PROVE  Issuer!LateLease \/ Issuer!LateDropped \/ Issuer!Restart
  BY <1>6 DEF OpenBaoLate, IssuerRestarts
<1> HIDE DEF issuer, Issuer!vars, Issuer!service, Issuer!openbao
<1> QED
  BY <1>1, <1>2, <1>3, <1>4, <1>5, <1>6 DEF Next, Issuer!Next

LEMMA IssuerInit == Issuer!Init => Proved!Init
BY DEF Issuer!Init, Proved!Init, Issuer!NoLease, Proved!NoLease

LEMMA IssuerStep ==
    ASSUME [Issuer!Next]_(Issuer!vars)
    PROVE  [Proved!Next]_(Proved!vars)
<1> USE DEF Issuer!service, Proved!service, Issuer!openbao, Proved!openbao,
            Issuer!NoLease, Proved!NoLease, Issuer!Return, Proved!Return,
            Issuer!Request, Proved!Request, Issuer!NewLease, Proved!NewLease,
            Issuer!Create, Proved!Create
<1>1. ASSUME NEW r \in AccessRequests, Issuer!Emit(r) PROVE Proved!Emit(r)
  BY <1>1, Zenon DEF Issuer!Emit, Proved!Emit, Issuer!EmissionOrder,
     Proved!EmissionOrder, Issuer!Verbs, Proved!Verbs
<1>2. ASSUME NEW r \in AccessRequests,
             \/ Issuer!DecisionRefused(r) \/ Issuer!Replayed(r)
             \/ Issuer!Consume(r) \/ Issuer!VerifyFails(r)
      PROVE  Proved!Step(r)
  <2> USE DEF Issuer!VerifiedAllow, Proved!VerifiedAllow,
              Issuer!MarkConsumed, Proved!MarkConsumed
  <2>1. CASE Issuer!DecisionRefused(r)
    BY <2>1 DEF Issuer!DecisionRefused, Proved!DecisionRefused, Proved!Step
  <2>2. CASE Issuer!Replayed(r)
    BY <2>2 DEF Issuer!Replayed, Proved!Replayed, Proved!Step
  <2>3. CASE Issuer!Consume(r)
    BY <2>3 DEF Issuer!Consume, Proved!Consume, Proved!Step
  <2>4. CASE Issuer!VerifyFails(r)
    BY <2>4 DEF Issuer!VerifyFails, Proved!VerifyFails, Proved!Step
  <2> QED
    BY <1>2, <2>1, <2>2, <2>3, <2>4
<1>3. ASSUME NEW r \in AccessRequests,
             \/ Issuer!IssueLease(r) \/ Issuer!IssueLeaseFails(r)
             \/ Issuer!IssueLeaseTimesOut(r)
             \/ Issuer!RecordIssued(r) \/ Issuer!RecordIssuedFails(r)
      PROVE  Proved!Step(r)
  <2>1. CASE Issuer!IssueLease(r)
    BY <2>1 DEF Issuer!IssueLease, Proved!IssueLease, Proved!Step
  <2>2. CASE Issuer!IssueLeaseFails(r)
    BY <2>2 DEF Issuer!IssueLeaseFails, Proved!IssueLeaseFails, Proved!Step
  <2>3. CASE Issuer!IssueLeaseTimesOut(r)
    BY <2>3 DEF Issuer!IssueLeaseTimesOut, Proved!IssueLeaseTimesOut,
       Proved!Step
  <2>4. CASE Issuer!RecordIssued(r)
    BY <2>4 DEF Issuer!RecordIssued, Proved!RecordIssued, Proved!Step
  <2>5. CASE Issuer!RecordIssuedFails(r)
    BY <2>5 DEF Issuer!RecordIssuedFails, Proved!RecordIssuedFails, Proved!Step
  <2> QED
    BY <1>3, <2>1, <2>2, <2>3, <2>4, <2>5
<1>4. Issuer!LateLease => Proved!LateLease
  BY DEF Issuer!LateLease, Proved!LateLease
<1>5. Issuer!LateDropped => Proved!LateDropped
  BY DEF Issuer!LateDropped, Proved!LateDropped
<1>6. Issuer!Restart => Proved!Restart
  BY DEF Issuer!Restart, Proved!Restart
<1>7. Issuer!Quiescent => Proved!Quiescent
  BY DEF Issuer!Quiescent, Proved!Quiescent, Issuer!vars, Proved!vars
<1>8. ASSUME NEW l \in Issuer!Known, Issuer!Revoke(l)
      PROVE  l \in Proved!Known /\ Proved!Revoke(l)
  BY <1>8 DEF Issuer!Known, Proved!Known, Issuer!Revoke, Proved!Revoke
<1>9. UNCHANGED Issuer!vars => UNCHANGED Proved!vars
  BY DEF Issuer!vars, Proved!vars
<1> HIDE DEF Issuer!service, Proved!service, Issuer!openbao, Proved!openbao,
            Issuer!NoLease, Proved!NoLease, Issuer!Return, Proved!Return,
            Issuer!Request, Proved!Request, Issuer!NewLease, Proved!NewLease,
            Issuer!Create, Proved!Create
<1> QED
  BY <1>1, <1>2, <1>3, <1>4, <1>5, <1>6, <1>7, <1>8, <1>9
     DEF Issuer!Next, Issuer!Step, Proved!Next

(* The flow implements credential-issuer: nothing the broker does to it is *)
(* other than an order it may receive.                                     *)
THEOREM FlowImplementsIssuer == Spec => Issuer!Spec
<1>1. Init => Issuer!Init
  BY DEF Init
<1>2. [Next]_vars => [Issuer!Next]_(Issuer!vars)
  BY FlowStep
<1> QED
  BY <1>1, <1>2, PTL DEF Spec, Issuer!Spec

-----------------------------------------------------------------------------
(* What the flow takes from the invariant of credential-issuer.            *)
LEMMA IssuerFacts ==
    ASSUME IndInv
    PROVE  /\ pc \in [AccessRequests -> {"idle", "verify", "issue", "audit"}]
           /\ reply \in [AccessRequests -> Proved!Answer]
           /\ order \in [AccessRequests -> Proved!EmissionOrder]
           /\ leases \subseteq Proved!Lease
           /\ late \subseteq Proved!LeaseRequest
           /\ \A r \in AccessRequests :
                 pc[r] \in {"issue", "audit"} => order[r].authentic
           /\ \A r \in AccessRequests : reply[r].status = "allowed" =>
                 /\ order[r].authentic
                 /\ reply[r].lease \in leases
                 /\ reply[r].lease.decision = order[r].decision
BY DEF IndInv, Proved!IInv, Proved!TypeOK, Proved!PC,
   Proved!IssuingIsExclusive, Proved!HeldIsExclusive,
   Proved!AllowedHoldsItsLease

(* A step that leaves the broker and the orders alone.                     *)
LEMMA BrokerKeeps ==
    ASSUME FlowInv, UNCHANGED <<order, body, step, signed, response>>
    PROVE  /\ BrokerTypeOK' /\ HandlerKnows' /\ OrdersAreOwn'
           /\ \A r : Justified(r) => Justified(r)'
<1>1. BrokerTypeOK'
  BY DEF FlowInv, BrokerTypeOK
<1>2. \A r : Justified(r) => Justified(r)'
  BY DEF Justified
<1>3. HandlerKnows' /\ OrdersAreOwn'
  BY <1>2 DEF FlowInv, HandlerKnows, OrdersAreOwn
<1> QED
  BY <1>1, <1>2, <1>3

(* A request of credential-issuer moves on, and no lease is involved.      *)
LEMMA QuietKeeps ==
    ASSUME IndInv, NEW c \in AccessRequests, pc[c] # "idle",
           NEW p, pc' = [pc EXCEPT ![c] = p],
           p \in {"verify", "issue"} => pc[c] \in {"verify", "issue"},
           NEW a, reply' = [reply EXCEPT ![c] = a],
           UNCHANGED <<order, leases, late, body, step, signed, response>>
    PROVE  FlowInv'
<1> USE IssuerFacts DEF IndInv, FlowInv
<1>1. BrokerTypeOK' /\ HandlerKnows' /\ OrdersAreOwn'
  BY BrokerKeeps
<1>2. \A r \in AccessRequests : Untouched(r) => Untouched(r)'
  BY DEF Untouched, NoTrace
<1>3. UnsentIsUntouched' /\ AnswersAreHonest'
  BY <1>2 DEF UnsentIsUntouched, AnswersAreHonest
<1>4. RightIsHeldOnce'
  BY BrokerKeeps DEF RightIsHeldOnce, NoTrace, OneLeasePerRequest
<1> QED
  BY <1>1, <1>3, <1>4

(* OpenBao creates the lease of an order: it goes from credential-issuer   *)
(* to the lease.                                                           *)
LEMMA IssueKeeps ==
    ASSUME IndInv, NEW c \in AccessRequests, pc[c] = "issue",
           pc' = [pc EXCEPT ![c] = "audit"],
           NEW n, n.decision = order[c].decision, leases' = leases \cup {n},
           UNCHANGED <<order, reply, late, body, step, signed, response>>
    PROVE  FlowInv'
<1> USE IssuerFacts DEF IndInv, FlowInv
<1>1. n.decision.request = c /\ Justified(c) /\ NoTrace(c)
  BY DEF OrdersAreOwn, RightIsHeldOnce
<1>2. BrokerTypeOK' /\ HandlerKnows' /\ OrdersAreOwn'
  BY BrokerKeeps
<1>3. \A r \in AccessRequests \ {c} : NoTrace(r) => NoTrace(r)'
  BY <1>1 DEF NoTrace
<1>4. \A r \in AccessRequests : Untouched(r) => Untouched(r)'
  BY <1>3 DEF Untouched
<1>5. UnsentIsUntouched' /\ AnswersAreHonest'
  BY <1>4 DEF UnsentIsUntouched, AnswersAreHonest
<1>6. RightIsHeldOnce'
  <2>1. \A r : Justified(r) => Justified(r)'
    BY BrokerKeeps
  <2>2. \A r \in AccessRequests : pc'[r] \in {"verify", "issue"} => NoTrace(r)'
    BY <1>3 DEF RightIsHeldOnce
  <2>3. \A q \in late : q.decision.request # c
    BY <1>1 DEF NoTrace
  <2>4. \A l \in leases : l.decision.request # c
    BY <1>1 DEF NoTrace
  <2>5. \A q \in late' :
           /\ Justified(q.decision.request)'
           /\ \A l \in leases' : l.decision.request # q.decision.request
           /\ \A p \in late' : p.decision.request = q.decision.request => p = q
    BY <1>1, <2>1, <2>3 DEF RightIsHeldOnce
  <2>6. \A l \in leases' : Justified(l.decision.request)'
    BY <1>1, <2>1 DEF RightIsHeldOnce
  <2>7. OneLeasePerRequest'
    BY <1>1, <2>4 DEF RightIsHeldOnce, OneLeasePerRequest
  <2> QED
    BY <2>2, <2>5, <2>6, <2>7 DEF RightIsHeldOnce
<1> QED
  BY <1>2, <1>5, <1>6

(* The answer of OpenBao is not awaited: the right goes to what it may     *)
(* still do.                                                               *)
LEMMA TimeoutKeeps ==
    ASSUME IndInv, NEW c \in AccessRequests, pc[c] = "issue",
           pc' = [pc EXCEPT ![c] = "idle"],
           NEW q, q.decision = order[c].decision, late' = late \cup {q},
           NEW a, reply' = [reply EXCEPT ![c] = a],
           UNCHANGED <<order, leases, body, step, signed, response>>
    PROVE  FlowInv'
<1> USE IssuerFacts DEF IndInv, FlowInv
<1>1. q.decision.request = c /\ Justified(c) /\ NoTrace(c)
  BY DEF OrdersAreOwn, RightIsHeldOnce
<1>2. BrokerTypeOK' /\ HandlerKnows' /\ OrdersAreOwn'
  BY BrokerKeeps
<1>3. \A r \in AccessRequests \ {c} : NoTrace(r) => NoTrace(r)'
  BY <1>1 DEF NoTrace
<1>4. \A r \in AccessRequests : Untouched(r) => Untouched(r)'
  BY <1>3 DEF Untouched
<1>5. UnsentIsUntouched' /\ AnswersAreHonest'
  BY <1>4 DEF UnsentIsUntouched, AnswersAreHonest
<1>6. RightIsHeldOnce'
  <2>1. \A r : Justified(r) => Justified(r)'
    BY BrokerKeeps
  <2>2. \A r \in AccessRequests : pc'[r] \in {"verify", "issue"} => NoTrace(r)'
    BY <1>3 DEF RightIsHeldOnce
  <2>3. /\ \A p \in late : p.decision.request # c
        /\ \A l \in leases : l.decision.request # c
    BY <1>1 DEF NoTrace
  <2>4. \A p \in late' :
           /\ Justified(p.decision.request)'
           /\ \A l \in leases' : l.decision.request # p.decision.request
           /\ \A s \in late' : s.decision.request = p.decision.request => s = p
    BY <1>1, <2>1, <2>3 DEF RightIsHeldOnce
  <2>5. \A l \in leases' : Justified(l.decision.request)'
    BY <2>1 DEF RightIsHeldOnce
  <2>6. OneLeasePerRequest'
    BY DEF RightIsHeldOnce, OneLeasePerRequest
  <2> QED
    BY <2>2, <2>4, <2>5, <2>6 DEF RightIsHeldOnce
<1> QED
  BY <1>2, <1>5, <1>6

(* OpenBao acts on a request nobody awaits, or drops it.                   *)
LEMMA LateKeeps ==
    ASSUME IndInv, NEW q \in late, late' = late \ {q},
           NEW n, n.decision = q.decision,
           leases' = leases \/ leases' = leases \cup {n},
           UNCHANGED <<pc, order, reply, body, step, signed, response>>
    PROVE  FlowInv'
<1> USE IssuerFacts DEF IndInv, FlowInv
<1>1. BrokerTypeOK' /\ HandlerKnows' /\ OrdersAreOwn'
  BY BrokerKeeps
<1>2. \A r \in AccessRequests : NoTrace(r) => NoTrace(r)'
  BY DEF NoTrace
<1>3. \A r \in AccessRequests : Untouched(r) => Untouched(r)'
  BY <1>2 DEF Untouched
<1>4. UnsentIsUntouched' /\ AnswersAreHonest'
  BY <1>3 DEF UnsentIsUntouched, AnswersAreHonest
<1>5. RightIsHeldOnce'
  <2>1. \A r : Justified(r) => Justified(r)'
    BY BrokerKeeps
  <2>2. \A r \in AccessRequests : pc'[r] \in {"verify", "issue"} => NoTrace(r)'
    BY <1>2 DEF RightIsHeldOnce
  <2>3. /\ Justified(q.decision.request)
        /\ \A l \in leases : l.decision.request # q.decision.request
        /\ \A p \in late : p.decision.request = q.decision.request => p = q
    BY DEF RightIsHeldOnce
  <2>4. \A p \in late' :
           /\ Justified(p.decision.request)'
           /\ \A l \in leases' : l.decision.request # p.decision.request
           /\ \A s \in late' : s.decision.request = p.decision.request => s = p
    BY <2>1, <2>3 DEF RightIsHeldOnce
  <2>5. \A l \in leases' : Justified(l.decision.request)'
    BY <2>1, <2>3 DEF RightIsHeldOnce
  <2>6. OneLeasePerRequest'
    BY <2>3 DEF RightIsHeldOnce, OneLeasePerRequest
  <2> QED
    BY <2>2, <2>4, <2>5, <2>6 DEF RightIsHeldOnce
<1> QED
  BY <1>1, <1>4, <1>5

(* A restart of credential-issuer: what it was waiting for becomes what    *)
(* OpenBao may still do.                                                   *)
LEMMA RestartKeeps ==
    ASSUME IndInv, Issuer!Restart, UNCHANGED <<body, step, signed, response>>
    PROVE  FlowInv'
<1> USE IssuerFacts DEF IndInv, FlowInv
<1> DEFINE waiting == {k \in AccessRequests : pc[k] = "issue"}
           sent == {Issuer!Request(c) : c \in waiting}
<1>1. /\ pc' = [c \in AccessRequests |-> "idle"]
      /\ reply' = [c \in AccessRequests |->
                      IF pc[c] = "idle" THEN reply[c] ELSE [status |-> "none"]]
      /\ late' = late \cup sent
      /\ UNCHANGED <<order, leases>>
  BY DEF Issuer!Restart
<1>2. \A q \in sent : \E c \in waiting :
         /\ q = Issuer!Request(c)
         /\ q.decision.request = c /\ Justified(c) /\ NoTrace(c)
  BY DEF Issuer!Request, OrdersAreOwn, RightIsHeldOnce
<1> HIDE DEF sent
<1>3. BrokerTypeOK' /\ HandlerKnows' /\ OrdersAreOwn'
  BY <1>1, BrokerKeeps
<1>4. \A r \in AccessRequests : pc[r] = "idle" /\ NoTrace(r) => NoTrace(r)'
  BY <1>1, <1>2 DEF NoTrace
<1>5. \A r \in AccessRequests : Untouched(r) => Untouched(r)'
  BY <1>1, <1>4 DEF Untouched
<1>6. UnsentIsUntouched' /\ AnswersAreHonest'
  BY <1>1, <1>5 DEF UnsentIsUntouched, AnswersAreHonest
<1>7. RightIsHeldOnce'
  <2>1. \A r : Justified(r) => Justified(r)'
    BY <1>1, BrokerKeeps
  <2>2. \A q \in late' : Justified(q.decision.request)'
    BY <1>1, <1>2, <2>1 DEF RightIsHeldOnce
  <2>3. \A q \in late', l \in leases' :
           l.decision.request # q.decision.request
    BY <1>1, <1>2 DEF RightIsHeldOnce, NoTrace
  <2>4. \A q, p \in late' : p.decision.request = q.decision.request => p = q
    BY <1>1, <1>2 DEF RightIsHeldOnce, NoTrace
  <2>5. \A l \in leases' : Justified(l.decision.request)'
    BY <1>1, <2>1 DEF RightIsHeldOnce
  <2>6. OneLeasePerRequest'
    BY <1>1 DEF RightIsHeldOnce, OneLeasePerRequest
  <2> QED
    BY <1>1, <2>2, <2>3, <2>4, <2>5, <2>6 DEF RightIsHeldOnce
<1> QED
  BY <1>3, <1>6, <1>7

(* What credential-issuer and OpenBao do by themselves.                    *)
LEMMA IssuerWorksKeeps ==
    ASSUME IndInv, NEW c \in AccessRequests, IssuerWorks(c)
    PROVE  FlowInv'
<1>1. UNCHANGED <<body, step, signed, response>>
  BY DEF IssuerWorks, broker
<1> USE <1>1 DEF Issuer!openbao, Issuer!service, Issuer!Return
<1>2. CASE Issuer!DecisionRefused(c)
  BY <1>2, QuietKeeps DEF Issuer!DecisionRefused
<1>3. CASE Issuer!Replayed(c)
  BY <1>3, QuietKeeps, Zenon DEF Issuer!Replayed, Issuer!VerifiedAllow
<1>4. CASE Issuer!Consume(c)
  <2>1. pc[c] = "verify" /\ UNCHANGED <<order, leases, late>>
    BY <1>4 DEF Issuer!Consume, Issuer!VerifiedAllow
  <2>2. CASE order[c].verb = "db.connect"
    <3>1. pc' = [pc EXCEPT ![c] = "issue"] /\ reply' = reply
      BY <1>4, <2>2 DEF Issuer!Consume
    <3>2. reply' = [reply EXCEPT ![c] = reply[c]]
      BY <3>1, IssuerFacts
    <3> QED
      BY <2>1, <3>1, <3>2, QuietKeeps, Zenon
  <2>3. CASE order[c].verb # "db.connect"
    BY <1>4, <2>1, <2>3, QuietKeeps DEF Issuer!Consume
  <2> QED
    BY <2>2, <2>3
<1>5. CASE Issuer!IssueLease(c)
  BY <1>5, IssueKeeps, Zenon
     DEF Issuer!IssueLease, Issuer!Create, Issuer!NewLease, Issuer!Request
<1>6. CASE Issuer!IssueLeaseFails(c)
  BY <1>6, QuietKeeps, Zenon DEF Issuer!IssueLeaseFails
<1>7. CASE Issuer!IssueLeaseTimesOut(c)
  BY <1>7, TimeoutKeeps, Zenon DEF Issuer!IssueLeaseTimesOut, Issuer!Request
<1>8. CASE Issuer!RecordIssued(c) \/ Issuer!RecordIssuedFails(c)
  BY <1>8, QuietKeeps DEF Issuer!RecordIssued, Issuer!RecordIssuedFails
<1>9. CASE Issuer!VerifyFails(c)
  BY <1>9, QuietKeeps, Zenon DEF Issuer!VerifyFails
<1> HIDE DEF Issuer!openbao, Issuer!service, Issuer!Return
<1> QED
  BY <1>2, <1>3, <1>4, <1>5, <1>6, <1>7, <1>8, <1>9
     DEF IssuerWorks, Issuer!Step

LEMMA OpenBaoKeeps ==
    ASSUME IndInv, OpenBaoLate \/ IssuerRestarts
    PROVE  FlowInv'
<1>1. UNCHANGED <<body, step, signed, response>>
  BY DEF OpenBaoLate, IssuerRestarts, broker
<1> USE <1>1 DEF Issuer!service
<1>2. CASE Issuer!LateLease
  BY <1>2, LateKeeps DEF Issuer!LateLease, Issuer!Create, Issuer!NewLease
<1>3. CASE Issuer!LateDropped
  BY <1>3, LateKeeps DEF Issuer!LateDropped
<1>4. CASE Issuer!Restart
  BY <1>4, RestartKeeps
<1> QED
  BY <1>2, <1>3, <1>4 DEF OpenBaoLate, IssuerRestarts

-----------------------------------------------------------------------------
(* The policy allows nothing that the permit of db_connect.cedar does not  *)
(* match.                                                                  *)
LEMMA AllowNeedsPermit ==
    ASSUME NEW q, decide(q).effect = "ALLOW"
    PROVE  DbConnectProduction(q)
BY Zenon DEF decide, DecideWith, IsAuthorized, Permits

LEMMA EffectType ==
    ASSUME NEW q
    PROVE  decide(q).effect \in {"ALLOW", "DENY"}
BY DEF decide, DecideWith, IsAuthorized

LEMMA CountedType ==
    ASSUME BrokerTypeOK, NEW r \in AccessRequests
    PROVE  /\ VerifyApprovals(r) \subseteq Approvers
           /\ VerifyApprovals(r) # {} =>
                 \E k \in DOMAIN body[r].approvals : body[r].approvals[k].valid
<1> DEFINE apps == body[r].approvals
<1>1. apps \in Seq([approver : Approvers, valid : BOOLEAN])
  BY Zenon DEF BrokerTypeOK, AccessRequest
<1> HIDE DEF apps
<1>2. DOMAIN apps = 1 .. Len(apps)
  BY <1>1
<1>2a. \A k \in 1 .. Len(apps) : apps[k] \in [approver : Approvers, valid : BOOLEAN]
  <2> DEFINE Approval == [approver : Approvers, valid : BOOLEAN]
  <2>1. apps \in Seq(Approval)
    BY <1>1
  <2> HIDE DEF Approval
  <2>2. \A k \in 1 .. Len(apps) : apps[k] \in Approval
    BY <2>1
  <2> QED
    BY <2>2 DEF Approval
<1>3. VerifyApprovals(r) =
         {apps[k].approver : k \in {i \in 1 .. Len(apps) : apps[i].valid}}
  BY DEF VerifyApprovals, Counted, apps
<1>4. /\ VerifyApprovals(r) \subseteq Approvers
      /\ VerifyApprovals(r) # {} => \E k \in DOMAIN apps : apps[k].valid
  BY <1>2, <1>2a, <1>3
<1> QED
  BY <1>4 DEF apps

(* What the permit reads is what the body says.                            *)
LEMMA PermitJustifies ==
    ASSUME NEW b \in AccessRequest, b.valid, b.short,
           NEW k \in DOMAIN b.approvals, b.approvals[k].valid,
           NEW q \in DecisionRequest, DbConnectProduction(q),
           q.environment = b.environment, q.principal_domain = b.domain,
           q.resource_domain = b.resource_domain, q.aal = b.aal,
           q.ticket_ref = b.ticket_ref, q.requested_at = b.requested_at,
           q.evaluated_at = b.evaluated_at
    PROVE  Justifies(b)
<1>1. b.requested_at \in Int /\ b.evaluated_at \in Int
  BY TimesAssumption, Zenon DEF AccessRequest
<1>2. /\ b.environment = "production" /\ b.domain = b.resource_domain
      /\ b.aal = "AAL3" /\ b.ticket_ref # ""
  BY Zenon DEF DbConnectProduction
<1>3. /\ b.evaluated_at <= b.requested_at
      /\ b.requested_at - b.evaluated_at <= PostureWindow
  BY Zenon DEF DbConnectProduction
<1>4. ASSUME NEW c, c.requested_at \in Int, c.evaluated_at \in Int,
             c.evaluated_at <= c.requested_at,
             c.requested_at - c.evaluated_at <= PostureWindow
      PROVE  PostureIsFresh(c)
  BY <1>4, SMT DEF PostureWindow, PostureIsFresh
<1>5. PostureIsFresh(b)
  BY <1>1, <1>3, <1>4, Zenon
<1> QED
  BY <1>2, <1>5, Zenon DEF Justifies

(* From the answers of identity-provider and the decision of the PDP to    *)
(* the justification of the request.                                       *)
LEMMA DecisionJustifies ==
    ASSUME BrokerTypeOK, NEW r \in AccessRequests,
           body[r].valid, body[r].short, VerifyApprovals(r) # {},
           decide(ToDecide(r, VerifyApprovals(r))).effect = "ALLOW"
    PROVE  Justified(r)
<1> DEFINE A == VerifyApprovals(r)
           q == ToDecide(r, A)
<1>1. DbConnectProduction(q)
  BY AllowNeedsPermit
<1>2. body[r] \in AccessRequest /\ A \subseteq Approvers
  BY CountedType DEF BrokerTypeOK
<1>3. PICK k \in DOMAIN body[r].approvals : body[r].approvals[k].valid
  BY CountedType
<1> HIDE DEF A
<1>4. /\ q \in DecisionRequest
      /\ q.environment = body[r].environment
      /\ q.principal_domain = body[r].domain
      /\ q.resource_domain = body[r].resource_domain
      /\ q.aal = body[r].aal /\ q.ticket_ref = body[r].ticket_ref
      /\ q.requested_at = body[r].requested_at
      /\ q.evaluated_at = body[r].evaluated_at
  BY <1>2, Zenon DEF ToDecide, DecisionRequest, AccessRequest
<1> HIDE DEF q
<1> QED
  BY <1>1, <1>2, <1>3, <1>4, PermitJustifies DEF Justified

(* A step of the broker leaves credential-issuer and OpenBao alone.        *)
LEMMA TracesKeep ==
    ASSUME IndInv, UNCHANGED <<body, issuer>>
    PROVE  /\ \A r : Justified(r) => Justified(r)'
           /\ \A r : Untouched(r) => Untouched(r)'
           /\ OrdersAreOwn' /\ RightIsHeldOnce'
           /\ leases' = leases
<1> USE DEF issuer
<1>1. \A r : Justified(r) => Justified(r)'
  BY DEF Justified
<1>2. \A r : NoTrace(r) => NoTrace(r)'
  BY DEF NoTrace
<1>3. \A r : Untouched(r) => Untouched(r)'
  BY <1>2 DEF Untouched
<1>4. OrdersAreOwn'
  BY <1>1 DEF IndInv, FlowInv, OrdersAreOwn
<1>5. RightIsHeldOnce'
  BY <1>1, <1>2 DEF IndInv, FlowInv, RightIsHeldOnce, OneLeasePerRequest
<1> QED
  BY <1>1, <1>3, <1>4, <1>5

(* The handler of a request goes on to its next call.                      *)
LEMMA GotoKeeps ==
    ASSUME IndInv, NEW r \in AccessRequests, NEW s \in Unsent,
           step[r] \in Unsent, Goto(r, s),
           signed' \in [AccessRequests -> Decision \cup {NoDecision}],
           \A b \in AccessRequests \ {r} : signed'[b] = signed[b],
           s = "approvals" => body[r].valid /\ body[r].short,
           s \in {"record", "emit"} =>
              /\ signed'[r] \in Decision /\ signed'[r].request = r
              /\ signed'[r].effect = "ALLOW" => Justified(r),
           s = "emit" => signed'[r].effect = "ALLOW",
           UNCHANGED <<body, issuer>>
    PROVE  FlowInv'
<1> USE TracesKeep DEF IndInv, FlowInv
<1>1. /\ step \in [AccessRequests -> Unsent \cup {"await", "done"}]
      /\ step' = [step EXCEPT ![r] = s] /\ response' = response
  BY DEF Goto, BrokerTypeOK
<1>2. BrokerTypeOK'
  BY <1>1 DEF BrokerTypeOK
<1>3. HandlerKnows'
  BY <1>1 DEF HandlerKnows, Unsent
<1>4. UnsentIsUntouched'
  BY <1>1 DEF UnsentIsUntouched
<1>5. AnswersAreHonest'
  BY <1>1 DEF AnswersAreHonest, Unsent
<1> QED
  BY <1>2, <1>3, <1>4, <1>5, Zenon

(* The handler answers.                                                    *)
LEMMA FinishKeeps ==
    ASSUME IndInv, NEW r \in AccessRequests, NEW a \in HttpAnswer, Finish(r, a),
           a.status = "ok" =>
              /\ a.lease # Issuer!NoLease =>
                    /\ a.allowed
                    /\ a.lease \in leases
                    /\ a.lease.decision.request = r
              /\ ~a.allowed => Untouched(r),
           UNCHANGED <<body, signed, issuer>>
    PROVE  FlowInv'
<1> USE TracesKeep DEF IndInv, FlowInv
<1>1. /\ step \in [AccessRequests -> Unsent \cup {"await", "done"}]
      /\ response \in [AccessRequests -> HttpAnswer]
      /\ step' = [step EXCEPT ![r] = "done"]
      /\ response' = [response EXCEPT ![r] = a]
  BY DEF Finish, BrokerTypeOK
<1>2. BrokerTypeOK'
  BY <1>1 DEF BrokerTypeOK
<1>3. HandlerKnows'
  BY <1>1 DEF HandlerKnows
<1>4. UnsentIsUntouched'
  BY <1>1 DEF UnsentIsUntouched, Unsent
<1>5. AnswersAreHonest'
  BY <1>1 DEF AnswersAreHonest
<1> QED
  BY <1>2, <1>3, <1>4, <1>5

LEMMA HttpAnswerType ==
    /\ \A s \in {"none", "bad_request", "unauthorized", "bad_gateway", "lost"} :
          Refused(s) \in HttpAnswer /\ Refused(s).status # "ok"
    /\ \A b \in BOOLEAN, l \in Issuer!Lease \cup {Issuer!NoLease} :
          /\ Answered(b, l) \in HttpAnswer
          /\ Answered(b, l).lease = l /\ Answered(b, l).allowed = b
BY DEF HttpAnswer, Refused, Answered

(* A refusal before the order was sent.                                    *)
LEMMA RefusalKeeps ==
    ASSUME IndInv, NEW r \in AccessRequests, step[r] \in Unsent,
           \/ Denied(r)
           \/ \E s \in {"bad_request", "unauthorized", "bad_gateway"} :
                 Finish(r, Refused(s)),
           UNCHANGED <<body, signed, issuer>>
    PROVE  FlowInv'
<1>1. CASE Denied(r)
  <2> DEFINE a == Answered(FALSE, Issuer!NoLease)
  <2>1. a \in HttpAnswer /\ a.lease = Issuer!NoLease /\ a.allowed = FALSE
    BY HttpAnswerType, Zenon
  <2>2. Untouched(r)
    BY DEF IndInv, FlowInv, UnsentIsUntouched
  <2>3. Finish(r, a)
    BY <1>1, Zenon DEF Denied
  <2> HIDE DEF a
  <2> QED
    BY <2>1, <2>2, <2>3, FinishKeeps
<1>2. ASSUME NEW s \in {"bad_request", "unauthorized", "bad_gateway"},
             Finish(r, Refused(s))
      PROVE  FlowInv'
  <2> DEFINE a == Refused(s)
  <2>1. a \in HttpAnswer /\ a.status # "ok"
    BY HttpAnswerType
  <2>2. Finish(r, a)
    BY <1>2
  <2> HIDE DEF a
  <2> QED
    BY <2>1, <2>2, FinishKeeps
<1> QED
  BY <1>1, <1>2

LEMMA HandlerKeeps ==
    ASSUME IndInv, NEW r \in AccessRequests,
           \/ Submit(r) \/ Malformed(r) \/ VerifyRequester(r) \/ CallFails(r)
           \/ RecordDecided(r) \/ RecordDecidedFails(r)
    PROVE  FlowInv'
<1>0. /\ signed \in [AccessRequests -> Decision \cup {NoDecision}]
      /\ UNCHANGED <<body, signed, issuer>>
  BY DEF IndInv, FlowInv, BrokerTypeOK, Submit, Malformed, VerifyRequester,
     CallFails, RecordDecided, RecordDecidedFails
<1>1. CASE Submit(r)
  BY <1>0, <1>1, GotoKeeps DEF Submit, Unsent
<1>2. CASE Malformed(r)
  BY <1>0, <1>2, RefusalKeeps DEF Malformed, Unsent
<1>3. CASE VerifyRequester(r)
  BY <1>0, <1>3, GotoKeeps, RefusalKeeps, Zenon DEF VerifyRequester, Unsent
<1>4. CASE CallFails(r)
  BY <1>0, <1>4, RefusalKeeps DEF CallFails, Unsent
<1>5. CASE RecordDecided(r) \/ RecordDecidedFails(r)
  <2>1. step[r] = "record" /\ AfterRecord(r)
    BY <1>5, Zenon DEF RecordDecided, RecordDecidedFails
  <2>2. /\ signed[r] \in Decision /\ signed[r].request = r
        /\ signed[r].effect = "ALLOW" => Justified(r)
    BY <2>1 DEF IndInv, FlowInv, HandlerKnows
  <2>3. CASE signed[r].effect = "ALLOW"
    BY <1>0, <2>1, <2>2, <2>3, GotoKeeps DEF AfterRecord, Unsent
  <2>4. CASE signed[r].effect # "ALLOW"
    BY <1>0, <2>1, <2>4, RefusalKeeps DEF AfterRecord, Unsent
  <2> QED
    BY <2>3, <2>4
<1> QED
  BY <1>1, <1>2, <1>3, <1>4, <1>5

(* The PDP decides: what it seals as an ALLOW is justified.                *)
LEMMA DecideKeeps ==
    ASSUME IndInv, NEW r \in AccessRequests, Decide(r)
    PROVE  FlowInv'
<1> DEFINE A == VerifyApprovals(r)
           e == decide(ToDecide(r, A)).effect
           d == [request |-> r, approvals |-> A, effect |-> e]
<1>1. /\ step[r] = "approvals" /\ BrokerTypeOK
      /\ body[r].valid /\ body[r].short
      /\ UNCHANGED <<body, issuer>>
  BY Zenon DEF Decide, IndInv, FlowInv, HandlerKnows
<1>2. CASE A = {}
  BY <1>1, <1>2, RefusalKeeps, Zenon DEF Decide, Unsent
<1>3. CASE A # {}
  <2>1. signed' = [signed EXCEPT ![r] = d] /\ Goto(r, "record")
    BY <1>3 DEF Decide
  <2>2. e \in {"ALLOW", "DENY"} /\ A \subseteq Approvers
    BY <1>1, EffectType, CountedType
  <2>3. e = "ALLOW" => Justified(r)
    BY <1>1, <1>3, DecisionJustifies
  <2> HIDE DEF A, e
  <2>4. d \in Decision /\ d.request = r /\ d.effect = e
    BY <2>2 DEF Decision
  <2> HIDE DEF d
  <2>5. /\ signed' \in [AccessRequests -> Decision \cup {NoDecision}]
        /\ signed'[r] = d
        /\ \A b \in AccessRequests \ {r} : signed'[b] = signed[b]
    BY <1>1, <2>1, <2>4 DEF BrokerTypeOK
  <2> QED
    BY <1>1, <2>1, <2>3, <2>4, <2>5, GotoKeeps, Zenon DEF Unsent
<1> QED
  BY <1>2, <1>3

(* The order is sent, once: from here on credential-issuer has the right   *)
(* to obtain the lease of the request.                                     *)
LEMMA EmitOrderKeeps ==
    ASSUME IndInv, NEW r \in AccessRequests, EmitOrder(r)
    PROVE  FlowInv'
<1> USE IssuerFacts DEF IndInv, FlowInv
<1> DEFINE o == [decision |-> signed[r], authentic |-> TRUE,
                 verb |-> body[r].verb]
<1>1. /\ step[r] = "emit" /\ step' = [step EXCEPT ![r] = "await"]
      /\ order' = [order EXCEPT ![r] = o]
      /\ UNCHANGED <<body, signed, response, leases, late>>
  BY Zenon DEF EmitOrder, Goto, Issuer!Emit, Issuer!openbao
<1>2. PICK p \in {"idle", "verify"},
           a \in {[status |-> "decision_absente"], [status |-> "none"]} :
         pc' = [pc EXCEPT ![r] = p] /\ reply' = [reply EXCEPT ![r] = a]
  BY DEF EmitOrder, Issuer!Emit, Issuer!Return
<1>3. /\ signed[r].request = r /\ Justified(r) /\ NoTrace(r)
  BY <1>1, Zenon DEF HandlerKnows, UnsentIsUntouched, Untouched, Unsent
<1>4. o.decision = signed[r]
  OBVIOUS
<1> HIDE DEF o
<1>5. /\ \A b : Justified(b) => Justified(b)'
      /\ \A b : NoTrace(b) => NoTrace(b)'
  BY <1>1 DEF Justified, NoTrace
<1>6. \A b \in AccessRequests \ {r} : Untouched(b) => Untouched(b)'
  BY <1>2, <1>5 DEF Untouched
<1>7. step \in [AccessRequests -> Unsent \cup {"await", "done"}]
  BY DEF BrokerTypeOK
<1>8. BrokerTypeOK' /\ HandlerKnows'
  BY <1>1, <1>5, <1>7, Zenon DEF BrokerTypeOK, HandlerKnows
<1>9. OrdersAreOwn'
  BY <1>1, <1>3, <1>4, <1>5, Zenon DEF OrdersAreOwn
<1>10. UnsentIsUntouched'
  BY <1>1, <1>6, <1>7, Zenon DEF UnsentIsUntouched, Unsent
<1>11. RightIsHeldOnce'
  BY <1>1, <1>2, <1>3, <1>5, Zenon DEF RightIsHeldOnce, OneLeasePerRequest
<1>12. AnswersAreHonest'
  BY <1>1, <1>6, <1>7, Zenon DEF AnswersAreHonest
<1> QED
  BY <1>8, <1>9, <1>10, <1>11, <1>12

(* The answer of an order, or its absence.                                 *)
LEMMA EmitEndsKeeps ==
    ASSUME IndInv, NEW r \in AccessRequests, EmitAnswered(r) \/ EmitLost(r)
    PROVE  FlowInv'
<1>1. CASE Finish(r, Answered(TRUE, Issuer!NoLease))
  <2> DEFINE n == Answered(TRUE, Issuer!NoLease)
  <2>1. n \in HttpAnswer /\ n.lease = Issuer!NoLease /\ n.allowed = TRUE
    BY HttpAnswerType, Zenon
  <2>2. Finish(r, n) /\ UNCHANGED <<body, signed, issuer>>
    BY <1>1, Zenon DEF EmitAnswered, EmitLost
  <2> HIDE DEF n
  <2> QED
    BY <2>1, <2>2, FinishKeeps
<1>2. CASE /\ EmitAnswered(r) /\ reply[r].status = "allowed"
           /\ Finish(r, Answered(TRUE, reply[r].lease))
  <2> DEFINE n == Answered(TRUE, reply[r].lease)
  <2>1. /\ reply[r].lease \in leases
        /\ reply[r].lease.decision.request = r
    BY <1>2, IssuerFacts DEF IndInv, FlowInv, OrdersAreOwn
  <2>2. reply[r].lease \in Issuer!Lease
    BY <2>1, IssuerFacts DEF Issuer!Lease, Proved!Lease
  <2>3. n \in HttpAnswer /\ n.lease = reply[r].lease /\ n.allowed = TRUE
    BY <2>2, HttpAnswerType, Zenon
  <2>4. Finish(r, n) /\ UNCHANGED <<body, signed, issuer>>
    BY <1>2, Zenon DEF EmitAnswered
  <2> HIDE DEF n
  <2> QED
    BY <2>1, <2>3, <2>4, FinishKeeps
<1> QED
  BY <1>1, <1>2, Zenon DEF EmitAnswered, EmitLost

LEMMA BrokerStopsKeeps ==
    ASSUME IndInv, BrokerStops
    PROVE  FlowInv'
<1> USE TracesKeep DEF IndInv, FlowInv
<1> DEFINE Open == {r \in AccessRequests : step[r] \notin {"new", "done"}}
           lost == Refused("lost")
<1>1. /\ step' = [r \in AccessRequests |->
                     IF r \in Open THEN "done" ELSE step[r]]
      /\ response' = [r \in AccessRequests |->
                         IF r \in Open THEN lost ELSE response[r]]
      /\ UNCHANGED <<body, signed, issuer>>
  BY DEF BrokerStops
<1>2. lost \in HttpAnswer /\ lost.status # "ok"
  BY HttpAnswerType
<1> HIDE DEF lost
<1>3. BrokerTypeOK'
  BY <1>1, <1>2 DEF BrokerTypeOK
<1>4. HandlerKnows'
  BY <1>1 DEF HandlerKnows
<1>5. UnsentIsUntouched'
  BY <1>1 DEF UnsentIsUntouched, Unsent
<1>6. AnswersAreHonest'
  BY <1>1, <1>2 DEF AnswersAreHonest
<1> QED
  BY <1>1, <1>3, <1>4, <1>5, <1>6

-----------------------------------------------------------------------------
LEMMA FlowInvInit == Init => FlowInv
<1> SUFFICES ASSUME Init PROVE FlowInv
  OBVIOUS
<1> DEFINE none == Refused("none")
<1>1. none \in HttpAnswer /\ none.status # "ok"
  BY HttpAnswerType
<1>2. response = [r \in AccessRequests |-> none]
  BY DEF Init
<1> HIDE DEF none
<1>3. BrokerTypeOK
  BY <1>1, <1>2, FlowAssumption DEF Init, BrokerTypeOK, Unsent
<1>4. HandlerKnows /\ AnswersAreHonest
  BY <1>1, <1>2 DEF Init, HandlerKnows, AnswersAreHonest
<1>5. OrdersAreOwn
  BY DEF Init, Issuer!Init, OrdersAreOwn
<1>6. UnsentIsUntouched
  BY DEF Init, Issuer!Init, UnsentIsUntouched, Untouched, NoTrace
<1>7. RightIsHeldOnce
  BY DEF Init, Issuer!Init, RightIsHeldOnce, NoTrace, OneLeasePerRequest
<1> QED
  BY <1>3, <1>4, <1>5, <1>6, <1>7 DEF FlowInv

LEMMA FlowInvStep ==
    ASSUME IndInv, [Next]_vars
    PROVE  FlowInv'
<1>1. CASE UNCHANGED vars
  <2>1. UNCHANGED <<body, step, signed, response, issuer>>
    BY <1>1 DEF vars, broker
  <2>2. BrokerTypeOK' /\ HandlerKnows'
    BY <2>1, TracesKeep DEF IndInv, FlowInv, BrokerTypeOK, HandlerKnows
  <2>3. UnsentIsUntouched' /\ AnswersAreHonest'
    BY <2>1, TracesKeep
       DEF IndInv, FlowInv, UnsentIsUntouched, AnswersAreHonest
  <2> QED
    BY <2>1, <2>2, <2>3, TracesKeep DEF FlowInv
<1>2. ASSUME NEW r \in AccessRequests, Submit(r) \/ Malformed(r)
      PROVE  FlowInv'
  BY <1>2, HandlerKeeps
<1>3. ASSUME NEW r \in AccessRequests, Handle(r)
      PROVE  FlowInv'
  BY <1>3, HandlerKeeps, DecideKeeps, EmitOrderKeeps, EmitEndsKeeps DEF Handle
<1>4. ASSUME NEW r \in AccessRequests, IssuerWorks(r)
      PROVE  FlowInv'
  BY <1>4, IssuerWorksKeeps
<1>5. CASE BrokerStops
  BY <1>5, BrokerStopsKeeps
<1>6. CASE OpenBaoLate \/ IssuerRestarts
  BY <1>6, OpenBaoKeeps
<1> QED
  BY <1>1, <1>2, <1>3, <1>4, <1>5, <1>6 DEF Next, AllDone

Finite == INSTANCE FiniteSetTheorems

(* The constants given to credential-issuer are ones it is proved for.     *)
LEMMA IssuerConstants == Proved!IssuerAssumption
<1>1. Cardinality(AccessRequests) \in Nat
  BY FlowAssumption, Finite!FS_CardinalityType, Zenon
     DEF Finite!IsFiniteSet, IsFiniteSet, Finite!Cardinality, Cardinality
<1> QED
  BY <1>1, FlowAssumption DEF Proved!IssuerAssumption

LEMMA IssuerInvariant == Issuer!Spec => []Proved!IInv
<1>1. Issuer!Init => Proved!Init
  BY IssuerInit
<1>2. [Issuer!Next]_(Issuer!vars) => [Proved!Next]_(Proved!vars)
  BY IssuerStep
<1>3. Issuer!Spec => Proved!Spec
  BY <1>1, <1>2, PTL DEF Issuer!Spec, Proved!Spec
<1>4. Proved!Spec => []Proved!IInv
  BY IssuerConstants, Proved!Invariant, PTL
<1> QED
  BY <1>3, <1>4, PTL

LEMMA FlowInvariant == Spec => []IndInv
<1>1. Init => FlowInv
  BY FlowInvInit
<1>2. Proved!IInv /\ FlowInv /\ [Next]_vars => FlowInv'
  BY FlowInvStep DEF IndInv
<1>3. Spec => []Proved!IInv
  BY FlowImplementsIssuer, IssuerInvariant, PTL
<1>4. Spec => []FlowInv
  BY <1>1, <1>2, <1>3, PTL DEF Spec
<1>5. Proved!IInv /\ FlowInv => IndInv
  BY DEF IndInv
<1> QED
  BY <1>3, <1>4, <1>5, PTL

-----------------------------------------------------------------------------
(* Whatever the services do between two calls, and whatever OpenBao does   *)
(* late, a lease exists only for a request whose requester was             *)
(* authenticated at AAL3, with a ticket, a fresh posture and a verified    *)
(* approval (handler.go CreateAccessRequest, broker.go Decide,             *)
(* db_connect.cedar, issuer.go Emit).                                      *)
THEOREM LeasesAreJustified == Spec => []LeaseIsJustified
<1>1. IndInv => LeaseIsJustified
  BY DEF IndInv, FlowInv, RightIsHeldOnce, Justified, LeaseIsJustified
<1> QED
  BY <1>1, FlowInvariant, PTL

(* A request obtains at most one lease over all the lives of               *)
(* credential-issuer, although it forgets what it consumed: the broker     *)
(* sends an order once (broker.go Decide, issuer.go Emit).                 *)
THEOREM OneLeaseEach == Spec => []OneLeasePerRequest
<1>1. IndInv => OneLeasePerRequest
  BY DEF IndInv, FlowInv, RightIsHeldOnce
<1> QED
  BY <1>1, FlowInvariant, PTL

(* What the broker answers can be relied on: the lease it names is the one *)
(* of the request, and a request it refuses never has one (handler.go      *)
(* CreateAccessRequest).                                                   *)
THEOREM ResponsesAreHonest == Spec => []ResponseIsHonest
<1>1. IndInv => ResponseIsHonest
  BY DEF IndInv, FlowInv, AnswersAreHonest, Untouched, NoTrace,
     ResponseIsHonest
<1> QED
  BY <1>1, FlowInvariant, PTL

(* What is proved of credential-issuer alone holds in the flow: an answer  *)
(* names a lease of the order's decision, and only leases that exist have  *)
(* a credential.issued event (issuer.go:87-89 and 122-128).                *)
THEOREM IssuerPromisesHold ==
    Spec => [](Issuer!AllowedHoldsItsLease /\ Issuer!RecordedWasIssued)
<1>1. Proved!IInv => Issuer!AllowedHoldsItsLease /\ Issuer!RecordedWasIssued
  BY DEF Proved!IInv, Proved!AllowedHoldsItsLease, Proved!RecordedWasIssued,
     Issuer!AllowedHoldsItsLease, Issuer!RecordedWasIssued
<1> QED
  BY <1>1, FlowImplementsIssuer, IssuerInvariant, PTL
=============================================================================
