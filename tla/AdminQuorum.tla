---------------------------- MODULE AdminQuorum -----------------------------
(***************************************************************************)
(* admin-api: POST /operations/{id}/quorum (handler.go, quorum.go), from   *)
(* the request to its answer.                                              *)
(*                                                                         *)
(* The initiator is authenticated, then the assertions of the bearers are  *)
(* verified one after the other, all of it within delaiEvaluation and      *)
(* while the client is connected; then the events are sent, the            *)
(* initiator's first, each within delaiAudit and all of them within        *)
(* plafondAudit, whatever has become of the client.  Time is counted in    *)
(* units of the smallest of these budgets.  identity-provider and          *)
(* audit-collector are external: a call takes any time up to its budget,   *)
(* and a call that fails may have been served.                             *)
(***************************************************************************)
EXTENDS Integers, FiniteSets, Sequences

CONSTANTS Subjects,           \* subjects of identity assertions
          Nobody,             \* stands for the subject of an invalid assertion
          maxAssertions,      \* the four bounds of handler.go:67-107
          delaiVerification,
          delaiEvaluation,
          delaiAudit,
          plafondAudit,
          MaxThreshold        \* bound on the threshold of a request

ASSUME QuorumAssumption ==
    /\ Nobody \notin Subjects
    /\ {maxAssertions, MaxThreshold, plafondAudit} \subseteq Nat
    /\ {delaiVerification, delaiEvaluation, delaiAudit} \subseteq Nat \ {0}

MinimumThreshold == 2

VARIABLES stage,     \* the next call of the handler
          body,      \* the request: assertions of the bearers, threshold, ...
          caller,    \* what the assertion of the initiator stands for
          cancelled, \* the client is gone: r.Context() is cancelled
          clock,     \* time spent in the current phase
          spent,     \* time spent in the phases before it
          index,     \* number of assertions of bearers verified
          seen,      \* subjects found by VerifyQuorum
          bearers,   \* Result.DistinctSubjects, without the initiator
          todo,      \* bearers whose event has not been sent yet
          budgets,   \* budgets[s]: time the event about s was given
          journal,   \* events that audit-collector has recorded
          response   \* status, and result when it is 200

time == <<clock, spent>>
audit == <<budgets, journal>>
handler == <<stage, body, caller, cancelled, time, index, seen, bearers, todo,
             audit, response>>

-----------------------------------------------------------------------------
Body == [assertions : UNION {[1..n -> Subjects \cup {Nobody}] :
                               n \in 0..(maxAssertions + 1)},
         threshold : 0..MaxThreshold, expected_domain : BOOLEAN]
NoBody == [threshold |-> 0]

Caller == [subject : Subjects \cup {Nobody}, aal3 : BOOLEAN]
NoCaller == [subject |-> Nobody, aal3 |-> FALSE]

Failure(status) == [status |-> status]
NoReply == Failure(0)

NoBudget == [s \in Subjects \cup {Nobody} |-> 0]

QuorumInit ==
    /\ stage = "idle"
    /\ body = NoBody
    /\ caller = NoCaller
    /\ cancelled = FALSE
    /\ clock = 0
    /\ spent = 0
    /\ index = 0
    /\ seen = {}
    /\ bearers = {}
    /\ todo = {}
    /\ budgets = NoBudget
    /\ journal = {}
    /\ response = NoReply

Reply(answer) ==
    /\ response' = answer
    /\ stage' = "idle"

(* The smaller of two durations.                                           *)
Least(a, b) == IF a < b THEN a ELSE b

-----------------------------------------------------------------------------
(* A request, one at a time: requests share nothing.  A body that cannot   *)
(* be decoded, or an assertion header that is missing or malformed, is     *)
(* refused at once.                                                        *)
Receive ==
    /\ stage = "idle"
    /\ response = NoReply
    /\ body' \in Body
    /\ caller' \in Caller
    /\ stage' = "caller"
    /\ UNCHANGED <<cancelled, time, index, seen, bearers, todo, audit,
                   response>>

Malformed ==
    /\ stage = "idle"
    /\ response = NoReply
    /\ \E status \in {400, 401} : Reply(Failure(status))
    /\ UNCHANGED <<body, caller, cancelled, time, index, seen, bearers, todo,
                   audit>>

Disconnect ==
    /\ stage # "idle"
    /\ ~cancelled
    /\ cancelled' = TRUE
    /\ UNCHANGED <<stage, body, caller, time, index, seen, bearers, todo, audit,
                   response>>

(* A call of the evaluation takes time d, and answers if neither its own   *)
(* budget nor that of the evaluation is over and the client is there.      *)
Takes(d, budget) == d \in 0..Least(budget, delaiEvaluation - clock)
Answers(d, budget) ==
    ~cancelled /\ d < budget /\ clock + d < delaiEvaluation

(* verifyCaller, then the checks of the body in the order of the handler.  *)
CallerRefusal ==
    IF caller.subject = Nobody THEN 401
    ELSE IF ~caller.aal3 THEN 403
    ELSE IF Len(body.assertions) > maxAssertions THEN 400
    ELSE IF ~body.expected_domain THEN 400
    ELSE IF body.threshold < MinimumThreshold THEN 400
    ELSE 0

VerifyCaller ==
    /\ stage = "caller"
    /\ \E d \in 0..delaiVerification :
          /\ Takes(d, delaiVerification)
          /\ Answers(d, delaiVerification)
          /\ clock' = clock + d
    /\ IF CallerRefusal # 0 THEN Reply(Failure(CallerRefusal))
       ELSE stage' = "bearers" /\ UNCHANGED response
    /\ UNCHANGED <<body, caller, cancelled, spent, index, seen, bearers, todo,
                   audit>>

(* identity-provider fails, answers an incomplete identity, or does not    *)
(* answer in time.                                                         *)
VerifyCallerFails ==
    /\ stage = "caller"
    /\ \E d \in 0..delaiVerification :
          Takes(d, delaiVerification) /\ clock' = clock + d
    /\ Reply(Failure(502))
    /\ UNCHANGED <<body, caller, cancelled, spent, index, seen, bearers, todo,
                   audit>>

(* The loop of quorum.VerifyQuorum: a valid assertion counts its subject   *)
(* once, an invalid one counts for nothing.                                *)
VerifyBearer ==
    /\ stage = "bearers"
    /\ index < Len(body.assertions)
    /\ \E d \in 0..delaiEvaluation :
          /\ Takes(d, delaiEvaluation)
          /\ Answers(d, delaiEvaluation)
          /\ clock' = clock + d
    /\ index' = index + 1
    /\ seen' = seen \cup ({body.assertions[index + 1]} \cap Subjects)
    /\ UNCHANGED <<stage, body, caller, cancelled, spent, bearers, todo, audit,
                   response>>

(* Mutant: after an error the verification starts again.                   *)
VerifyBearerFailsRetries ==
    /\ stage = "bearers"
    /\ index < Len(body.assertions)
    /\ index' = 0
    /\ seen' = {}
    /\ UNCHANGED <<stage, body, caller, cancelled, time, bearers, todo, audit,
                   response>>

(* An error ends the evaluation: 502, or 500 after a panic.                *)
VerifyBearerFails ==
    /\ stage = "bearers"
    /\ index < Len(body.assertions)
    /\ \E d \in 0..delaiEvaluation :
          Takes(d, delaiEvaluation) /\ clock' = clock + d
    /\ \E status \in {500, 502} : Reply(Failure(status))
    /\ UNCHANGED <<body, caller, cancelled, spent, index, seen, bearers, todo,
                   audit>>

(* Mutant: the initiator counts as a bearer.                               *)
KeepInitiator(s) == s

(* excludeInitiator.  The context of the audit starts here.                *)
ExcludeInitiator(s) == s \ {caller.subject}

(* Mutant: the events share the context of the evaluation.                 *)
ConcludeSameContext ==
    /\ stage = "bearers"
    /\ index = Len(body.assertions)
    /\ bearers' = ExcludeInitiator(seen)
    /\ todo' = bearers'
    /\ stage' = "initiator"
    /\ UNCHANGED <<body, caller, cancelled, time, index, seen, audit, response>>

Conclude ==
    /\ stage = "bearers"
    /\ index = Len(body.assertions)
    /\ bearers' = ExcludeInitiator(seen)
    /\ todo' = bearers'
    /\ spent' = spent + clock
    /\ clock' = 0
    /\ stage' = "initiator"
    /\ UNCHANGED <<body, caller, cancelled, index, seen, audit, response>>

-----------------------------------------------------------------------------
Reached == Cardinality(bearers) >= body.threshold

(* plafondParPhase: never less than the budget of one event.               *)
plafondParPhase == IF plafondAudit < delaiAudit THEN delaiAudit ELSE plafondAudit

(* The budget of an event within the phase.                                *)
EventBudget == Least(delaiAudit, plafondParPhase - clock)

(* auditClient.Record(s): takes time d, with the event recorded or not.    *)
Send(s, event) ==
    /\ budgets' = [budgets EXCEPT ![s] = EventBudget]
    /\ \E d \in 0..EventBudget : clock' = clock + d
    /\ journal' \in {journal, journal \cup {event}}

(* Mutant: the exclusion is looked for in the filtered result.             *)
RecordInitiatorFiltered ==
    /\ stage = "initiator"
    /\ Send(Nobody, [actor |-> caller.subject, initiator |-> TRUE,
                     reached |-> Reached,
                     excluded |-> caller.subject \in bearers])
    /\ stage' = "events"
    /\ UNCHANGED <<body, caller, cancelled, spent, index, seen, bearers, todo,
                   response>>

(* recordQuorumInitiator: the one event that says who triggered the        *)
(* operation, and that the initiator was among the bearers if so.          *)
RecordInitiator ==
    /\ stage = "initiator"
    /\ Send(Nobody, [actor |-> caller.subject, initiator |-> TRUE,
                     reached |-> Reached,
                     excluded |-> caller.subject \in seen])
    /\ stage' = "events"
    /\ UNCHANGED <<body, caller, cancelled, spent, index, seen, bearers, todo,
                   response>>

(* recordQuorumOperation: an event per bearer, in any order (the subjects  *)
(* come out of a map), until the ceiling of the phase is reached.          *)
RecordBearer(s) ==
    /\ stage = "events"
    /\ s \in todo
    /\ clock < plafondParPhase
    /\ Send(s, [actor |-> s, initiator |-> FALSE, reached |-> Reached,
                excluded |-> FALSE])
    /\ todo' = todo \ {s}
    /\ UNCHANGED <<stage, body, caller, cancelled, spent, index, seen, bearers,
                   response>>

(* Nothing is left to send, or no time.                                    *)
AnswerResult ==
    /\ stage = "events"
    /\ todo = {} \/ clock >= plafondParPhase
    /\ Reply([status |-> 200, reached |-> Reached, subjects |-> bearers])
    /\ UNCHANGED <<body, caller, cancelled, time, index, seen, bearers, todo,
                   audit>>

(* The request is answered.                                                *)
Answered == stage = "idle" /\ response # NoReply /\ UNCHANGED handler

HandlerStep ==
    \/ VerifyCaller \/ VerifyCallerFails
    \/ VerifyBearer \/ VerifyBearerFails \/ Conclude
    \/ RecordInitiator \/ (\E s \in Subjects : RecordBearer(s)) \/ AnswerResult

QuorumNext == Receive \/ Malformed \/ Disconnect \/ HandlerStep \/ Answered

QuorumSpec == QuorumInit /\ [][QuorumNext]_handler

(* Calls return or their context expires.                                  *)
FairQuorumSpec == QuorumSpec /\ WF_handler(HandlerStep)

-----------------------------------------------------------------------------
(* The subjects other than the initiator that the body really proves.      *)
Independent ==
    {s \in Subjects \ {caller.subject} :
       \E i \in DOMAIN body.assertions : body.assertions[i] = s}

(* ADR-021 and handler.go:498-507: an answer says that the quorum is       *)
(* reached exactly when the bearers independent of the initiator are as    *)
(* many as the threshold, which is at least 2; it names them all, and the  *)
(* initiator is authenticated at AAL3.                                     *)
QuorumIsIndependent ==
    response.status = 200 =>
        /\ response.subjects = Independent
        /\ response.reached <=> Cardinality(Independent) >= body.threshold
        /\ body.threshold >= 2
        /\ caller.subject \in Subjects /\ caller.aal3

(* handler.go:98-99 and 272-282: however long the evaluation took, however *)
(* many bearers there are and even if the client has left, the event of    *)
(* the initiator is sent with its whole budget, before any other.  And     *)
(* (handler.go:72-76, 90-107) a request ends within the two budgets, an    *)
(* event being given up only when the ceiling is reached.                  *)
BudgetsAreKept ==
    /\ stage = "events" => budgets[Nobody] = delaiAudit
    /\ response.status = 200 => budgets[Nobody] = delaiAudit
    /\ \A s \in Subjects : budgets[s] > 0 => budgets[Nobody] = delaiAudit
    /\ spent + clock <= delaiEvaluation + plafondParPhase
    /\ response.status = 200 /\ todo # {} => clock = plafondParPhase

(* handler.go:291-297 and 448-452: the journal never says of an operation  *)
(* something else than its answer, never counts the initiator among the    *)
(* bearers, and tells that the initiator was excluded.                     *)
EventsAreTruthful ==
    \A e \in journal :
        /\ response.status \in {0, 200}
        /\ response.status = 200 => e.reached = response.reached
        /\ ~e.initiator => e.actor \in Independent
        /\ e.initiator =>
              /\ e.actor = caller.subject
              /\ e.excluded <=>
                    \E i \in DOMAIN body.assertions :
                       body.assertions[i] = caller.subject

(* Every request is answered.                                              *)
EveryRequestIsAnswered == stage # "idle" ~> stage = "idle"
=============================================================================
