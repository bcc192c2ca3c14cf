-------------------------- MODULE MCOfflineVerifier --------------------------
(* Requests for OfflineVerifier.  MAX_BYTES, the size of an event, is such   *)
(* that events with few optional members may have some reasons or a longer *)
(* decision signature, and events with many of them may not.               *)
EXTENDS OfflineVerifier

Hash(h) == [length |-> 32, sha256 |-> h]
MCBytes == {[Hash(h) EXCEPT !.length = l] : h \in {"p", "q", "d", "e"},
                                            l \in {31, 32}}
             \cup {[length |-> l] : l \in 0..2}
Time == [days |-> 20688, second_of_day |-> 3599]

Actor == [subject_id |-> "s1", kind |-> "human", aal |-> None,
          auth_method |-> None]
Actors == {[Actor EXCEPT !.aal = a, !.auth_method = m] :
              a \in {None, "AAL2"}, m \in {None, "passkey"}}
Targets == {None, [type |-> "database", id |-> "db1"]}
Context == [source_network |-> None, ticket_ref |-> None, justification |-> None]
Contexts == {None, Context, [Context EXCEPT !.ticket_ref = "t1"],
             [source_network |-> "n1", ticket_ref |-> "t1",
              justification |-> "j1"]}
Decision == [request_id |-> "uuid4", decision_hash |-> Hash("d"),
             policy_version |-> "v1", reasons |-> <<>>,
             granted_ttl_seconds |-> None, decision_signature |-> None,
             decision_signature_key_id |-> None]
Reasons(n) == [i \in 1..n |-> "r1"]
Decisions ==
    {None} \cup
    {[Decision EXCEPT !.reasons = Reasons(n), !.granted_ttl_seconds = t,
                      !.decision_signature = s,
                      !.decision_signature_key_id = k] :
        n \in 0..MAX_REASONS + 1, t \in {None, 900},
        s \in {None} \cup {[length |-> l] : l \in 0..2}, k \in {None, "k1"}}

Base == [event_id |-> "uuid7-a", sequence |-> 1, prev_hash |-> Hash("p"),
         occurred_at |-> Time, authority_domain |-> "idp",
         event_type |-> "quorum.operation", actor |-> Actor, target |-> None,
         outcome |-> "success", context |-> None, decision |-> None]

WellFormed ==
    {[Base EXCEPT !.event_type = t, !.actor = a, !.target = g, !.context = c,
                  !.decision = d] :
        t \in {"quorum.operation", "policy.decided"}, a \in Actors,
        g \in Targets, c \in Contexts, d \in Decisions}

(* One field that is out of its bounds, or at them.                        *)
Full == [Base EXCEPT
           !.event_type = "credential.issued",
           !.target = [type |-> "database", id |-> "db1"],
           !.context = [Context EXCEPT !.ticket_ref = "t1"],
           !.decision = Decision]
Edges ==
    {[Full EXCEPT !.event_id = i] : i \in {"uuid4", "uuid7-b"}}
      \cup {[Full EXCEPT !.sequence = n] : n \in {0, MAX_SAFE_INTEGER, MAX_SAFE_INTEGER + 1}}
      \cup {[Full EXCEPT !.prev_hash.length = 31],
            [Full EXCEPT !.decision.decision_hash.length = 31],
            [Full EXCEPT !.authority_domain = "prod"],
            [Full EXCEPT !.authority_domain = ""],
            [Full EXCEPT !.event_type = "access.requested"],
            [Full EXCEPT !.outcome = "unknown"],
            [Full EXCEPT !.occurred_at = None],
            [Full EXCEPT !.actor = None],
            [Full EXCEPT !.actor.kind = "robot"],
            [Full EXCEPT !.actor.aal = "AAL4"],
            [Full EXCEPT !.actor.subject_id = "over long"],
            [Full EXCEPT !.actor.auth_method = ""],
            [Full EXCEPT !.target.id = "quoted"],
            [Full EXCEPT !.context.justification = "over long"],
            [Full EXCEPT !.decision.reasons = <<"r1", "">>],
            [Full EXCEPT !.decision.request_id = "not a uuid"],
            [Full EXCEPT !.decision.policy_version = "quoted"],
            [Full EXCEPT !.decision.decision_signature_key_id = ""]}
      \cup {[Full EXCEPT !.occurred_at.days = d] :
               d \in {-719529, -719528, 2932896, 2932897}}

MCRequests == WellFormed \cup Edges

MCAnother ==
    [event_id |-> "uuid7-b", sequence |-> 2, prev_hash |-> Hash("q"),
     occurred_at |-> [Time EXCEPT !.second_of_day = 3600],
     authority_domain |-> "prod", event_type |-> "credential.issued",
     actor |-> [subject_id |-> "s2", kind |-> "system", aal |-> "AAL1",
                auth_method |-> "card"],
     target |-> [type |-> "host", id |-> "db2"], outcome |-> "denied",
     context |-> [source_network |-> "n2", ticket_ref |-> "t2",
                  justification |-> "j2"],
     decision |-> [request_id |-> "uuid7-b", decision_hash |-> Hash("e"),
                   policy_version |-> "v2", reasons |-> <<"r2">>,
                   granted_ttl_seconds |-> 60,
                   decision_signature |-> [length |-> 1],
                   decision_signature_key_id |-> "k2"]]

Point(p) == [length |-> 65, first |-> 4, point |-> p]
MCPublishedKeys ==
    {[suite |-> SUITE_V1, key_id |-> key_id_from_public_key(p),
      sec1 |-> Point(p)] : p \in {"audit", "other"}}
      \cup {[suite |-> SUITE_V1, key_id |-> key_id_from_public_key("short"),
             sec1 |-> [Point("audit") EXCEPT !.length = 33]],
            [suite |-> "audit-seal/v2", key_id |-> key_id_from_public_key("v2"), sec1 |-> Point("audit")]}
=============================================================================
