--------------------------- MODULE MCPolicyEngine ---------------------------
(* An instance of PolicyEngine for TLC. *)
EXTENDS PolicyEngine, TLC

(* Calls are interchangeable. *)
Interchangeable == Permutations(Calls)

Domains == {"north", "south"}
OneApprover == {"approver"}
Instants == {0, 3600}

(* A request that is allowed, one whose posture is in the future, and one  *)
(* that has a ticket and no approval.                                      *)
Allowed == [policy_version |-> "", complete |-> TRUE, aal |-> "AAL3",
            principal_domain |-> "north", verb |-> "db.connect",
            resource_type |-> "Database", resource_domain |-> "north",
            environment |-> "production", ticket_ref |-> "ticket",
            approvals |-> {"approver"}, requested_at |-> 0, evaluated_at |-> 0]
Sample == {Allowed, [Allowed EXCEPT !.evaluated_at = 3600],
           [Allowed EXCEPT !.approvals = {}]}

(* Around the leap day of 2000, and the year 10000, which has no text; nor *)
(* has the year -1.                                                        *)
At(days, second) == [days |-> days, second_of_day |-> second]
LeapDay == {At(11015, 86399), At(11016, 0), At(2932897, 0)}
OutOfRange == {At(-719529, 0)}
=============================================================================
