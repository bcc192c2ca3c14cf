---------------------------- MODULE MCAccessFlow ----------------------------
(* An instance of AccessFlow for TLC. *)
EXTENDS AccessFlow

Domains == {"north", "south"}
Subjects == {"bob", "carol"}
Instants == {-100000, 0, 3600, 3601}

Approval(s, v) == [approver |-> s, valid |-> v]
Base == [valid |-> TRUE, aal |-> "AAL3",
         short |-> TRUE, filled |-> TRUE,
         approvals |-> <<Approval("bob", TRUE)>>, domain |-> "north",
         verb |-> "db.connect", resource_type |-> "Database",
         resource_domain |-> "north", environment |-> "production",
         ticket_ref |-> "ticket", requested_at |-> 3600, evaluated_at |-> 0]

(* One that is allowed; one allowed on its second approval; one that only  *)
(* an approval that is not valid would justify; two refused by the PDP,   *)
(* their posture being absent or a second too old (that of the first is    *)
(* just not); one by the broker; one whose requester is not authenticated. *)
Kinds ==
    {Base,
     [Base EXCEPT !.approvals = <<Approval("bob", FALSE), Approval("carol", TRUE)>>],
     [Base EXCEPT !.approvals = <<Approval("bob", FALSE)>>],
     [Base EXCEPT !.evaluated_at = -100000],
     [Base EXCEPT !.requested_at = 3601],
     [Base EXCEPT !.short = FALSE],
     [Base EXCEPT !.valid = FALSE]}
=============================================================================
