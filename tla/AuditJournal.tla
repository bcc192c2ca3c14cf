---------------------------- MODULE AuditJournal ----------------------------
(***************************************************************************)
(* What the audit journal promises: for each authority domain, one         *)
(* sequence of events that only ever grows at its end.  AuditChain, where  *)
(* several services read the head, seal and insert without a common lock,  *)
(* is shown to implement this module.                                      *)
(***************************************************************************)
EXTENDS Naturals, Sequences

CONSTANTS Domains,  \* authority domains (authority_domain)
          Events    \* sealed events

VARIABLE journal    \* journal[d]: the events of domain d, in chain order

Recorded ==
    UNION {{journal[d][i] : i \in DOMAIN journal[d]} : d \in Domains}

Init == journal = [d \in Domains |-> <<>>]

(* One event, never recorded before, becomes the last of its domain.       *)
Record(d, e) ==
    /\ e \notin Recorded
    /\ journal' = [journal EXCEPT ![d] = Append(@, e)]

Next == \E d \in Domains, e \in Events : Record(d, e)

Spec == Init /\ [][Next]_journal
=============================================================================
