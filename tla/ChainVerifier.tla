--------------------------- MODULE ChainVerifier ---------------------------
(***************************************************************************)
(* verify_chain (crates/zs-audit/src/chain.rs), the check of an exported   *)
(* journal: a walk over the entries that remembers the last one of each    *)
(* authority domain and stops at the first that does not follow.           *)
(***************************************************************************)
EXTENDS SealedEvents, Sequences, FiniteSets

(* Mutant of CheckEntry: the first sequence of a domain is not checked.    *)
CheckEntryAnyStart(last, entry) ==
    IF entry.authority_domain \notin DOMAIN last
    THEN IF entry.prev_hash # CHAIN_ROOT THEN "InvalidRoot" ELSE "Ok"
    ELSE LET prev == last[entry.authority_domain]
         IN IF entry.sequence # prev.sequence + 1 THEN "SequenceGap"
            ELSE IF entry.prev_hash # hash_sealed_event(prev.sealed_bytes)
                 THEN "BrokenLink"
            ELSE "Ok"

(* The body of the loop: last is last_by_domain, the last entry met of     *)
(* each domain.                                                            *)
CheckEntry(last, entry) ==
    IF entry.authority_domain \notin DOMAIN last
    THEN IF entry.prev_hash # CHAIN_ROOT THEN "InvalidRoot"
         ELSE IF entry.sequence # 0 THEN "FirstSequenceNotZero"
         ELSE "Ok"
    ELSE LET prev == last[entry.authority_domain]
         IN IF entry.sequence # prev.sequence + 1 THEN "SequenceGap"
            ELSE IF entry.prev_hash # hash_sealed_event(prev.sealed_bytes)
                 THEN "BrokenLink"
            ELSE "Ok"

(* last_by_domain.insert.                                                  *)
Remember(last, entry) ==
    [d \in DOMAIN last \cup {entry.authority_domain} |->
        IF d = entry.authority_domain THEN entry ELSE last[d]]

(* One turn of the loop: nothing is looked at after the first error.       *)
CheckNext(st, entry) ==
    IF st.verdict # "Ok" THEN st
    ELSE [verdict |-> CheckEntry(st.last, entry),
          last |-> Remember(st.last, entry)]

(* The states of the loop: before it, and after each entry.                *)
Turns(es) ==
    LET st[n \in 0..Len(es)] ==
          IF n = 0 THEN [verdict |-> "Ok", last |-> <<>>]
          ELSE CheckNext(st[n - 1], es[n])
    IN st

verify_chain(es) ==
    IF es = <<>> THEN "Empty" ELSE Turns(es)[Len(es)].verdict

-----------------------------------------------------------------------------
(* The earlier entries of the domain of the i-th one.                      *)
EarlierOfDomain(es, i) ==
    {j \in 1..i - 1 : es[j].authority_domain = es[i].authority_domain}

(* The doc comment of verify_chain: a chain per domain, numbered from 0,   *)
(* each entry linked to the one before it, the first one to the root,      *)
(* however the domains are interleaved.                                    *)
WellChained(es) ==
    \A i \in 1..Len(es) :
        LET earlier == EarlierOfDomain(es, i)
        IN /\ es[i].sequence = Cardinality(earlier)
           /\ earlier = {} => es[i].prev_hash = CHAIN_ROOT
           /\ \A j \in earlier : (\A k \in earlier : k <= j) =>
                 es[i].prev_hash = hash_sealed_event(es[j].sealed_bytes)
=============================================================================
