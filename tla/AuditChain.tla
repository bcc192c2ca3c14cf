----------------------------- MODULE AuditChain -----------------------------
(***************************************************************************)
(* The hash-chained audit journal (table audit.events) and its two kinds   *)
(* of writers:                                                             *)
(*                                                                         *)
(*  - audit-collector, whose Record handler reads the chain head, has the  *)
(*    previous event hashed and the new one sealed by audit-sealer, and    *)
(*    inserts the row (collector.go);                                      *)
(*  - identity-provider, which does the same in process for its own        *)
(*    authority domain (seal_and_append_audit_event).                      *)
(*                                                                         *)
(* Nothing is locked between the read of the head and the INSERT: the      *)
(* UNIQUE index on (authority_domain, sequence) is the only arbiter.       *)
(*                                                                         *)
(* An element of Collectors or Providers is one request being handled.     *)
(* Event identifiers and sealed bytes are both fresh for each sealing      *)
(* (UUIDv7, randomised signature) and a request seals at most once, so a   *)
(* number drawn at sealing stands for both.  Postgres and audit-sealer may *)
(* fail at every call, an INSERT may commit and its answer be lost, and a  *)
(* service may crash between any two calls.                                *)
(***************************************************************************)
EXTENDS ChainVerifier

CONSTANTS Collectors,  \* requests served by audit-collector
          Providers,   \* requests served by identity-provider
          Domains,     \* authority domains
          IdpDomain,   \* the authority domain of identity-provider
          MaxSeals     \* bound on the number of sealings

ASSUME AuditAssumption ==
    /\ Collectors \cap Providers = {}
    /\ IdpDomain \in Domains
    /\ MaxSeals \in Nat

VARIABLES events,     \* rows of audit.events
          signed,     \* every event ever sealed, persisted or not (history)
          pc,         \* pc[w]: the next call of the request w
          req,        \* req[w]: the raw event: its domain, and whether
                      \*         audit-sealer recognises its fields
          head,       \* head[w]: the chain head w has read
          prev_hash,  \* prev_hash[w]: the digest w will chain to
          sealed,     \* sealed[w]: the sealed event w is about to insert
          reply       \* reply[w]: what the last request of w was answered

vars == <<events, signed, pc, req, head, prev_hash, sealed, reply>>

Writers == Collectors \cup Providers

-----------------------------------------------------------------------------
Event == [authority_domain : Domains, sequence : Nat, prev_hash : Digest,
          sealed_bytes : SealedBytes]
NoEvent == [sealed_bytes |-> NoBytes]
RawEvent == [authority_domain : Domains, recognised : BOOLEAN]
ChainHead == [next_sequence : Nat, prev_sealed_bytes : Nat]
Answer == [status : {"none", "refused"}]
            \cup [status : {"error"}, cause : {"unavailable", "conflict"}]
            \cup [status : {"accepted"}, event : Event]
Error(cause) == [status |-> "error", cause |-> cause]

PC == {"idle", "chain_head", "hash_previous", "seal", "append"}

TypeOK ==
    /\ events \subseteq Event
    /\ signed \subseteq Event
    /\ pc \in [Writers -> PC]
    /\ req \in [Writers -> RawEvent]
    /\ head \in [Writers -> ChainHead]
    /\ prev_hash \in [Writers -> Digest]
    /\ sealed \in [Writers -> Event \cup {NoEvent}]
    /\ reply \in [Writers -> Answer]

EventsOf(d) == {e \in events : e.authority_domain = d}
Idle(w) == pc[w] = "idle"

(* What a request under way is answered ends it.                           *)
Return(w, answer) ==
    /\ reply' = [reply EXCEPT ![w] = answer]
    /\ pc' = [pc EXCEPT ![w] = "idle"]
    /\ sealed' = [sealed EXCEPT ![w] = NoEvent]

(* Sealings done, or still possible for the requests under way.            *)
SealsDue == Cardinality(signed)
              + Cardinality({w \in Writers : pc[w] \in PC \ {"idle", "append"}})

Init ==
    /\ events = {}
    /\ signed = {}
    /\ pc = [w \in Writers |-> "idle"]
    /\ req = [w \in Writers |->
                [authority_domain |-> IdpDomain, recognised |-> TRUE]]
    /\ head = [w \in Writers |->
                [next_sequence |-> 0, prev_sealed_bytes |-> NoBytes]]
    /\ prev_hash = [w \in Writers |-> CHAIN_ROOT]
    /\ sealed = [w \in Writers |-> NoEvent]
    /\ reply = [w \in Writers |-> [status |-> "none"]]

-----------------------------------------------------------------------------
(* A request arrives.  A collector records any domain it is sent; the      *)
(* provider only its own, with fields it has built itself.                 *)
Begin(w) ==
    /\ Idle(w)
    /\ SealsDue < MaxSeals
    /\ \E r \in RawEvent :
          /\ w \in Providers => r.authority_domain = IdpDomain /\ r.recognised
          /\ req' = [req EXCEPT ![w] = r]
    /\ pc' = [pc EXCEPT ![w] = "chain_head"]
    /\ reply' = [reply EXCEPT ![w] = [status |-> "none"]]
    /\ UNCHANGED <<events, signed, head, prev_hash, sealed>>

(* SELECT ... ORDER BY sequence DESC LIMIT 1: no row at all, or the row of  *)
(* the domain with the greatest sequence.                                  *)
HeadsOf(d) ==
    IF EventsOf(d) = {}
    THEN {[next_sequence |-> 0, prev_sealed_bytes |-> NoBytes]}
    ELSE {[next_sequence |-> e.sequence + 1,
           prev_sealed_bytes |-> e.sealed_bytes] :
          e \in {m \in EventsOf(d) :
                   \A e \in EventsOf(d) : e.sequence <= m.sequence}}

(* collector.go: the head carries the raw bytes of the previous event;     *)
(* they are hashed by a further call unless there is no previous event.    *)
CollectorReadsHead(w) ==
    /\ w \in Collectors
    /\ pc[w] = "chain_head"
    /\ \E h \in HeadsOf(req[w].authority_domain) :
          /\ head' = [head EXCEPT ![w] = h]
          /\ pc' = [pc EXCEPT ![w] = IF h.prev_sealed_bytes = NoBytes
                                     THEN "seal" ELSE "hash_previous"]
    /\ prev_hash' = [prev_hash EXCEPT ![w] = CHAIN_ROOT]
    /\ UNCHANGED <<events, signed, req, sealed, reply>>

(* Mutant of HashPrevious: the head is read again after every hashing.     *)
HashPreviousThenReread(w) ==
    /\ pc[w] = "hash_previous"
    /\ prev_hash' = [prev_hash EXCEPT ![w] =
                        hash_sealed_event(head[w].prev_sealed_bytes)]
    /\ pc' = [pc EXCEPT ![w] = "chain_head"]
    /\ UNCHANGED <<events, signed, req, head, sealed, reply>>

(* AuditSealingService.HashPrevious on the bytes of the head.              *)
HashPrevious(w) ==
    /\ pc[w] = "hash_previous"
    /\ prev_hash' = [prev_hash EXCEPT ![w] =
                        hash_sealed_event(head[w].prev_sealed_bytes)]
    /\ pc' = [pc EXCEPT ![w] = "seal"]
    /\ UNCHANGED <<events, signed, req, head, sealed, reply>>

(* Mutant of ProviderReadsHead: every event is chained to the root.        *)
ProviderChainsToRoot(w) ==
    /\ w \in Providers
    /\ pc[w] = "chain_head"
    /\ \E h \in HeadsOf(req[w].authority_domain) :
          head' = [head EXCEPT ![w] = h]
    /\ prev_hash' = [prev_hash EXCEPT ![w] = CHAIN_ROOT]
    /\ pc' = [pc EXCEPT ![w] = "seal"]
    /\ UNCHANGED <<events, signed, req, sealed, reply>>

(* store.rs chain_head: the provider hashes the head as it reads it.       *)
ProviderReadsHead(w) ==
    /\ w \in Providers
    /\ pc[w] = "chain_head"
    /\ \E h \in HeadsOf(req[w].authority_domain) :
          /\ head' = [head EXCEPT ![w] = h]
          /\ prev_hash' = [prev_hash EXCEPT ![w] =
                              IF h.prev_sealed_bytes = NoBytes THEN CHAIN_ROOT
                              ELSE hash_sealed_event(h.prev_sealed_bytes)]
    /\ pc' = [pc EXCEPT ![w] = "seal"]
    /\ UNCHANGED <<events, signed, req, sealed, reply>>

(* The next sealing produces bytes that no earlier one did.                *)
FreshBytes ==
    {b \in 1..MaxSeals :
       /\ \A e \in signed : e.sealed_bytes < b
       /\ b = 1 \/ \E e \in signed : e.sealed_bytes = b - 1}

(* A sealing signs the position and the link read earlier, whatever the    *)
(* journal has become since.                                               *)
Seal(w) ==
    /\ pc[w] = "seal"
    /\ req[w].recognised
    /\ \E b \in FreshBytes :
          LET e == [authority_domain |-> req[w].authority_domain,
                    sequence |-> head[w].next_sequence,
                    prev_hash |-> prev_hash[w],
                    sealed_bytes |-> b]
          IN /\ signed' = signed \cup {e}
             /\ sealed' = [sealed EXCEPT ![w] = e]
    /\ pc' = [pc EXCEPT ![w] = "append"]
    /\ UNCHANGED <<events, req, head, prev_hash, reply>>

(* audit-sealer answers InvalidArgument: a field it does not know.  This   *)
(* is a refusal, answered as a normal Result.                              *)
SealRefused(w) ==
    /\ pc[w] = "seal"
    /\ ~req[w].recognised
    /\ Return(w, [status |-> "refused"])
    /\ UNCHANGED <<events, signed, req, head, prev_hash>>

(* Mutant of Occupied: the table has its primary key only.                 *)
OccupiedByKey(e) == \E f \in events : f.sealed_bytes = e.sealed_bytes

(* The UNIQUE index on (authority_domain, sequence).                       *)
Occupied(e) ==
    \E f \in events : /\ f.authority_domain = e.authority_domain
                      /\ f.sequence = e.sequence

(* Mutant of AppendEvent: earlier events that were sealed and not inserted *)
(* are flushed along.                                                      *)
AppendEventAndFlush(w) ==
    /\ pc[w] = "append"
    /\ ~Occupied(sealed[w])
    /\ events' = events \cup {sealed[w]}
                    \cup {e \in signed : ~Occupied(e)
                                           /\ e.sequence # sealed[w].sequence}
    /\ Return(w, [status |-> "accepted", event |-> sealed[w]])
    /\ UNCHANGED <<signed, req, head, prev_hash>>

(* INSERT INTO audit.events succeeds.                                      *)
AppendEvent(w) ==
    /\ pc[w] = "append"
    /\ ~Occupied(sealed[w])
    /\ events' = events \cup {sealed[w]}
    /\ Return(w, [status |-> "accepted", event |-> sealed[w]])
    /\ UNCHANGED <<signed, req, head, prev_hash>>

(* The INSERT commits and its answer is lost: the request fails although   *)
(* its event is in the journal.                                            *)
AppendUnacknowledged(w) ==
    /\ pc[w] = "append"
    /\ ~Occupied(sealed[w])
    /\ events' = events \cup {sealed[w]}
    /\ Return(w, Error("unavailable"))
    /\ UNCHANGED <<signed, req, head, prev_hash>>

(* Mutant of AppendConflict: INSERT ... ON CONFLICT DO NOTHING.            *)
AppendConflictIgnored(w) ==
    /\ pc[w] = "append"
    /\ Occupied(sealed[w])
    /\ Return(w, [status |-> "accepted", event |-> sealed[w]])
    /\ UNCHANGED <<events, signed, req, head, prev_hash>>

(* Mutant of AppendConflict: INSERT ... ON CONFLICT DO UPDATE.             *)
AppendConflictOverwrites(w) ==
    /\ pc[w] = "append"
    /\ Occupied(sealed[w])
    /\ events' = {sealed[w]} \cup
                    {e \in events :
                       \/ e.authority_domain # sealed[w].authority_domain
                       \/ e.sequence # sealed[w].sequence}
    /\ Return(w, [status |-> "accepted", event |-> sealed[w]])
    /\ UNCHANGED <<signed, req, head, prev_hash>>

(* Another writer took the position: the sealed event is abandoned, never  *)
(* renumbered and never sealed again.                                      *)
AppendConflict(w) ==
    /\ pc[w] = "append"
    /\ Occupied(sealed[w])
    /\ Return(w, Error("conflict"))
    /\ UNCHANGED <<events, signed, req, head, prev_hash>>

(* Any of the calls fails (Postgres, audit-sealer or the HSM out of reach, *)
(* the caller's context cancelled): the request is answered an error.      *)
CallFails(w) ==
    /\ ~Idle(w)
    /\ Return(w, Error("unavailable"))
    /\ UNCHANGED <<events, signed, req, head, prev_hash>>

(* A service crashes: its requests vanish unanswered, what they had sealed *)
(* included.                                                               *)
Crash(service) ==
    /\ \E w \in service : ~Idle(w)
    /\ pc' = [w \in Writers |-> IF w \in service THEN "idle" ELSE pc[w]]
    /\ sealed' = [w \in Writers |-> IF w \in service THEN NoEvent
                                    ELSE sealed[w]]
    /\ reply' = [w \in Writers |->
                   IF w \in service /\ ~Idle(w) THEN [status |-> "none"]
                   ELSE reply[w]]
    /\ UNCHANGED <<events, signed, req, head, prev_hash>>

Step(w) ==
    \/ CollectorReadsHead(w)
    \/ HashPrevious(w)
    \/ ProviderReadsHead(w)
    \/ Seal(w)
    \/ SealRefused(w)
    \/ AppendEvent(w)
    \/ AppendUnacknowledged(w)
    \/ AppendConflict(w)
    \/ CallFails(w)

(* The bound on sealings is reached and every request is answered.         *)
Quiescent ==
    /\ \A w \in Writers : Idle(w)
    /\ SealsDue >= MaxSeals
    /\ UNCHANGED vars

Next ==
    \/ \E w \in Writers : Begin(w) \/ Step(w)
    \/ Crash(Collectors)
    \/ Crash(Providers)
    \/ Quiescent

Spec == Init /\ [][Next]_vars

(* Every call returns or fails: gRPC and Postgres calls end when their     *)
(* connection breaks, and a wait for an HSM session is bounded.            *)
FairSpec == Spec /\ \A w \in Writers : WF_vars(Step(w))

-----------------------------------------------------------------------------
(* An event is at the start of its domain's chain, or just after a row of  *)
(* the journal.                                                            *)
Follows(e) ==
    \/ e.sequence = 0 /\ e.prev_hash = CHAIN_ROOT
    \/ \E p \in events :
          /\ p.authority_domain = e.authority_domain
          /\ e.sequence = p.sequence + 1
          /\ e.prev_hash = hash_sealed_event(p.sealed_bytes)

(* The journal of every domain is one chain (migration 002 on gaps,        *)
(* sink.rs on forks): no two rows share a position, the first row is at    *)
(* sequence 0 and chained to the root, and every other row is chained to   *)
(* the digest of the row just before it -- although every writer computed  *)
(* its position and its link from a head that may be stale.                *)
ChainIntact ==
    /\ \A e, f \in events :
          /\ e.authority_domain = f.authority_domain
          /\ e.sequence = f.sequence
          => e = f
    /\ \A e \in events : Follows(e)

(* Every way of exporting the table that keeps each domain in the order of *)
(* its sequence; the domains may be interleaved in any way.                *)
Exports ==
    {rows \in [1..Cardinality(events) -> events] :
       /\ \A e \in events : \E i \in DOMAIN rows : rows[i] = e
       /\ \A i, j \in DOMAIN rows :
             /\ i < j
             /\ rows[i].authority_domain = rows[j].authority_domain
             => rows[i].sequence < rows[j].sequence}

(* What the two writers insert is what the verifier expects: at any moment *)
(* verify_chain (chain.rs) accepts every export of the journal, whoever    *)
(* wrote each row.                                                         *)
VerifierAccepts ==
    events # {} => \A rows \in Exports : verify_chain(rows) = "Ok"

(* A request answered Accepted with a sequence (collector.go:132), or Ok   *)
(* in identity-provider, has its event in the journal at that position,    *)
(* and no two requests are told that they got the same position.           *)
AcceptedIsRecorded ==
    \A w \in Writers : reply[w].status = "accepted" =>
        /\ reply[w].event \in events
        /\ \A v \in Writers \ {w} : reply[v].status = "accepted" =>
              reply[v].event # reply[w].event

(* An event that was sealed and not inserted when its request ended is     *)
(* lost for good: nothing inserts it later, under its position or another  *)
(* (collector.go:124-128, sink.rs:29-33).                                  *)
LostStaysLost ==
    [][\A e \in signed \ events :
          (\A w \in Writers : sealed[w] # e) => e \notin events']_vars

(* Every request is answered or its service crashes (collector.go Record). *)
EveryRequestEnds == \A w \in Writers : ~Idle(w) ~> Idle(w)

(* The journal as AuditJournal sees it: the sealed bytes of the rows of a  *)
(* domain, by sequence.                                                    *)
Chain(d) ==
    [i \in 1..Cardinality(EventsOf(d)) |->
        (CHOOSE e \in EventsOf(d) : e.sequence = i - 1).sealed_bytes]

Journal == INSTANCE AuditJournal
           WITH journal <- [d \in Domains |-> Chain(d)],
                Events <- 1..MaxSeals

(* The writers together implement an append-only journal per domain.       *)
ImplementsJournal == Journal!Spec
=============================================================================
