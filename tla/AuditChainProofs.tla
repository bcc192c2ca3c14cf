-------------------------- MODULE AuditChainProofs --------------------------
(***************************************************************************)
(* Proofs about the audit journal, for any number of requests, domains,    *)
(* sealings and entries:                                                   *)
(*                                                                         *)
(*  - AuditChain: the journal is one chain per domain, what was accepted   *)
(*    is recorded, and what was lost stays lost;                           *)
(*  - its writers implement AuditJournal: what they do to the table,       *)
(*    without a lock, is to append one new event at a time at the end of   *)
(*    its domain;                                                          *)
(*  - ChainVerifier: verify_chain accepts exactly the exports that are     *)
(*    well chained, hence every export of the journal, and so does the     *)
(*    auditor of OfflineVerifier.                                          *)
(***************************************************************************)
EXTENDS AuditChain, OfflineVerifier, CivilCalendarProofs, FiniteSetTheorems,
        SequenceTheorems, TLAPS

(* Every sealing produced bytes of its own, and only sealed events are     *)
(* inserted.                                                               *)
SealsAreUnique ==
    /\ events \subseteq signed
    /\ \A e, f \in signed : e.sealed_bytes = f.sealed_bytes => e = f

(* The head a request has read was the start of the chain or a row that is *)
(* still there: stale it may be, wrong it is not.                          *)
HeadIsARow(w) ==
    \/ /\ head[w].next_sequence = 0
       /\ head[w].prev_sealed_bytes = NoBytes
    \/ \E p \in events :
          /\ p.authority_domain = req[w].authority_domain
          /\ head[w].next_sequence = p.sequence + 1
          /\ head[w].prev_sealed_bytes = p.sealed_bytes

HeadsAreRows ==
    \A w \in Writers :
        /\ pc[w] \in {"hash_previous", "seal"} => HeadIsARow(w)
        /\ pc[w] = "seal" =>
              prev_hash[w] = hash_sealed_event(head[w].prev_sealed_bytes)

(* What a request is about to insert is a sealed event of its own, not in  *)
(* the journal, that follows a row of it.                                  *)
PendingFollow ==
    \A w \in Writers :
        IF pc[w] = "append"
        THEN /\ sealed[w] \in signed \ events
             /\ Follows(sealed[w])
             /\ \A v \in Writers \ {w} : sealed[v] # sealed[w]
        ELSE sealed[w] = NoEvent

(* The inductive invariant.                                                *)
IInv ==
    /\ TypeOK
    /\ SealsAreUnique
    /\ HeadsAreRows
    /\ PendingFollow
    /\ ChainIntact
    /\ AcceptedIsRecorded

-----------------------------------------------------------------------------
LEMMA TypeInit == Init => TypeOK
BY AuditAssumption DEF Init, TypeOK, RawEvent, ChainHead, Digest, CHAIN_ROOT,
   NoBytes, Answer, PC

(* The heads that can be read have the type of a head.                     *)
LEMMA HeadsType ==
    ASSUME TypeOK, NEW d, NEW h \in HeadsOf(d)
    PROVE  h \in ChainHead
BY DEF TypeOK, HeadsOf, EventsOf, ChainHead, Event, SealedBytes, NoBytes

LEMMA AnswerType ==
    /\ Error("unavailable") \in Answer
    /\ Error("conflict") \in Answer
    /\ [status |-> "none"] \in Answer
    /\ [status |-> "refused"] \in Answer
    /\ \A e \in Event : [status |-> "accepted", event |-> e] \in Answer
BY DEF Answer, Error

LEMMA TypeStep ==
    ASSUME TypeOK, PendingFollow, [Next]_vars
    PROVE  TypeOK'
<1>1. CASE UNCHANGED vars
  BY <1>1 DEF vars, TypeOK
<1>2. ASSUME NEW w \in Writers, Begin(w) PROVE TypeOK'
  BY <1>2, AnswerType DEF Begin, TypeOK, PC
<1>3. ASSUME NEW w \in Writers, CollectorReadsHead(w) PROVE TypeOK'
  BY <1>3, HeadsType DEF CollectorReadsHead, TypeOK, PC, CHAIN_ROOT, Digest,
     NoBytes
<1>4. ASSUME NEW w \in Writers, HashPrevious(w) PROVE TypeOK'
  <2>1. hash_sealed_event(head[w].prev_sealed_bytes) \in Digest
    BY DEF TypeOK, ChainHead, Digest, hash_sealed_event
  <2> QED
    BY <1>4, <2>1 DEF HashPrevious, TypeOK, PC
<1>5. ASSUME NEW w \in Writers, ProviderReadsHead(w) PROVE TypeOK'
  <2>1. PICK h \in HeadsOf(req[w].authority_domain) :
          /\ head' = [head EXCEPT ![w] = h]
          /\ prev_hash' = [prev_hash EXCEPT ![w] =
                              IF h.prev_sealed_bytes = NoBytes THEN CHAIN_ROOT
                              ELSE hash_sealed_event(h.prev_sealed_bytes)]
    BY <1>5, Zenon DEF ProviderReadsHead
  <2>2. h \in ChainHead
    BY HeadsType
  <2>3. CHAIN_ROOT \in Digest /\ hash_sealed_event(h.prev_sealed_bytes) \in Digest
    BY <2>2 DEF ChainHead, Digest, hash_sealed_event, CHAIN_ROOT, NoBytes
  <2> QED
    BY <1>5, <2>1, <2>2, <2>3 DEF ProviderReadsHead, TypeOK, PC
<1>6. ASSUME NEW w \in Writers, Seal(w) PROVE TypeOK'
  <2>1. PICK b \in FreshBytes :
          LET e == [authority_domain |-> req[w].authority_domain,
                    sequence |-> head[w].next_sequence,
                    prev_hash |-> prev_hash[w],
                    sealed_bytes |-> b]
          IN /\ signed' = signed \cup {e}
             /\ sealed' = [sealed EXCEPT ![w] = e]
    BY <1>6, Zenon DEF Seal
  <2>2. b \in SealedBytes
    BY AuditAssumption DEF FreshBytes, SealedBytes, NoBytes
  <2>3. [authority_domain |-> req[w].authority_domain,
         sequence |-> head[w].next_sequence,
         prev_hash |-> prev_hash[w],
         sealed_bytes |-> b] \in Event
    BY <2>2 DEF Event, TypeOK, RawEvent, ChainHead
  <2> QED
    BY <1>6, <2>1, <2>3 DEF Seal, TypeOK, PC
<1>7. ASSUME NEW w \in Writers, SealRefused(w) PROVE TypeOK'
  BY <1>7, AnswerType DEF SealRefused, Return, TypeOK, PC
<1>8. ASSUME NEW w \in Writers, AppendConflict(w) PROVE TypeOK'
  BY <1>8, AnswerType DEF AppendConflict, Return, TypeOK, PC
<1>9. ASSUME NEW w \in Writers, CallFails(w) PROVE TypeOK'
  BY <1>9, AnswerType DEF CallFails, Return, TypeOK, PC
<1>10. ASSUME NEW w \in Writers, AppendEvent(w) \/ AppendUnacknowledged(w)
       PROVE TypeOK'
  <2>1. sealed[w] \in Event
    BY <1>10 DEF AppendEvent, AppendUnacknowledged, PendingFollow, TypeOK
  <2> QED
    BY <1>10, <2>1, AnswerType DEF AppendEvent, AppendUnacknowledged, Return,
       TypeOK, PC
<1>11. ASSUME NEW service, Crash(service) PROVE TypeOK'
  BY <1>11, AnswerType DEF Crash, TypeOK, PC
<1> QED
  BY <1>1, <1>2, <1>3, <1>4, <1>5, <1>6, <1>7, <1>8, <1>9, <1>10, <1>11
     DEF Next, Step, Quiescent

-----------------------------------------------------------------------------
(* A request about to insert holds a sealed event.                         *)
LEMMA PendingIsEvent ==
    ASSUME IInv
    PROVE  \A v \in Writers : pc[v] = "append" => sealed[v] # NoEvent
BY DEF IInv, TypeOK, PendingFollow, NoEvent, NoBytes, Event, SealedBytes

(* A request that ends without an insertion keeps the invariant: the       *)
(* journal is the same and the request no longer holds a sealed event.     *)
LEMMA ReturnKeeps ==
    ASSUME IInv, TypeOK',
           NEW w \in Writers, NEW a, a.status # "accepted",
           Return(w, a), UNCHANGED <<events, signed, req, head, prev_hash>>
    PROVE  IInv'
<1> USE DEF TypeOK
<1>1. SealsAreUnique' /\ ChainIntact'
  BY DEF IInv, SealsAreUnique, ChainIntact, Follows
<1>2. HeadsAreRows'
  BY DEF IInv, HeadsAreRows, HeadIsARow, Return
<1>3. PendingFollow'
  <2>1. \A v \in Writers : pc[v] = "append" => sealed[v] # NoEvent
    BY PendingIsEvent
  <2> QED
    BY <2>1 DEF IInv, PendingFollow, Follows, Return
<1>4. AcceptedIsRecorded'
  BY DEF IInv, AcceptedIsRecorded, Return
<1> QED
  BY <1>1, <1>2, <1>3, <1>4 DEF IInv

(* A request that takes a step before its insertion, without touching the  *)
(* journal, only has its own head and link to account for.                 *)
LEMMA ReadKeeps ==
    ASSUME IInv, TypeOK', NEW w \in Writers,
           pc[w] # "append", NEW p \in PC \ {"append"},
           pc' = [pc EXCEPT ![w] = p],
           UNCHANGED <<events, signed, sealed>>,
           \A v \in Writers \ {w} : /\ req'[v] = req[v]
                                    /\ head'[v] = head[v]
                                    /\ prev_hash'[v] = prev_hash[v],
           \A v \in Writers : \/ reply'[v] = reply[v]
                              \/ reply'[v].status # "accepted",
           p \in {"hash_previous", "seal"} => HeadIsARow(w)',
           p = "seal" =>
              prev_hash'[w] = hash_sealed_event(head'[w].prev_sealed_bytes)
    PROVE  IInv'
<1> USE DEF TypeOK
<1>1. SealsAreUnique' /\ ChainIntact'
  BY DEF IInv, SealsAreUnique, ChainIntact, Follows
<1>2. HeadsAreRows'
  BY DEF IInv, HeadsAreRows, HeadIsARow
<1>3. PendingFollow'
  BY DEF IInv, PendingFollow, Follows
<1>4. AcceptedIsRecorded'
  BY DEF IInv, AcceptedIsRecorded
<1> QED
  BY <1>1, <1>2, <1>3, <1>4 DEF IInv

(* A head just read is a row of the journal.                               *)
LEMMA HeadJustRead ==
    ASSUME TypeOK, NEW d, NEW h \in HeadsOf(d)
    PROVE  \/ h.next_sequence = 0 /\ h.prev_sealed_bytes = NoBytes
           \/ \E p \in events :
                 /\ p.authority_domain = d
                 /\ h.next_sequence = p.sequence + 1
                 /\ h.prev_sealed_bytes = p.sealed_bytes
BY DEF HeadsOf, EventsOf, TypeOK, Event

(* Sealing: the new event follows the row whose head was read.             *)
LEMMA SealKeeps ==
    ASSUME IInv, TypeOK', NEW w \in Writers, Seal(w)
    PROVE  IInv'
<1> USE DEF TypeOK
<1>1. PICK b \in FreshBytes :
        LET e == [authority_domain |-> req[w].authority_domain,
                  sequence |-> head[w].next_sequence,
                  prev_hash |-> prev_hash[w],
                  sealed_bytes |-> b]
        IN /\ signed' = signed \cup {e}
           /\ sealed' = [sealed EXCEPT ![w] = e]
  BY Zenon DEF Seal
<1> DEFINE e == [authority_domain |-> req[w].authority_domain,
                 sequence |-> head[w].next_sequence,
                 prev_hash |-> prev_hash[w],
                 sealed_bytes |-> b]
<1>2. /\ signed' = signed \cup {e}
      /\ sealed' = [sealed EXCEPT ![w] = e]
      /\ pc' = [pc EXCEPT ![w] = "append"]
      /\ UNCHANGED <<events, req, head, prev_hash, reply>>
      /\ pc[w] = "seal"
  BY <1>1, Zenon DEF Seal
<1>3. /\ e.authority_domain = req[w].authority_domain
      /\ e.sequence = head[w].next_sequence
      /\ e.prev_hash = prev_hash[w]
      /\ e.sealed_bytes = b
  OBVIOUS
<1>4. b \in Nat /\ b # NoBytes /\ \A f \in signed : f.sealed_bytes < b
  BY AuditAssumption DEF FreshBytes, NoBytes
<1>5. \A f \in signed : f.sealed_bytes # b
  BY <1>4 DEF Event, SealedBytes
<1>6. e \notin signed
  BY <1>3, <1>5
<1>7. Follows(e)
  <2>1. /\ HeadIsARow(w)
        /\ prev_hash[w] = hash_sealed_event(head[w].prev_sealed_bytes)
    BY <1>2 DEF IInv, HeadsAreRows
  <2> QED
    BY <1>3, <2>1 DEF HeadIsARow, Follows, hash_sealed_event, CHAIN_ROOT
<1> HIDE DEF e
<1>8. SealsAreUnique'
  BY <1>2, <1>3, <1>5 DEF IInv, SealsAreUnique
<1>9. ChainIntact' /\ AcceptedIsRecorded'
  BY <1>2 DEF IInv, ChainIntact, Follows, AcceptedIsRecorded
<1>10. HeadsAreRows'
  BY <1>2 DEF IInv, HeadsAreRows, HeadIsARow
<1>11. PendingFollow'
  <2>1. \A v \in Writers : sealed[v] # e
    BY <1>3, <1>4, <1>6 DEF IInv, PendingFollow, NoEvent
  <2>2. e \notin events
    BY <1>6 DEF IInv, SealsAreUnique
  <2>3. sealed'[w] = e /\ Follows(sealed[w])'
    BY <1>2, <1>7 DEF Follows
  <2> QED
    BY <1>2, <2>1, <2>2, <2>3, <1>7 DEF IInv, PendingFollow, Follows
<1> QED
  BY <1>8, <1>9, <1>10, <1>11 DEF IInv

(* Inserting: the unique index makes the pending event the only one at its *)
(* position, and the row it follows is still there.                        *)
LEMMA InsertKeeps ==
    ASSUME IInv, TypeOK', NEW w \in Writers,
           AppendEvent(w) \/ AppendUnacknowledged(w)
    PROVE  IInv'
<1> USE DEF TypeOK
<1> DEFINE e == sealed[w]
<1>1. /\ pc[w] = "append"
      /\ ~Occupied(e)
      /\ events' = events \cup {e}
      /\ UNCHANGED <<signed, req, head, prev_hash>>
      /\ pc' = [pc EXCEPT ![w] = "idle"]
      /\ sealed' = [sealed EXCEPT ![w] = NoEvent]
      /\ \A v \in Writers \ {w} : reply'[v] = reply[v]
      /\ reply'[w].status = "accepted" => reply'[w].event = e
  BY DEF AppendEvent, AppendUnacknowledged, Return, Error
<1>2. /\ e \in signed \ events
      /\ Follows(e)
      /\ \A v \in Writers \ {w} : sealed[v] # e
      /\ e \in Event
  BY <1>1 DEF IInv, PendingFollow
<1> HIDE DEF e
<1>3. SealsAreUnique'
  BY <1>1, <1>2 DEF IInv, SealsAreUnique
<1>4. ChainIntact'
  <2>1. \A f \in events' : Follows(f)'
    BY <1>1, <1>2 DEF IInv, ChainIntact, Follows
  <2>2. \A f, g \in events' :
          f.authority_domain = g.authority_domain /\ f.sequence = g.sequence
             => f = g
    BY <1>1 DEF IInv, ChainIntact, Occupied
  <2> QED
    BY <2>1, <2>2, Zenon DEF ChainIntact
<1>5. HeadsAreRows'
  BY <1>1 DEF IInv, HeadsAreRows, HeadIsARow
<1>6. PendingFollow'
  <2>1. \A v \in Writers \ {w} : pc[v] = "append" =>
           sealed'[v] \in signed' \ events' /\ Follows(sealed[v])'
    BY <1>1, <1>2 DEF IInv, PendingFollow, Follows
  <2>2. \A v \in Writers : pc'[v] = "append" =>
           \A u \in Writers \ {v} : sealed'[u] # sealed'[v]
    <3>1. \A v \in Writers : pc[v] = "append" => sealed[v] # NoEvent
      BY PendingIsEvent, Zenon
    <3> QED
      BY <1>1, <3>1 DEF IInv, PendingFollow
  <2> QED
    BY <1>1, <2>1, <2>2, Zenon DEF IInv, PendingFollow, Follows
<1>7. AcceptedIsRecorded'
  BY <1>1, <1>2 DEF IInv, AcceptedIsRecorded
<1> QED
  BY <1>3, <1>4, <1>5, <1>6, <1>7, Zenon DEF IInv

LEMMA InitIInv == Init => IInv
<1> SUFFICES ASSUME Init PROVE IInv
  OBVIOUS
<1>1. SealsAreUnique /\ ChainIntact
  BY DEF Init, SealsAreUnique, ChainIntact
<1>2. HeadsAreRows
  BY DEF Init, HeadsAreRows
<1>3. PendingFollow
  BY DEF Init, PendingFollow
<1>4. AcceptedIsRecorded
  BY DEF Init, AcceptedIsRecorded
<1> QED
  BY <1>1, <1>2, <1>3, <1>4, TypeInit DEF IInv

LEMMA StepIInv == IInv /\ [Next]_vars => IInv'
<1> SUFFICES ASSUME IInv, [Next]_vars PROVE IInv'
  OBVIOUS
<1>1. TypeOK'
  BY TypeStep, Zenon DEF IInv
<1> USE DEF PC
<1>2. CASE UNCHANGED vars
  BY <1>2 DEF vars, IInv, TypeOK, SealsAreUnique, HeadsAreRows, HeadIsARow,
     PendingFollow, Follows, ChainIntact, AcceptedIsRecorded
<1>3. ASSUME NEW w \in Writers, Begin(w) PROVE IInv'
  <2>1. /\ pc[w] # "append"
        /\ pc' = [pc EXCEPT ![w] = "chain_head"]
        /\ UNCHANGED <<events, signed, head, prev_hash, sealed>>
        /\ \A v \in Writers \ {w} : req'[v] = req[v]
        /\ \A v \in Writers : \/ reply'[v] = reply[v]
                              \/ reply'[v].status # "accepted"
    BY <1>3 DEF Begin, Idle, IInv, TypeOK
  <2> QED
    BY <1>1, <2>1, ReadKeeps, Zenon
<1>4. ASSUME NEW w \in Writers, CollectorReadsHead(w) PROVE IInv'
  <2>1. PICK h \in HeadsOf(req[w].authority_domain) :
          /\ head' = [head EXCEPT ![w] = h]
          /\ pc' = [pc EXCEPT ![w] = IF h.prev_sealed_bytes = NoBytes
                                     THEN "seal" ELSE "hash_previous"]
    BY <1>4, Zenon DEF CollectorReadsHead
  <2> DEFINE p == IF h.prev_sealed_bytes = NoBytes THEN "seal"
                  ELSE "hash_previous"
  <2>2. /\ pc[w] # "append" /\ pc' = [pc EXCEPT ![w] = p]
        /\ p \in PC \ {"append"}
        /\ UNCHANGED <<events, signed, req, sealed, reply>>
        /\ prev_hash' = [prev_hash EXCEPT ![w] = CHAIN_ROOT]
    BY <1>4, <2>1, Zenon DEF CollectorReadsHead
  <2>3. head'[w] = h /\ prev_hash'[w] = CHAIN_ROOT
    BY <2>1, <2>2 DEF IInv, TypeOK
  <2>4. HeadIsARow(w)'
    BY <2>2, <2>3, HeadJustRead DEF HeadIsARow, IInv
  <2>5. p = "seal" =>
          prev_hash'[w] = hash_sealed_event(head'[w].prev_sealed_bytes)
    BY <2>3 DEF hash_sealed_event, CHAIN_ROOT
  <2>6. \A v \in Writers \ {w} : head'[v] = head[v]
                                 /\ prev_hash'[v] = prev_hash[v]
    BY <2>1, <2>2, Zenon DEF IInv, TypeOK
  <2> HIDE DEF p
  <2> QED
    BY <1>1, <2>2, <2>4, <2>5, <2>6, ReadKeeps, Zenon
<1>5. ASSUME NEW w \in Writers, HashPrevious(w) PROVE IInv'
  <2>1. /\ pc[w] # "append" /\ pc' = [pc EXCEPT ![w] = "seal"]
        /\ UNCHANGED <<events, signed, req, head, sealed, reply>>
        /\ prev_hash'[w] = hash_sealed_event(head[w].prev_sealed_bytes)
        /\ \A v \in Writers \ {w} : prev_hash'[v] = prev_hash[v]
    BY <1>5 DEF HashPrevious, IInv, TypeOK
  <2>2. HeadIsARow(w)'
    BY <1>5, <2>1 DEF HashPrevious, HeadIsARow, IInv, HeadsAreRows
  <2> QED
    BY <1>1, <2>1, <2>2, ReadKeeps, Zenon
<1>6. ASSUME NEW w \in Writers, ProviderReadsHead(w) PROVE IInv'
  <2>1. PICK h \in HeadsOf(req[w].authority_domain) :
          /\ head' = [head EXCEPT ![w] = h]
          /\ prev_hash' = [prev_hash EXCEPT ![w] =
                              IF h.prev_sealed_bytes = NoBytes THEN CHAIN_ROOT
                              ELSE hash_sealed_event(h.prev_sealed_bytes)]
    BY <1>6, Zenon DEF ProviderReadsHead
  <2>2. /\ pc[w] # "append" /\ pc' = [pc EXCEPT ![w] = "seal"]
        /\ UNCHANGED <<events, signed, req, sealed, reply>>
    BY <1>6 DEF ProviderReadsHead
  <2>3. /\ head'[w] = h
        /\ prev_hash'[w] = hash_sealed_event(h.prev_sealed_bytes)
        /\ \A v \in Writers \ {w} : head'[v] = head[v]
                                    /\ prev_hash'[v] = prev_hash[v]
    BY <2>1 DEF IInv, TypeOK, hash_sealed_event, CHAIN_ROOT
  <2>4. HeadIsARow(w)'
    BY <2>2, <2>3, HeadJustRead DEF HeadIsARow, IInv
  <2> QED
    BY <1>1, <2>2, <2>3, <2>4, ReadKeeps, Zenon
<1>7. ASSUME NEW w \in Writers, Seal(w) PROVE IInv'
  BY <1>1, <1>7, SealKeeps
<1>8. ASSUME NEW w \in Writers, SealRefused(w) PROVE IInv'
  BY <1>1, <1>8, ReturnKeeps DEF SealRefused
<1>9. ASSUME NEW w \in Writers, AppendEvent(w) \/ AppendUnacknowledged(w)
      PROVE IInv'
  BY <1>1, <1>9, InsertKeeps
<1>10. ASSUME NEW w \in Writers, AppendConflict(w) PROVE IInv'
  <2>1. Error("conflict").status # "accepted"
    BY DEF Error
  <2> QED
    BY <1>1, <1>10, <2>1, ReturnKeeps DEF AppendConflict
<1>11. ASSUME NEW w \in Writers, CallFails(w) PROVE IInv'
  <2>1. Error("unavailable").status # "accepted"
    BY DEF Error
  <2> QED
    BY <1>1, <1>11, <2>1, ReturnKeeps DEF CallFails
<1>12. ASSUME NEW service, Crash(service) PROVE IInv'
  <2> USE <1>12 DEF Crash, TypeOK
  <2>1. SealsAreUnique' /\ ChainIntact'
    BY Zenon DEF IInv, SealsAreUnique, ChainIntact, Follows
  <2>2. HeadsAreRows'
    BY DEF IInv, HeadsAreRows, HeadIsARow
  <2>3. PendingFollow'
    BY PendingIsEvent, Zenon DEF IInv, PendingFollow, Follows
  <2>4. AcceptedIsRecorded'
    BY Zenon DEF IInv, AcceptedIsRecorded
  <2> QED
    BY <1>1, <2>1, <2>2, <2>3, <2>4 DEF IInv
<1> QED
  BY <1>2, <1>3, <1>4, <1>5, <1>6, <1>7, <1>8, <1>9, <1>10, <1>11, <1>12
     DEF Next, Step, Quiescent

LEMMA Invariant == Spec => []IInv
BY InitIInv, StepIInv, PTL DEF Spec

-----------------------------------------------------------------------------
(* Every variable of the journal and of its writers keeps its type.        *)
THEOREM TypeCorrect == Spec => []TypeOK
<1>1. IInv => TypeOK
  BY DEF IInv
<1> QED
  BY <1>1, Invariant, PTL

(* However many requests read, seal and insert concurrently, and whatever  *)
(* fails or crashes, the journal of every domain is a single chain without *)
(* gap or fork (collector.go Record, seal_and_append_audit_event).         *)
THEOREM ChainIsIntact == Spec => []ChainIntact
<1>1. IInv => ChainIntact
  BY DEF IInv
<1> QED
  BY <1>1, Invariant, PTL

(* A request answered success has its event in the journal, and no other   *)
(* request was answered with the same one (collector.go:132).              *)
THEOREM AcceptedAreRecorded == Spec => []AcceptedIsRecorded
<1>1. IInv => AcceptedIsRecorded
  BY DEF IInv
<1> QED
  BY <1>1, Invariant, PTL

(* An event whose request ended without inserting it never enters the      *)
(* journal (collector.go:124-128).                                         *)
THEOREM LostForGood == Spec => LostStaysLost
<1>1. ASSUME IInv, [Next]_vars
      PROVE  [\A e \in signed \ events :
                (\A w \in Writers : sealed[w] # e) => e \notin events']_vars
  <2> SUFFICES ASSUME NEW e \in signed \ events,
                      \A w \in Writers : sealed[w] # e
               PROVE  e \notin events'
    OBVIOUS
  <2>1. CASE events' = events
    BY <2>1
  <2>2. CASE \E w \in Writers : events' = events \cup {sealed[w]}
    BY <2>2, Zenon
  <2> QED
    BY <1>1, <2>1, <2>2, Zenon DEF Next, Step, Begin, CollectorReadsHead,
       HashPrevious, ProviderReadsHead, Seal, SealRefused, AppendEvent,
       AppendUnacknowledged, AppendConflict, CallFails, Crash, Quiescent, vars
<1> QED
  BY <1>1, Invariant, PTL DEF Spec, LostStaysLost

-----------------------------------------------------------------------------
(* The rows of a domain occupy the positions from 0 on, without a gap.     *)
Dense(d) ==
    /\ IsFiniteSet(EventsOf(d))
    /\ \A e \in EventsOf(d) : e.sequence < Cardinality(EventsOf(d))
    /\ \A i \in 0..Cardinality(EventsOf(d)) - 1 :
          \E e \in EventsOf(d) : e.sequence = i

DenseInv ==
    /\ \A d \in Domains : Dense(d)
    /\ \A e \in signed : e.sealed_bytes \in 1..MaxSeals

(* A step inserts nothing, or the pending event of one request in a free   *)
(* position.                                                               *)
Inserts(w) ==
    /\ pc[w] = "append"
    /\ ~Occupied(sealed[w])
    /\ events' = events \cup {sealed[w]}

LEMMA EventsStep ==
    ASSUME [Next]_vars
    PROVE  events' = events \/ \E w \in Writers : Inserts(w)
BY Zenon
   DEF Next, Step, Begin, CollectorReadsHead, HashPrevious, ProviderReadsHead,
       Seal, SealRefused, AppendEvent, AppendUnacknowledged, AppendConflict,
       CallFails, Crash, Quiescent, vars, Inserts

LEMMA SignedStep ==
    ASSUME [Next]_vars
    PROVE  \/ signed' = signed
           \/ \E e : signed' = signed \cup {e} /\ e.sealed_bytes \in 1..MaxSeals
<1>1. ASSUME NEW w \in Writers, Seal(w)
      PROVE  \E e : signed' = signed \cup {e} /\ e.sealed_bytes \in 1..MaxSeals
  <2>1. PICK b \in FreshBytes :
          signed' = signed \cup {[authority_domain |-> req[w].authority_domain,
                                  sequence |-> head[w].next_sequence,
                                  prev_hash |-> prev_hash[w],
                                  sealed_bytes |-> b]}
    BY <1>1, Zenon DEF Seal
  <2> DEFINE e == [authority_domain |-> req[w].authority_domain,
                   sequence |-> head[w].next_sequence,
                   prev_hash |-> prev_hash[w],
                   sealed_bytes |-> b]
  <2>2. signed' = signed \cup {e}
    BY <2>1
  <2>3. e.sealed_bytes \in 1..MaxSeals
    BY DEF FreshBytes
  <2> HIDE DEF e
  <2> QED
    BY <2>2, <2>3, Zenon
<1> QED
  BY <1>1, Zenon DEF Next, Step, Begin, CollectorReadsHead, HashPrevious,
     ProviderReadsHead, SealRefused, AppendEvent, AppendUnacknowledged,
     AppendConflict, CallFails, Crash, Quiescent, vars, Return

(* The event inserted takes the first free position of its domain.         *)
LEMMA InsertedIsNext ==
    ASSUME IInv, DenseInv, NEW w \in Writers, Inserts(w)
    PROVE  /\ sealed[w] \in Event \cap signed
           /\ sealed[w] \notin events
           /\ sealed[w].sequence = Cardinality(EventsOf(sealed[w].authority_domain))
<1> DEFINE e == sealed[w]
           d == e.authority_domain
           n == Cardinality(EventsOf(d))
<1>1. e \in signed \ events /\ e \in Event /\ Follows(e)
  BY DEF Inserts, IInv, PendingFollow, TypeOK
<1>2. d \in Domains /\ e.sequence \in Nat
  BY <1>1 DEF Event
<1>3. /\ IsFiniteSet(EventsOf(d))
      /\ \A f \in EventsOf(d) : f.sequence < n
      /\ \A i \in 0..n - 1 : \E f \in EventsOf(d) : f.sequence = i
  BY <1>2 DEF DenseInv, Dense
<1>4. n \in Nat
  BY <1>3, FS_CardinalityType
<1>5. \A f \in EventsOf(d) : f.sequence # e.sequence
  BY DEF Inserts, Occupied, EventsOf
<1>6. e.sequence \notin 0..n - 1
  BY <1>3, <1>5
<1>7. e.sequence <= n
  <2>1. CASE e.sequence = 0
    BY <1>4, <2>1
  <2>2. ASSUME NEW p \in events, p.authority_domain = d,
               e.sequence = p.sequence + 1
        PROVE  e.sequence <= n
    <3>1. p.sequence \in Nat /\ p \in EventsOf(d)
      BY <2>2 DEF IInv, TypeOK, Event, EventsOf
    <3>2. p.sequence < n
      BY <1>3, <3>1
    <3> QED
      BY <1>4, <2>2, <3>1, <3>2
  <2> QED
    BY <1>1, <2>1, <2>2, Zenon DEF Follows
<1>8. e.sequence = n
  BY <1>2, <1>4, <1>6, <1>7
<1> QED
  BY <1>1, <1>8

(* The rows of each domain after an insertion.                             *)
LEMMA RowsAfter ==
    ASSUME NEW w \in Writers, Inserts(w), NEW d
    PROVE  EventsOf(d)' = IF d = sealed[w].authority_domain
                          THEN EventsOf(d) \cup {sealed[w]} ELSE EventsOf(d)
BY DEF Inserts, EventsOf

LEMMA DenseInit == Init => DenseInv
<1> SUFFICES ASSUME Init PROVE DenseInv
  OBVIOUS
<1>1. \A d \in Domains : EventsOf(d) = {}
  BY DEF Init, EventsOf
<1>2. \A d \in Domains : Dense(d)
  BY <1>1, FS_EmptySet DEF Dense
<1> QED
  BY <1>2 DEF Init, DenseInv

LEMMA DenseStep ==
    ASSUME IInv, DenseInv, [Next]_vars
    PROVE  DenseInv'
<1>1. \A e \in signed' : e.sealed_bytes \in 1..MaxSeals
  BY SignedStep DEF DenseInv
<1>2. CASE events' = events
  <2>1. \A d \in Domains : EventsOf(d)' = EventsOf(d)
    BY <1>2 DEF EventsOf
  <2> QED
    BY <1>1, <2>1 DEF DenseInv, Dense
<1>3. ASSUME NEW w \in Writers, Inserts(w), NEW d \in Domains
      PROVE  Dense(d)'
  <2> DEFINE e == sealed[w]
             rows == EventsOf(d)
             n == Cardinality(rows)
  <2>1. Dense(d) /\ n \in Nat
    BY FS_CardinalityType DEF DenseInv, Dense
  <2>2. CASE d # e.authority_domain
    <3>1. EventsOf(d)' = EventsOf(d)
      BY <1>3, <2>2, RowsAfter
    <3> QED
      BY <2>1, <3>1 DEF Dense
  <2>3. CASE d = e.authority_domain
    <3>1. e \notin rows /\ e.sequence = n
      BY <1>3, <2>3, InsertedIsNext DEF EventsOf
    <3>2. EventsOf(d)' = rows \cup {e}
      BY <1>3, <2>3, RowsAfter
    <3>3. IsFiniteSet(rows) 
      BY <2>1 DEF Dense
    <3>4. IsFiniteSet(rows \cup {e}) /\ Cardinality(rows \cup {e}) = n + 1
      BY <3>1, <3>3, FS_AddElement, Zenon
    <3>5. \A f \in rows : f.sequence \in Nat /\ f.sequence < n
      BY <2>1 DEF Dense, IInv, TypeOK, Event, EventsOf
    <3>6. \A f \in rows \cup {e} : f.sequence < n + 1
      BY <2>1, <3>1, <3>5
    <3>7. ASSUME NEW i \in 0..n PROVE \E f \in rows \cup {e} : f.sequence = i
      <4>1. CASE i = n
        BY <3>1, <4>1
      <4>2. CASE i # n
        <5>1. i \in 0..n - 1
          BY <2>1, <4>2
        <5> QED
          BY <2>1, <5>1 DEF Dense
      <4> QED
        BY <4>1, <4>2
    <3>8. 0..(n + 1) - 1 = 0..n
      BY <2>1
    <3> HIDE DEF e, rows, n
    <3> QED
      BY <3>2, <3>4, <3>6, <3>7, <3>8, Zenon DEF Dense
  <2> QED
    BY <2>2, <2>3
<1> QED
  BY <1>1, <1>2, <1>3, EventsStep DEF DenseInv

-----------------------------------------------------------------------------
(* The row at a position is the only one there.                            *)
LEMMA ChosenRow ==
    ASSUME NEW rows, NEW f \in rows, NEW i, f.sequence = i,
           \A g \in rows : g.sequence = i => g = f
    PROVE  (CHOOSE e \in rows : e.sequence = i) = f
OBVIOUS

(* The sealed bytes at each place of a chain are those of the row there.   *)
LEMMA PlacesAndRows ==
    ASSUME NEW rows, NEW n \in Nat,
           \A f \in rows : f.sequence \in Nat /\ f.sequence < n,
           \A i \in 0..n - 1 : \E f \in rows : f.sequence = i,
           \A f, g \in rows : f.sequence = g.sequence => g = f,
           NEW c, c = [i \in 1..n |->
                        (CHOOSE e \in rows : e.sequence = i - 1).sealed_bytes]
    PROVE  /\ \A i \in 1..n : \E f \in rows :
                 f.sequence = i - 1 /\ c[i] = f.sealed_bytes
           /\ \A f \in rows : f.sequence + 1 \in 1..n
                              /\ c[f.sequence + 1] = f.sealed_bytes
<1>1. ASSUME NEW f \in rows, NEW i \in 1..n, f.sequence = i - 1
      PROVE  c[i] = f.sealed_bytes
  <2>1. (CHOOSE e \in rows : e.sequence = i - 1) = f
    BY <1>1, ChosenRow
  <2> QED
    BY <2>1
<1>2. ASSUME NEW i \in 1..n
      PROVE  \E f \in rows : f.sequence = i - 1 /\ c[i] = f.sealed_bytes
  <2>1. i - 1 \in 0..n - 1
    OBVIOUS
  <2> QED
    BY <1>1, <2>1
<1>3. ASSUME NEW f \in rows
      PROVE  f.sequence + 1 \in 1..n /\ c[f.sequence + 1] = f.sealed_bytes
  <2>1. f.sequence + 1 \in 1..n /\ f.sequence = (f.sequence + 1) - 1
    OBVIOUS
  <2> QED
    BY <1>1, <2>1
<1> QED
  BY <1>2, <1>3

(* The same of the journal.                                                *)
ChainIsRows(d) ==
    /\ Cardinality(EventsOf(d)) \in Nat
    /\ DOMAIN Chain(d) = 1..Cardinality(EventsOf(d))
    /\ Chain(d) = [i \in 1..Cardinality(EventsOf(d)) |-> Chain(d)[i]]
    /\ \A i \in 1..Cardinality(EventsOf(d)) : \E f \in EventsOf(d) :
          f.sequence = i - 1 /\ Chain(d)[i] = f.sealed_bytes
    /\ \A f \in EventsOf(d) : Chain(d)[f.sequence + 1] = f.sealed_bytes

ChainsAreRows == \A d \in Domains : ChainIsRows(d)

LEMMA ChainRows == IInv /\ DenseInv => ChainsAreRows
<1> SUFFICES ASSUME IInv, DenseInv, NEW d \in Domains PROVE ChainIsRows(d)
  BY DEF ChainsAreRows
<1> DEFINE rows == EventsOf(d)
           n == Cardinality(rows)
           c == Chain(d)
<1>1. /\ n \in Nat
      /\ \A f \in rows : f.sequence < n
      /\ \A i \in 0..n - 1 : \E f \in rows : f.sequence = i
  BY FS_CardinalityType DEF DenseInv, Dense
<1>2. \A f \in rows : f.sequence \in Nat
  BY DEF IInv, TypeOK, Event, EventsOf
<1>3. \A f, g \in rows : f.sequence = g.sequence => g = f
  BY DEF IInv, ChainIntact, EventsOf
<1>4. c = [i \in 1..n |-> (CHOOSE e \in rows : e.sequence = i - 1).sealed_bytes]
  BY DEF Chain
<1> HIDE DEF rows, n, c
<1>5. /\ \A i \in 1..n : \E f \in rows :
            f.sequence = i - 1 /\ c[i] = f.sealed_bytes
      /\ \A f \in rows : c[f.sequence + 1] = f.sealed_bytes
  BY <1>1, <1>2, <1>3, <1>4, PlacesAndRows
<1>6. DOMAIN c = 1..n /\ c = [i \in 1..n |-> c[i]]
  BY <1>4
<1> QED
  BY <1>1, <1>5, <1>6 DEF rows, n, c, ChainIsRows

LEMMA OneMore ==
    ASSUME NEW S, NEW c \in Seq(S), NEW b \in S,
           NEW k \in Seq(S), Len(k) = Len(c) + 1, k[Len(c) + 1] = b,
           \A i \in 1..Len(c) : k[i] = c[i]
    PROVE  k = Append(c, b)
<1>1. Append(c, b) \in Seq(S) /\ Len(Append(c, b)) = Len(c) + 1
  OBVIOUS
<1>2. ASSUME NEW i \in 1..Len(k) PROVE k[i] = Append(c, b)[i]
  <2>1. i \in 1..Len(c) \/ i = Len(c) + 1
    OBVIOUS
  <2> QED
    BY <2>1, AppendProperties
<1> QED
  BY <1>1, <1>2, SeqEqual

(* An insertion appends the sealed bytes to the chain of their domain.     *)
LEMMA ChainGrows ==
    ASSUME IInv, DenseInv, ChainsAreRows', NEW w \in Writers, Inserts(w),
           NEW d \in Domains
    PROVE  Chain(d)' = IF d = sealed[w].authority_domain
                       THEN Append(Chain(d), sealed[w].sealed_bytes)
                       ELSE Chain(d)
<1> DEFINE e == sealed[w]
           n == Cardinality(EventsOf(d))
<1>1. CASE d # e.authority_domain
  <2>1. EventsOf(d)' = EventsOf(d)
    BY <1>1, RowsAfter
  <2> QED
    BY <1>1, <2>1 DEF Chain
<1>2. CASE d = e.authority_domain
  <2>1. /\ e \in Event /\ e.sequence = n /\ e \notin EventsOf(d)
        /\ EventsOf(d)' = EventsOf(d) \cup {e}
    BY <1>2, InsertedIsNext, RowsAfter DEF EventsOf
  <2>2. /\ n \in Nat /\ DOMAIN Chain(d) = 1..n
        /\ Chain(d) = [i \in 1..n |-> Chain(d)[i]]
        /\ \A i \in 1..n : \E f \in EventsOf(d) :
              f.sequence = i - 1 /\ Chain(d)[i] = f.sealed_bytes
    BY ChainRows, Zenon DEF ChainsAreRows, ChainIsRows
  <2>3. Cardinality(EventsOf(d))' = n + 1
    <3>1. IsFiniteSet(EventsOf(d))
      BY DEF DenseInv, Dense
    <3> QED
      BY <2>1, <3>1, FS_AddElement, Zenon
  <2>4. /\ Chain(d)' = [i \in 1..n + 1 |-> Chain(d)'[i]]
        /\ \A f \in EventsOf(d)' : Chain(d)'[f.sequence + 1] = f.sealed_bytes
    BY <2>3 DEF ChainsAreRows, ChainIsRows
  <2>5. Chain(d)'[n + 1] = e.sealed_bytes
    BY <2>1, <2>4
  <2>6. \A i \in 1..n : Chain(d)'[i] = Chain(d)[i]
    <3> SUFFICES ASSUME NEW i \in 1..n PROVE Chain(d)'[i] = Chain(d)[i]
      OBVIOUS
    <3>1. PICK f \in EventsOf(d) :
             f.sequence = i - 1 /\ Chain(d)[i] = f.sealed_bytes
      BY <2>2
    <3>2. f.sequence + 1 = i
      BY <2>2, <3>1
    <3> QED
      BY <2>1, <2>4, <3>1, <3>2
  <2>7. /\ Chain(d) \in Seq(SealedBytes) /\ Len(Chain(d)) = n
        /\ e.sealed_bytes \in SealedBytes
    <3>1. \A i \in 1..n : Chain(d)[i] \in SealedBytes
      BY <2>2 DEF IInv, TypeOK, Event, EventsOf
    <3> QED
      BY <2>1, <2>2, <3>1 DEF Event
  <2>8. Chain(d)' \in Seq(SealedBytes) /\ Len(Chain(d)') = n + 1
    <3>1. \A i \in 1..n + 1 : Chain(d)'[i] \in SealedBytes
      <4> SUFFICES ASSUME NEW i \in 1..n + 1
                   PROVE  Chain(d)'[i] \in SealedBytes
        OBVIOUS
      <4>1. CASE i = n + 1
        BY <2>5, <2>7, <4>1
      <4>2. CASE i # n + 1
        <5>1. i \in 1..Len(Chain(d))
          BY <2>2, <2>7, <4>2
        <5> QED
          BY <2>6, <2>7, <5>1
      <4> QED
        BY <4>1, <4>2
    <3> HIDE DEF n
    <3> QED
      BY <2>2, <2>4, <3>1
  <2>9. Chain(d)' = Append(Chain(d), e.sealed_bytes)
    <3> HIDE DEF n, e
    <3> QED
      BY <2>5, <2>6, <2>7, <2>8, OneMore
  <2> QED
    BY <1>2, <2>9
<1> QED
  BY <1>1, <1>2

-----------------------------------------------------------------------------
(* The journal as AuditJournal sees it.                                    *)
Chains == [d \in Domains |-> Chain(d)]

LEMMA ImplementsInit == Init => Journal!Init
<1> SUFFICES ASSUME Init PROVE Chains = [d \in Domains |-> <<>>]
  BY DEF Chains, Journal!Init
<1>1. ASSUME NEW d \in Domains PROVE Chain(d) = <<>>
  <2>1. Cardinality(EventsOf(d)) = 0
    BY FS_EmptySet DEF Init, EventsOf
  <2> QED
    BY <2>1 DEF Chain
<1> QED
  BY <1>1 DEF Chains

(* An event about to be inserted is not in the journal yet.                *)
LEMMA InsertedIsNew ==
    ASSUME IInv, DenseInv, NEW w \in Writers, Inserts(w)
    PROVE  sealed[w].sealed_bytes \notin Journal!Recorded
<1> SUFFICES ASSUME NEW d \in Domains, NEW i \in DOMAIN Chain(d),
                    Chain(d)[i] = sealed[w].sealed_bytes
             PROVE  FALSE
  BY DEF Journal!Recorded
<1>1. PICK f \in EventsOf(d) : Chain(d)[i] = f.sealed_bytes
  BY ChainRows DEF ChainsAreRows, ChainIsRows
<1>2. f \in events /\ f \in signed
  BY DEF EventsOf, IInv, SealsAreUnique
<1>3. sealed[w] \in signed /\ sealed[w] \notin events
  BY InsertedIsNext
<1> QED
  BY <1>1, <1>2, <1>3, Zenon DEF IInv, SealsAreUnique

LEMMA ImplementsNext ==
    ASSUME IInv, DenseInv, ChainsAreRows', [Next]_vars
    PROVE  [Journal!Next]_Chains
<1>1. CASE events' = events
  <2>1. \A d \in Domains : EventsOf(d)' = EventsOf(d)
    BY <1>1 DEF EventsOf
  <2>2. ASSUME NEW d \in Domains PROVE Chain(d)' = Chain(d)
    <3>1. EventsOf(d)' = EventsOf(d)
      BY <2>1
    <3> QED
      BY <3>1 DEF Chain
  <2> QED
    BY <2>2 DEF Chains
<1>2. ASSUME NEW w \in Writers, Inserts(w)
      PROVE  Journal!Next
  <2> DEFINE a == sealed[w].authority_domain
             b == sealed[w].sealed_bytes
  <2>1. a \in Domains /\ b \in 1..MaxSeals
    BY <1>2, InsertedIsNext DEF Event, DenseInv
  <2>2. \A d \in Domains :
           Chain(d)' = IF d = a THEN Append(Chain(d), b) ELSE Chain(d)
    BY <1>2, ChainGrows
  <2>3. Chains' = [Chains EXCEPT ![a] = Append(@, b)]
    BY <2>1, <2>2, Zenon DEF Chains
  <2>4. b \notin Journal!Recorded
    BY <1>2, InsertedIsNew
  <2> HIDE DEF a, b
  <2>5. Journal!Record(a, b)
    BY <2>3, <2>4 DEF Journal!Record, Chains
  <2> QED
    BY <2>1, <2>5 DEF Journal!Next
<1> QED
  BY <1>1, <1>2, EventsStep

(* The requests that read, seal and insert concurrently in AuditChain,     *)
(* with every failure and crash, implement the append-only journal that    *)
(* AuditJournal describes (collector.go Record, seal_and_append_audit_event *)
(* and the unique index of migration 002).                                 *)
THEOREM JournalIsImplemented == Spec => ImplementsJournal
<1>1. Init => IInv /\ DenseInv
  BY InitIInv, DenseInit
<1>2. IInv /\ DenseInv /\ [Next]_vars => IInv' /\ DenseInv'
  BY StepIInv, DenseStep
<1>3. IInv /\ DenseInv /\ ChainsAreRows' /\ [Next]_vars
        => [Journal!Next]_Chains
  BY ImplementsNext
<1> QED
  BY <1>1, <1>2, <1>3, ChainRows, ImplementsInit, PTL
     DEF Spec, ImplementsJournal, Journal!Spec, Chains

-----------------------------------------------------------------------------
(* The loop of verify_chain is well defined: after n turns its state is    *)
(* the one before it, changed by the n-th entry.                           *)
Start == [verdict |-> "Ok", last |-> <<>>]

AreTurns(st, es, m) ==
    st = [n \in 0..m |-> IF n = 0 THEN Start ELSE CheckNext(st[n - 1], es[n])]

LEMMA TurnsExist ==
    ASSUME NEW es, NEW m \in Nat
    PROVE  \E st : AreTurns(st, es, m)
<1> DEFINE S == {n \in Nat : \E st : AreTurns(st, es, n)}
<1>1. 0 \in S
  <2> DEFINE st == [n \in 0..0 |-> Start]
  <2>1. AreTurns(st, es, 0)
    BY DEF AreTurns
  <2> HIDE DEF st
  <2> QED
    BY <2>1
<1>2. ASSUME NEW k \in Nat, k \in S
      PROVE  k + 1 \in S
  <2>1. PICK st : AreTurns(st, es, k)
    BY <1>2, Zenon
  <2> DEFINE next == CheckNext(st[k], es[k + 1])
             more == [n \in 0..k + 1 |-> IF n <= k THEN st[n] ELSE next]
             turns == [n \in 0..k + 1 |-> IF n = 0 THEN Start
                                          ELSE CheckNext(more[n - 1], es[n])]
  <2>2. ASSUME NEW n \in 0..k + 1
        PROVE  more[n] = turns[n]
    <3>1. CASE n = 0
      BY <2>1, <3>1 DEF AreTurns
    <3>2. CASE n \in 1..k
      <4>1. n \in 0..k /\ n - 1 \in 0..k + 1 /\ n - 1 <= k /\ n # 0
        BY <3>2
      <4>2. st[n] = CheckNext(st[n - 1], es[n])
        BY <2>1, <4>1 DEF AreTurns
      <4>3. more[n - 1] = st[n - 1] /\ more[n] = st[n]
        BY <4>1
      <4> QED
        BY <4>1, <4>2, <4>3
    <3>3. CASE n = k + 1
      <4>1. more[n] = next /\ more[n - 1] = st[k] /\ n # 0
        BY <3>3
      <4> HIDE DEF more
      <4> QED
        BY <3>3, <4>1
    <3> QED
      BY <3>1, <3>2, <3>3
  <2>3. more = turns
    BY <2>2
  <2>4. AreTurns(more, es, k + 1)
    BY <2>3 DEF AreTurns
  <2> HIDE DEF more
  <2> QED
    BY <2>4
<1> HIDE DEF S
<1>3. Nat \subseteq S
  BY <1>1, <1>2, SetInduction
<1> QED
  BY <1>3 DEF S

LEMMA TurnsUnfold ==
    ASSUME NEW es, Len(es) \in Nat
    PROVE  /\ Turns(es)[0] = Start
           /\ \A n \in 0..Len(es) - 1 :
                 Turns(es)[n + 1] = CheckNext(Turns(es)[n], es[n + 1])
<1>1. Turns(es) = CHOOSE st : AreTurns(st, es, Len(es))
  BY DEF Turns, AreTurns, Start
<1>2. AreTurns(Turns(es), es, Len(es))
  BY <1>1, TurnsExist
<1> DEFINE st == Turns(es)
<1>3. st = [n \in 0..Len(es) |-> IF n = 0 THEN Start
                                 ELSE CheckNext(st[n - 1], es[n])]
  BY <1>2 DEF AreTurns
<1> HIDE DEF st
<1>4. st[0] = Start
  BY <1>3
<1>5. ASSUME NEW n \in 0..Len(es) - 1
      PROVE  st[n + 1] = CheckNext(st[n], es[n + 1])
  <2>1. n + 1 \in 0..Len(es) /\ n + 1 # 0 /\ (n + 1) - 1 = n
    OBVIOUS
  <2>2. st[n + 1] = CheckNext(st[(n + 1) - 1], es[n + 1])
    BY <1>3, <2>1
  <2> QED
    BY <2>1, <2>2
<1> QED
  BY <1>4, <1>5 DEF st

(* What the loop checks of the i-th entry, in terms of the entries alone.  *)
LinkedAt(es, i) ==
    LET earlier == EarlierOfDomain(es, i)
    IN /\ earlier = {} => es[i].sequence = 0 /\ es[i].prev_hash = CHAIN_ROOT
       /\ \A j \in earlier : (\A k \in earlier : k <= j) =>
             /\ es[i].sequence = es[j].sequence + 1
             /\ es[i].prev_hash = hash_sealed_event(es[j].sealed_bytes)

(* last_by_domain after n entries: the last of them in each domain.        *)
Remembered(last, es, n) ==
    /\ \A j \in 1..n : es[j].authority_domain \in DOMAIN last
    /\ \A d \in DOMAIN last :
          \E j \in 1..n :
             /\ es[j].authority_domain = d
             /\ last[d] = es[j]
             /\ \A k \in 1..n : es[k].authority_domain = d => k <= j

(* The loop goes on exactly as long as the entries are linked.             *)
Walked(es, n) ==
    /\ Turns(es)[n].verdict = "Ok" <=> \A i \in 1..n : LinkedAt(es, i)
    /\ Turns(es)[n].verdict = "Ok" => Remembered(Turns(es)[n].last, es, n)

LEMMA EntryIsChecked ==
    ASSUME NEW es, NEW n \in Nat, NEW last, Remembered(last, es, n)
    PROVE  CheckEntry(last, es[n + 1]) = "Ok" <=> LinkedAt(es, n + 1)
<1> DEFINE entry == es[n + 1]
           d == entry.authority_domain
           earlier == EarlierOfDomain(es, n + 1)
<1>1. earlier = {j \in 1..n : es[j].authority_domain = d}
  BY DEF EarlierOfDomain
<1>2. CASE d \notin DOMAIN last
  <2>1. earlier = {}
    BY <1>1, <1>2, Zenon DEF Remembered
  <2> QED
    BY <1>2, <2>1 DEF CheckEntry, LinkedAt
<1>3. CASE d \in DOMAIN last
  <2>1. PICK j \in 1..n : /\ es[j].authority_domain = d
                          /\ last[d] = es[j]
                          /\ \A k \in 1..n : es[k].authority_domain = d => k <= j
    BY <1>3, Zenon DEF Remembered
  <2>2. j \in earlier /\ \A k \in earlier : k <= j
    BY <1>1, <2>1
  <2>3. \A i \in earlier : (\A k \in earlier : k <= i) => i = j
    BY <1>1, <2>2
  <2>4. LinkedAt(es, n + 1) <=>
           /\ entry.sequence = es[j].sequence + 1
           /\ entry.prev_hash = hash_sealed_event(es[j].sealed_bytes)
    BY <2>2, <2>3, Zenon DEF LinkedAt
  <2>5. CheckEntry(last, entry) = "Ok" <=>
           /\ entry.sequence = es[j].sequence + 1
           /\ entry.prev_hash = hash_sealed_event(es[j].sealed_bytes)
    BY <1>3, <2>1, Zenon DEF CheckEntry
  <2> QED
    BY <2>4, <2>5
<1> QED
  BY <1>2, <1>3

LEMMA EntryIsRemembered ==
    ASSUME NEW es, NEW n \in Nat, NEW last, Remembered(last, es, n)
    PROVE  Remembered(Remember(last, es[n + 1]), es, n + 1)
<1> DEFINE d == es[n + 1].authority_domain
           next == Remember(last, es[n + 1])
<1>1. /\ DOMAIN next = DOMAIN last \cup {d}
      /\ next[d] = es[n + 1]
      /\ \A c \in DOMAIN last : c # d => next[c] = last[c]
  BY DEF Remember
<1> HIDE DEF next
<1>2. ASSUME NEW j \in 1..n + 1
      PROVE  es[j].authority_domain \in DOMAIN next
  BY <1>1 DEF Remembered
<1>3. ASSUME NEW c \in DOMAIN next
      PROVE  \E j \in 1..n + 1 :
                /\ es[j].authority_domain = c
                /\ next[c] = es[j]
                /\ \A k \in 1..n + 1 : es[k].authority_domain = c => k <= j
  <2>1. CASE c = d
    <3>1. n + 1 \in 1..n + 1 /\ \A k \in 1..n + 1 : k <= n + 1
      OBVIOUS
    <3> QED
      BY <1>1, <2>1, <3>1
  <2>2. CASE c # d
    <3>1. c \in DOMAIN last /\ next[c] = last[c]
      BY <1>1, <1>3, <2>2, Zenon
    <3>2. PICK j \in 1..n : /\ es[j].authority_domain = c
                            /\ last[c] = es[j]
                            /\ \A k \in 1..n : es[k].authority_domain = c => k <= j
      BY <3>1 DEF Remembered
    <3>3. j \in 1..n + 1
      OBVIOUS
    <3>4. ASSUME NEW k \in 1..n + 1, es[k].authority_domain = c
          PROVE  k <= j
      <4>1. k # n + 1
        BY <2>2, <3>4
      <4>2. k \in 1..n
        BY <4>1
      <4> QED
        BY <3>2, <3>4, <4>2
    <3> QED
      BY <3>1, <3>2, <3>3, <3>4, Zenon
  <2> QED
    BY <2>1, <2>2
<1> QED
  BY <1>2, <1>3, Zenon DEF Remembered, next

LEMMA WalkStep ==
    ASSUME NEW es, Len(es) \in Nat, NEW n \in 0..Len(es) - 1, Walked(es, n)
    PROVE  Walked(es, n + 1)
<1> DEFINE st == Turns(es)[n]
           next == Turns(es)[n + 1]
<1>1. next = CheckNext(st, es[n + 1])
  BY TurnsUnfold
<1>2. n \in Nat /\ 1..n + 1 = (1..n) \cup {n + 1}
  OBVIOUS
<1>3. (\A i \in 1..n + 1 : LinkedAt(es, i))
        <=> (\A i \in 1..n : LinkedAt(es, i)) /\ LinkedAt(es, n + 1)
  BY <1>2, Zenon
<1> HIDE DEF st, next
<1>4. CASE st.verdict # "Ok"
  <2>1. next = st
    BY <1>1, <1>4, Zenon DEF CheckNext
  <2>2. ~ \A i \in 1..n : LinkedAt(es, i)
    BY <1>4, Zenon DEF Walked, st
  <2> QED
    BY <1>3, <1>4, <2>1, <2>2, Zenon DEF Walked, next
<1>5. CASE st.verdict = "Ok"
  <2>1. /\ next.verdict = CheckEntry(st.last, es[n + 1])
        /\ next.last = Remember(st.last, es[n + 1])
    BY <1>1, <1>5, Zenon DEF CheckNext
  <2>2. Remembered(st.last, es, n) /\ \A i \in 1..n : LinkedAt(es, i)
    BY <1>5 DEF Walked, st
  <2>3. next.verdict = "Ok" <=> LinkedAt(es, n + 1)
    BY <1>2, <2>1, <2>2, EntryIsChecked, Zenon
  <2>4. Remembered(next.last, es, n + 1)
    BY <1>2, <2>1, <2>2, EntryIsRemembered
  <2> QED
    BY <1>3, <2>2, <2>3, <2>4, Zenon DEF Walked, next
<1> QED
  BY <1>4, <1>5

LEMMA VerdictOfLinks ==
    ASSUME NEW E, NEW es \in Seq(E)
    PROVE  verify_chain(es) = "Ok" <=>
              es # <<>> /\ \A i \in 1..Len(es) : LinkedAt(es, i)
<1> DEFINE S == {n \in Nat : n <= Len(es) => Walked(es, n)}
<1>1. Len(es) \in Nat
  OBVIOUS
<1>2. 0 \in S
  <2>1. Turns(es)[0] = Start
    BY <1>1, TurnsUnfold
  <2>2. Turns(es)[0].verdict = "Ok" /\ DOMAIN Turns(es)[0].last = {}
    BY <2>1 DEF Start
  <2>3. 1..0 = {}
    OBVIOUS
  <2>4. Walked(es, 0)
    BY <2>2, <2>3 DEF Walked, Remembered
  <2> QED
    BY <2>4
<1>3. ASSUME NEW n \in Nat, n \in S
      PROVE  n + 1 \in S
  <2> SUFFICES ASSUME n + 1 <= Len(es)
               PROVE  Walked(es, n + 1)
    OBVIOUS
  <2>1. n \in 0..Len(es) - 1 /\ n <= Len(es)
    BY <1>1
  <2>2. Walked(es, n)
    BY <1>3, <2>1
  <2> QED
    BY <1>1, <2>1, <2>2, WalkStep
<1> HIDE DEF S
<1>4. Nat \subseteq S
  BY <1>2, <1>3, SetInduction
<1>5. Walked(es, Len(es))
  BY <1>1, <1>4 DEF S
<1>6. CASE es = <<>>
  BY <1>6, Zenon DEF verify_chain
<1>7. CASE es # <<>>
  BY <1>5, <1>7, Zenon DEF Walked, verify_chain
<1> QED
  BY <1>6, <1>7

(* The entries of the domain that come before an entry are the one just    *)
(* before it and those that come before that one.                          *)
LEMMA EarlierGrows ==
    ASSUME NEW es, NEW i \in Nat, NEW j \in EarlierOfDomain(es, i),
           \A k \in EarlierOfDomain(es, i) : k <= j
    PROVE  Cardinality(EarlierOfDomain(es, i))
             = Cardinality(EarlierOfDomain(es, j)) + 1
<1>1. j \in 1..i - 1 /\ es[j].authority_domain = es[i].authority_domain
  BY DEF EarlierOfDomain
<1>2. EarlierOfDomain(es, i) = EarlierOfDomain(es, j) \cup {j}
  BY <1>1 DEF EarlierOfDomain
<1>3. j \notin EarlierOfDomain(es, j)
  BY <1>1 DEF EarlierOfDomain
<1>4. IsFiniteSet(EarlierOfDomain(es, j))
  <2>1. IsFiniteSet(1..j - 1)
    BY <1>1, FS_Interval
  <2>2. EarlierOfDomain(es, j) \subseteq 1..j - 1
    BY DEF EarlierOfDomain
  <2> QED
    BY <2>1, <2>2, FS_Subset, Zenon
<1> QED
  BY <1>2, <1>3, <1>4, FS_AddElement, Zenon

LEMMA LastEarlier ==
    ASSUME NEW es, NEW i \in Nat, EarlierOfDomain(es, i) # {}
    PROVE  \E j \in EarlierOfDomain(es, i) :
              \A k \in EarlierOfDomain(es, i) : k <= j
<1> DEFINE T == {i - j : j \in EarlierOfDomain(es, i)}
<1>1. \A j \in EarlierOfDomain(es, i) : j \in 1..i - 1
  BY DEF EarlierOfDomain
<1>2. T \in SUBSET Nat /\ T # {}
  BY <1>1
<1> HIDE DEF T
<1>3. PICK x \in T : \A y \in T : x <= y
  BY <1>2, LeastElement
<1>4. PICK j \in EarlierOfDomain(es, i) : x = i - j
  BY <1>3 DEF T
<1>5. ASSUME NEW k \in EarlierOfDomain(es, i)
      PROVE  k <= j
  <2>1. i - k \in T
    BY DEF T
  <2>2. i - j <= i - k
    BY <1>3, <1>4, <2>1, Zenon
  <2> QED
    BY <1>1, <2>2
<1> QED
  BY <1>5

LEMMA NoEarlier ==
    ASSUME NEW es, NEW i, EarlierOfDomain(es, i) = {}
    PROVE  Cardinality(EarlierOfDomain(es, i)) = 0
BY FS_EmptySet

(* Entries that are linked one by one are numbered from 0 in each domain.  *)
LEMMA LinkedAreNumbered ==
    ASSUME NEW es, NEW m \in Nat, \A i \in 1..m : LinkedAt(es, i)
    PROVE  \A i \in 1..m : es[i].sequence = Cardinality(EarlierOfDomain(es, i))
<1> DEFINE Bad == {i \in 1..m :
                     es[i].sequence # Cardinality(EarlierOfDomain(es, i))}
<1> SUFFICES ASSUME Bad # {} PROVE FALSE
  OBVIOUS
<1>1. PICK i \in Bad : \A j \in Bad : i <= j
  <2>1. Bad \in SUBSET Nat
    OBVIOUS
  <2> QED
    BY <2>1, LeastElement, Zenon
<1>2. i \in 1..m /\ i \in Nat /\ LinkedAt(es, i)
  OBVIOUS
<1>3. CASE EarlierOfDomain(es, i) = {}
  BY <1>2, <1>3, NoEarlier DEF LinkedAt
<1>4. CASE EarlierOfDomain(es, i) # {}
  <2>1. PICK j \in EarlierOfDomain(es, i) :
              \A k \in EarlierOfDomain(es, i) : k <= j
    BY <1>2, <1>4, LastEarlier, Zenon
  <2>2. es[i].sequence = es[j].sequence + 1
    BY <1>2, <2>1 DEF LinkedAt
  <2>3. j \in 1..i - 1
    BY DEF EarlierOfDomain
  <2>4. j \in 1..m /\ ~(i <= j)
    BY <1>2, <2>3
  <2>5. es[j].sequence = Cardinality(EarlierOfDomain(es, j))
    BY <1>1, <2>4
  <2>6. Cardinality(EarlierOfDomain(es, i))
          = Cardinality(EarlierOfDomain(es, j)) + 1
    BY <1>2, <2>1, EarlierGrows
  <2> QED
    BY <2>2, <2>5, <2>6
<1> QED
  BY <1>3, <1>4

LEMMA LinksAreChains ==
    ASSUME NEW es, Len(es) \in Nat
    PROVE  (\A i \in 1..Len(es) : LinkedAt(es, i)) <=> WellChained(es)
<1>1. ASSUME \A i \in 1..Len(es) : LinkedAt(es, i)
      PROVE  WellChained(es)
  BY <1>1, LinkedAreNumbered, Zenon DEF WellChained, LinkedAt
<1>2. ASSUME WellChained(es), NEW i \in 1..Len(es)
      PROVE  LinkedAt(es, i)
  <2>1. CASE EarlierOfDomain(es, i) = {}
    BY <1>2, <2>1, NoEarlier, Zenon DEF WellChained, LinkedAt
  <2>2. ASSUME NEW j \in EarlierOfDomain(es, i),
               \A k \in EarlierOfDomain(es, i) : k <= j
        PROVE  /\ es[i].sequence = es[j].sequence + 1
               /\ es[i].prev_hash = hash_sealed_event(es[j].sealed_bytes)
    <3>1. j \in 1..Len(es) /\ i \in Nat
      BY DEF EarlierOfDomain
    <3>2. /\ es[i].sequence = Cardinality(EarlierOfDomain(es, i))
          /\ es[j].sequence = Cardinality(EarlierOfDomain(es, j))
          /\ es[i].prev_hash = hash_sealed_event(es[j].sealed_bytes)
      BY <1>2, <2>2, <3>1 DEF WellChained
    <3>3. Cardinality(EarlierOfDomain(es, i))
            = Cardinality(EarlierOfDomain(es, j)) + 1
      BY <2>2, <3>1, EarlierGrows
    <3> QED
      BY <3>2, <3>3
  <2> QED
    BY <2>1, <2>2 DEF LinkedAt
<1> QED
  BY <1>1, <1>2, Zenon

(* verify_chain (chain.rs) accepts an export, however long, exactly when   *)
(* it is not empty and every domain in it is a chain from the root,        *)
(* numbered from 0 without a gap, however the domains are interleaved.     *)
THEOREM ExactVerdict ==
    ASSUME NEW E, NEW es \in Seq(E)
    PROVE  verify_chain(es) = "Ok" <=> es # <<>> /\ WellChained(es)
<1>1. Len(es) \in Nat
  OBVIOUS
<1> QED
  BY <1>1, VerdictOfLinks, LinksAreChains

-----------------------------------------------------------------------------
(* Only finitely many rows are ever inserted.                              *)
JournalIsFinite == IsFiniteSet(events)

LEMMA FinitelyMany == Spec => []JournalIsFinite
<1>1. Init => JournalIsFinite
  BY FS_EmptySet, Zenon DEF Init, JournalIsFinite
<1>2. JournalIsFinite /\ [Next]_vars => JournalIsFinite'
  <2> SUFFICES ASSUME IsFiniteSet(events), [Next]_vars
               PROVE  IsFiniteSet(events')
    BY DEF JournalIsFinite
  <2>1. events' = events \/ \E w \in Writers : events' = events \cup {sealed[w]}
    BY EventsStep, Zenon DEF Inserts
  <2> QED
    BY <2>1, FS_AddElement
<1> QED
  BY <1>1, <1>2, PTL DEF Spec

(* An export that keeps the order of each domain meets every row after the *)
(* row that it follows, and no other row of the domain in between.         *)
LEMMA ExportIsLinked ==
    ASSUME IInv, IsFiniteSet(events), NEW rows \in Exports,
           NEW i \in DOMAIN rows
    PROVE  LinkedAt(rows, i)
<1> DEFINE n == Cardinality(events)
           d == rows[i].authority_domain
           earlier == EarlierOfDomain(rows, i)
<1>1. n \in Nat
  BY FS_CardinalityType
<1>2. /\ DOMAIN rows = 1..n
      /\ \A k \in 1..n : rows[k] \in events
      /\ \A e \in events : \E k \in 1..n : rows[k] = e
      /\ \A j, k \in 1..n :
            j < k /\ rows[j].authority_domain = rows[k].authority_domain
              => rows[j].sequence < rows[k].sequence
  BY DEF Exports
<1>3. \A e \in events : e.sequence \in Nat
  BY DEF IInv, TypeOK, Event
<1> HIDE DEF n
<1>4. earlier = {k \in 1..n : k < i /\ rows[k].authority_domain = d}
  BY <1>1, <1>2 DEF EarlierOfDomain
<1> HIDE DEF earlier
<1>5. Follows(rows[i])
  BY <1>2, Zenon DEF IInv, ChainIntact
<1>6. ASSUME NEW p \in events, p.authority_domain = d,
             rows[i].sequence = p.sequence + 1
      PROVE  \E j \in earlier : rows[j] = p
  <2>1. PICK j \in 1..n : rows[j] = p
    BY <1>2
  <2>2. i \in 1..n /\ rows[i].sequence \in Nat /\ p.sequence \in Nat
    BY <1>2, <1>3, Zenon
  <2>3. j # i
    BY <1>6, <2>1, <2>2
  <2>4. ~(i < j)
    BY <1>2, <1>6, <2>1, <2>2
  <2>5. j < i
    BY <1>1, <2>2, <2>3, <2>4
  <2> QED
    BY <1>4, <1>6, <2>1, <2>5
<1>7. ASSUME earlier = {}
      PROVE  rows[i].sequence = 0 /\ rows[i].prev_hash = CHAIN_ROOT
  BY <1>5, <1>6, <1>7, Zenon DEF Follows
<1>8. ASSUME NEW j \in earlier, \A k \in earlier : k <= j
      PROVE  /\ rows[i].sequence = rows[j].sequence + 1
             /\ rows[i].prev_hash = hash_sealed_event(rows[j].sealed_bytes)
  <2>1. /\ j \in 1..n /\ i \in 1..n /\ j < i
        /\ rows[j].authority_domain = d
        /\ rows[j].sequence \in Nat /\ rows[i].sequence \in Nat
    BY <1>2, <1>3, <1>4, Zenon
  <2>2. rows[j].sequence < rows[i].sequence
    BY <1>2, <2>1
  <2>3. rows[i].sequence # 0
    BY <2>1, <2>2
  <2>4. PICK p \in events :
          /\ p.authority_domain = d
          /\ rows[i].sequence = p.sequence + 1
          /\ rows[i].prev_hash = hash_sealed_event(p.sealed_bytes)
    BY <1>5, <2>3 DEF Follows
  <2>5. PICK k \in earlier : rows[k] = p
    BY <1>6, <2>4
  <2>6. k \in 1..n /\ rows[k].authority_domain = d /\ k <= j
    BY <1>4, <1>8
  <2>7. p.sequence \in Nat
    BY <1>3
  <2>8. ~(k < j)
    <3>1. SUFFICES ASSUME k < j PROVE FALSE
      BY Zenon
    <3>2. p.sequence < rows[j].sequence
      BY <1>2, <2>1, <2>5, <2>6, <3>1, Zenon
    <3> QED
      BY <2>1, <2>2, <2>4, <2>7, <3>2
  <2>9. k = j
    BY <1>1, <2>1, <2>6, <2>8
  <2> QED
    BY <2>4, <2>5, <2>9, Zenon
<1> QED
  BY <1>7, <1>8 DEF LinkedAt, earlier

(* At any moment verify_chain accepts the journal that the two kinds of    *)
(* writers have made, in whatever way its domains are interleaved when it  *)
(* is exported (collector.go Record, seal_and_append_audit_event, chain.rs *)
(* verify_chain).                                                          *)
THEOREM VerifierAlwaysAccepts == Spec => []VerifierAccepts
<1>1. IInv /\ JournalIsFinite => VerifierAccepts
  <2> SUFFICES ASSUME IInv, IsFiniteSet(events), events # {},
                      NEW rows \in Exports
               PROVE  verify_chain(rows) = "Ok"
    BY DEF VerifierAccepts, JournalIsFinite
  <2>1. Cardinality(events) \in Nat \ {0}
    BY FS_CardinalityType, FS_EmptySet
  <2>2. rows \in [1..Cardinality(events) -> events]
    BY DEF Exports
  <2>3. rows \in Seq(events) /\ Len(rows) = Cardinality(events)
    BY <2>1, <2>2
  <2>4. rows # <<>>
    BY <2>1, <2>3
  <2>5. \A i \in 1..Len(rows) : LinkedAt(rows, i)
    BY <2>2, <2>3, ExportIsLinked
  <2> QED
    BY <2>3, <2>4, <2>5, VerdictOfLinks
<1> QED
  BY <1>1, Invariant, FinitelyMany, PTL

-----------------------------------------------------------------------------
(* The verdict on an export of any length, over any domains, sequences and *)
(* bytes, is the one that the doc comment of verify_chain gives it         *)
(* (chain.rs:54-56).                                                       *)
THEOREM AuditorIsExact == AuditorSpec => []VerdictIsExact
<1> DEFINE Read == entries \in Seq(ChainEntry)
<1>1. AuditorInit => Read
  BY DEF AuditorInit
<1>2. Read /\ [AuditorNext]_auditor => Read'
  BY DEF AuditorNext, OpenSealer, Request, InvalidArgument, Unavailable,
     SealEvent, VerifyEvent, ReadEntry, Done, auditor, event
<1>3. Read => VerdictIsExact
  BY ExactVerdict DEF VerdictIsExact
<1> QED
  BY <1>1, <1>2, <1>3, PTL DEF AuditorSpec
=============================================================================
