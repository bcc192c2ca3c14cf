---------------------------- MODULE SealingProofs ----------------------------
(***************************************************************************)
(* Proofs about AuditSeal and OfflineVerifier, for any requests: whatever  *)
(* audit-sealer seals, verify accepts, and of the copies of it, only those *)
(* that say the same.                                                      *)
(***************************************************************************)
EXTENDS OfflineVerifier, CivilCalendarProofs, FiniteSetTheorems, TLAPS

LEMMA ContractNames ==
    ASSUME NEW table, NEW text, from_contract_str(table, text) # None
    PROVE  /\ as_contract_str(table, from_contract_str(table, text)) = text
           /\ from_contract_str(table, text) \in DOMAIN table
BY DEF from_contract_str, as_contract_str

LEMMA ActorAsRequested ==
    ASSUME NEW a \in ActorMessage, ActorIsValid(a)
    PROVE  actor_value(actor_from_proto(a)) = Present(a)
<1> DEFINE k == from_contract_str(ActorKind, a.kind)
           l == Map(a.aal, LAMBDA s : from_contract_str(AssuranceLevel, s))
           b == [a EXCEPT !.kind = k, !.aal = l]
           m == Map(l, LAMBDA v : as_contract_str(AssuranceLevel, v))
<1>1. actor_from_proto(a) = b
  BY DEF actor_from_proto
<1>2. as_contract_str(ActorKind, k) = a.kind
  BY ContractNames DEF ActorIsValid
<1>3. m = a.aal
  <2>1. CASE a.aal = None
    BY <2>1 DEF Map
  <2>2. CASE a.aal # None
    <3>1. from_contract_str(AssuranceLevel, a.aal) # None
      BY <2>2 DEF ActorIsValid
    <3>2. l = from_contract_str(AssuranceLevel, a.aal)
      BY <2>2 DEF Map
    <3>3. m = as_contract_str(AssuranceLevel, l)
      BY <3>1, <3>2 DEF Map
    <3> QED
      BY <3>1, <3>2, <3>3, ContractNames
  <2> QED
    BY <2>1, <2>2
<1> HIDE DEF k, l
<1>4. b.kind = k /\ b.aal = l
  BY DEF ActorMessage
<1>5. [b EXCEPT !.kind = a.kind, !.aal = a.aal] = a
  BY Zenon DEF ActorMessage
<1>6. actor_value(b) = Present([b EXCEPT !.kind = as_contract_str(ActorKind, b.kind),
         !.aal = Map(b.aal, LAMBDA v : as_contract_str(AssuranceLevel, v))])
  BY DEF actor_value
<1> HIDE DEF b
<1>7. actor_value(b) = Present([b EXCEPT !.kind = as_contract_str(ActorKind, k),
         !.aal = m])
  BY <1>4, <1>6, Zenon
<1> HIDE DEF m
<1> QED
  BY <1>1, <1>2, <1>3, <1>5, <1>7, Zenon

(* The document of a request: what seal writes of it, None included.       *)
DocumentOf(r) ==
    [schema_version   |-> 1,
     event_id         |-> r.event_id,
     sequence         |-> r.sequence,
     prev_hash        |-> hex_encode(r.prev_hash),
     occurred_at      |-> rfc3339_from_seconds(r.occurred_at),
     authority_domain |-> r.authority_domain,
     event_type       |-> r.event_type,
     actor            |-> Present(r.actor),
     target           |-> r.target,
     outcome          |-> r.outcome,
     context          |-> Map(r.context, Present),
     decision         |-> Map(r.decision, decision_value)]

LEMMA SealedAsRequested ==
    ASSUME NEW r \in SealRequest, RequestIsValid(r)
    PROVE  unsigned_document(fields_from_request(r)) = Present(DocumentOf(r))
<1> DEFINE t == from_contract_str(EventType, r.event_type)
           o == from_contract_str(Outcome, r.outcome)
           i == rfc3339_from_seconds(r.occurred_at)
           a == actor_from_proto(r.actor)
           f == [r EXCEPT !.event_type = t, !.outcome = o, !.occurred_at = i,
                          !.actor = a]
<1>1. fields_from_request(r) = f
  BY DEF fields_from_request
<1>2. as_contract_str(EventType, t) = r.event_type
      /\ as_contract_str(Outcome, o) = r.outcome
  BY ContractNames DEF RequestIsValid
<1>3. actor_value(a) = Present(r.actor)
  <2>1. r.actor \in ActorMessage /\ ActorIsValid(r.actor)
    BY DEF RequestIsValid, SealRequest, Option
  <2> QED
    BY <2>1, ActorAsRequested
<1> HIDE DEF t, o, i, a
<1>4. /\ f.event_id = r.event_id /\ f.sequence = r.sequence
      /\ f.prev_hash = r.prev_hash /\ f.occurred_at = i
      /\ f.authority_domain = r.authority_domain /\ f.event_type = t
      /\ f.actor = a /\ f.target = r.target /\ f.outcome = o
      /\ f.context = r.context /\ f.decision = r.decision
  BY DEF SealRequest
<1> HIDE DEF f
<1>5. unsigned_document(f) = Present(DocumentOf(r))
  BY <1>2, <1>3, <1>4, Zenon DEF unsigned_document, DocumentOf, i
<1> QED
  BY <1>1, <1>5

(* A struct that is written and read.                                      *)
IsStruct(s, wire) ==
    /\ s = [k \in wire.required \cup wire.optional |-> s[k]]
    /\ \A k \in wire.required : s[k] \in Scalar
    /\ \A k \in wire.optional : s[k] \in Option(Scalar)

LEMMA WrittenAndRead ==
    ASSUME NEW wire \in {WireActor, WireTarget, WireContext, WireDecision},
           NEW s, IsStruct(s, wire)
    PROVE  /\ IsWire(Present(s), wire)
           /\ FromWire(Present(s), wire) = s
           /\ Present(s) \notin {None, Null}
           /\ DOMAIN Present(s) \subseteq wire.required \cup wire.optional
           /\ \A m \in wire.required \cup wire.optional :
                 /\ m \in DOMAIN Present(s) <=> s[m] # None
                 /\ m \in DOMAIN Present(s) =>
                       Present(s)[m] = s[m] /\ s[m] \in Scalar
<1> DEFINE names == wire.required \cup wire.optional
           D == {k \in DOMAIN s : s[k] # None}
           o == [k \in D |-> s[k]]
<1>1. None \notin Scalar /\ Null \notin Scalar
  BY AbsenceAssumption, Zenon DEF NoneIsApart, NullIsApart
<1>2. Present(s) = o
  BY DEF Present
<1>3. DOMAIN s = names
  BY DEF IsStruct
<1>4. D = {k \in names : s[k] # None}
  BY <1>3
<1>5. wire.required \subseteq D
  BY <1>1, <1>4 DEF IsStruct
<1>6. ASSUME NEW k \in D PROVE s[k] \in Scalar /\ s[k] # Null
  BY <1>1, <1>4 DEF IsStruct, Option
<1>7. o \in [D -> Option(Scalar)]
  BY <1>6 DEF Option
<1>8. D \in ObjectNames
  BY <1>4 DEF ObjectNames
<1>9. o # None /\ o # Null
  BY <1>7, <1>8, AbsenceAssumption, Zenon DEF NoneIsApart, NullIsApart
<1> DEFINE p == [k \in names |-> IF k \in D /\ o[k] # Null THEN o[k] ELSE None]
<1>10. FromWire(o, wire) = p
  BY DEF FromWire, Parse
<1>11. ASSUME NEW k \in names PROVE p[k] = s[k]
  <2>1. CASE k \in D
    BY <1>6, <2>1
  <2>2. CASE k \notin D
    BY <1>4, <2>2
  <2> QED
    BY <2>1, <2>2
<1>12. p = s
  <2>1. s = [k \in names |-> s[k]]
    BY DEF IsStruct
  <2>2. p = [k \in names |-> p[k]]
    OBVIOUS
  <2> HIDE DEF p
  <2> QED
    BY <1>11, <2>1, <2>2
<1>13. IsWire(o, wire)
  BY <1>4, <1>5, <1>6 DEF IsWire, Parses
<1>14. DOMAIN o = D /\ \A m \in D : o[m] = s[m]
  OBVIOUS
<1> HIDE DEF o, D, p
<1>15. \A m \in names : m \in D <=> s[m] # None
  BY <1>4
<1>16. D \subseteq names
  BY <1>4
<1> HIDE DEF names
<1> QED
  BY <1>2, <1>6, <1>9, <1>10, <1>12, <1>13, <1>14, <1>15, <1>16 DEF names

HexDecision(d) ==
    [d EXCEPT !.decision_hash = hex_encode(@),
              !.decision_signature = Map(@, hex_encode)]

LEMMA ActorStruct ==
    ASSUME NEW a \in ActorMessage
    PROVE  IsStruct(a, WireActor)
<1>1. STRING \subseteq Scalar
  BY Zenon DEF Scalar
<1> HIDE DEF Scalar
<1> QED
  BY <1>1, Zenon DEF ActorMessage, IsStruct, WireActor, Option

LEMMA TargetStruct ==
    ASSUME NEW t \in TargetMessage
    PROVE  IsStruct(t, WireTarget) /\ Present(t) = t
<1>1. STRING \subseteq Scalar
  BY Zenon DEF Scalar
<1> HIDE DEF Scalar
<1>2. IsStruct(t, WireTarget)
  BY <1>1, Zenon DEF TargetMessage, IsStruct, WireTarget, Option
<1>3. None \notin STRING
  BY <1>1, AbsenceAssumption, Zenon DEF NoneIsApart
<1>4. Present(t) = t
  BY <1>3 DEF Present, TargetMessage
<1> QED
  BY <1>2, <1>4

LEMMA ContextStruct ==
    ASSUME NEW c \in ContextMessage
    PROVE  IsStruct(c, WireContext)
<1>1. STRING \subseteq Scalar
  BY Zenon DEF Scalar
<1> HIDE DEF Scalar
<1> QED
  BY <1>1, Zenon DEF ContextMessage, IsStruct, WireContext, Option

LEMMA DecisionStruct ==
    ASSUME NEW d \in DecisionMessage
    PROVE  LET h == HexDecision(d)
           IN /\ IsStruct(h, WireDecision)
              /\ decision_value(d) = Present(h)
              /\ h.decision_hash = hex_encode(d.decision_hash)
              /\ h.decision_signature = Map(d.decision_signature, hex_encode)
              /\ h.request_id = d.request_id
              /\ h.policy_version = d.policy_version
              /\ h.reasons = d.reasons
              /\ h.granted_ttl_seconds = d.granted_ttl_seconds
              /\ h.decision_signature_key_id = d.decision_signature_key_id
<1> DEFINE x == hex_encode(d.decision_hash)
           y == Map(d.decision_signature, hex_encode)
           h == [d EXCEPT !.decision_hash = x, !.decision_signature = y]
<1>1. HexDecision(d) = h
  BY DEF HexDecision
<1>2. STRING \subseteq Scalar /\ Nat \subseteq Scalar /\ Hex \subseteq Scalar
      /\ Seq(STRING) \subseteq Scalar
  BY Zenon DEF Scalar
<1> HIDE DEF Scalar
<1>3. x \in Hex /\ y \in Option(Hex)
  BY DEF hex_encode, Map, Option, Hex, DecisionMessage
<1>4. decision_value(d) = Present(HexDecision(d))
  BY Zenon DEF decision_value, HexDecision
<1> HIDE DEF x, y
<1>5. /\ h.decision_hash = x
      /\ h.decision_signature = y
      /\ h.request_id = d.request_id
      /\ h.policy_version = d.policy_version
      /\ h.reasons = d.reasons
      /\ h.granted_ttl_seconds = d.granted_ttl_seconds
      /\ h.decision_signature_key_id = d.decision_signature_key_id
      /\ h = [k \in {"request_id", "decision_hash", "policy_version", "reasons"}
                     \cup {"granted_ttl_seconds", "decision_signature",
                           "decision_signature_key_id"} |-> h[k]]
  BY Zenon DEF DecisionMessage
<1>6. /\ d.request_id \in Scalar /\ d.policy_version \in Scalar
      /\ d.reasons \in Scalar
      /\ d.granted_ttl_seconds \in Option(Scalar)
      /\ d.decision_signature_key_id \in Option(Scalar)
      /\ x \in Scalar /\ y \in Option(Scalar)
  BY <1>2, <1>3, Zenon DEF DecisionMessage, Option
<1> HIDE DEF h
<1>7. IsStruct(h, WireDecision)
  BY <1>5, <1>6 DEF IsStruct, WireDecision
<1> QED
  BY <1>1, <1>4, <1>5, <1>7, Zenon DEF x, y

LEMMA TimeIsText ==
    ASSUME NEW t \in Instant
    PROVE  rfc3339_from_seconds(t) \in Text
<1>1. t.days \in Int /\ t.second_of_day \in Int
      /\ 0 <= t.second_of_day /\ t.second_of_day < 86400
  BY SMTT(60) DEF Instant
<1>2. civil_from_days(t.days) \in Civil
  BY <1>1, CalendarOfEveryDay
<1>3. /\ t.second_of_day \div 3600 \in Int
      /\ (t.second_of_day % 3600) \div 60 \in Int
      /\ t.second_of_day % 60 \in Int
  BY <1>1, TimeOfDay
<1> DEFINE c == civil_from_days(t.days)
           h == t.second_of_day \div 3600
           m == (t.second_of_day % 3600) \div 60
           s == t.second_of_day % 60
<1>4. rfc3339_from_seconds(t) = [date |-> c, hour |-> h, minute |-> m, second |-> s]
  BY Zenon DEF rfc3339_from_seconds
<1> HIDE DEF c, h, m, s
<1>5. c \in Civil /\ h \in Int /\ m \in Int /\ s \in Int
  BY <1>2, <1>3 DEF c, h, m, s
<1> QED
  BY <1>4, <1>5, SMTT(60) DEF Text, Civil

(* What the optional messages of a request become, written and read.       *)
LEMMA MessagesAreWritten ==
    ASSUME NEW r \in SealRequest, RequestIsValid(r)
    PROVE  /\ r.actor \in ActorMessage
           /\ r.target # None => r.target \in TargetMessage
           /\ r.context # None => r.context \in ContextMessage
           /\ r.decision # None => r.decision \in DecisionMessage
           /\ FromWire(Present(r.actor), WireActor) = r.actor
           /\ IsWire(Present(r.actor), WireActor)
           /\ Present(r.actor) \notin {None, Null}
           /\ r.target # None =>
                 /\ FromWire(r.target, WireTarget) = r.target
                 /\ IsWire(r.target, WireTarget)
                 /\ r.target # Null /\ Present(r.target) = r.target
           /\ r.context # None =>
                 /\ FromWire(Present(r.context), WireContext) = r.context
                 /\ IsWire(Present(r.context), WireContext)
                 /\ Present(r.context) \notin {None, Null}
           /\ r.decision # None =>
                 /\ decision_value(r.decision) = Present(HexDecision(r.decision))
                 /\ FromWire(decision_value(r.decision), WireDecision)
                      = HexDecision(r.decision)
                 /\ IsWire(decision_value(r.decision), WireDecision)
                 /\ decision_value(r.decision) \notin {None, Null}
                 /\ HexDecision(r.decision) # None
<1>1. /\ r.actor \in ActorMessage
      /\ r.target # None => r.target \in TargetMessage
      /\ r.context # None => r.context \in ContextMessage
      /\ r.decision # None => r.decision \in DecisionMessage
  BY DEF SealRequest, Option, RequestIsValid
<1>2. /\ FromWire(Present(r.actor), WireActor) = r.actor
      /\ IsWire(Present(r.actor), WireActor)
      /\ Present(r.actor) \notin {None, Null}
  BY <1>1, ActorStruct, WrittenAndRead
<1>3. ASSUME r.target # None
      PROVE  /\ FromWire(r.target, WireTarget) = r.target
             /\ IsWire(r.target, WireTarget)
             /\ r.target # Null /\ Present(r.target) = r.target
  <2>1. IsStruct(r.target, WireTarget) /\ Present(r.target) = r.target
    BY <1>1, <1>3, TargetStruct
  <2>2. /\ FromWire(Present(r.target), WireTarget) = r.target
        /\ IsWire(Present(r.target), WireTarget)
        /\ Present(r.target) \notin {None, Null}
    BY <2>1, WrittenAndRead
  <2> QED
    BY <2>1, <2>2
<1>4. ASSUME r.context # None
      PROVE  /\ FromWire(Present(r.context), WireContext) = r.context
             /\ IsWire(Present(r.context), WireContext)
             /\ Present(r.context) \notin {None, Null}
  BY <1>1, <1>4, ContextStruct, WrittenAndRead
<1>5. ASSUME r.decision # None
      PROVE  /\ decision_value(r.decision) = Present(HexDecision(r.decision))
             /\ FromWire(decision_value(r.decision), WireDecision)
                  = HexDecision(r.decision)
             /\ IsWire(decision_value(r.decision), WireDecision)
             /\ decision_value(r.decision) \notin {None, Null}
             /\ HexDecision(r.decision) # None
  <2> DEFINE h == HexDecision(r.decision)
  <2>1. IsStruct(h, WireDecision) /\ decision_value(r.decision) = Present(h)
    BY <1>1, <1>5, DecisionStruct, Zenon
  <2> HIDE DEF h
  <2>2. /\ FromWire(Present(h), WireDecision) = h
        /\ IsWire(Present(h), WireDecision)
        /\ Present(h) \notin {None, Null}
    BY <2>1, WrittenAndRead
  <2>3. h # None
    <3>1. h \in [WireDecision.required \cup WireDecision.optional -> Option(Scalar)]
      BY <2>1 DEF IsStruct, Option
    <3>2. WireDecision.required \cup WireDecision.optional \in ObjectNames
      BY DEF ObjectNames
    <3> QED
      BY <3>1, <3>2, AbsenceAssumption DEF NoneIsApart
  <2> QED
    BY <2>1, <2>2, <2>3 DEF h
<1> QED
  BY <1>1, <1>2, <1>3, <1>4, <1>5

Required == {"schema_version", "event_id", "sequence", "occurred_at",
             "authority_domain", "event_type", "actor", "outcome", "prev_hash"}
Optional == {"target", "context", "decision"}

LEMMA DocumentMembers ==
    ASSUME NEW r \in SealRequest, RequestIsValid(r)
    PROVE  LET d == DocumentOf(r)
           IN /\ d = [k \in Required \cup Optional |-> d[k]]
              /\ \A k \in Required \cup Optional : d[k] # Null \/ d[k] = None
              /\ \A k \in Required : d[k] # None
              /\ \A k \in Optional : d[k] = None <=> r[k] = None
<1> DEFINE d == DocumentOf(r)
<1>1. d = [k \in Required \cup Optional |-> d[k]]
  BY DEF DocumentOf, Required, Optional
<1>2. /\ d.schema_version = 1 /\ d.event_id = r.event_id
      /\ d.sequence = r.sequence /\ d.prev_hash = hex_encode(r.prev_hash)
      /\ d.occurred_at = rfc3339_from_seconds(r.occurred_at)
      /\ d.authority_domain = r.authority_domain
      /\ d.event_type = r.event_type /\ d.actor = Present(r.actor)
      /\ d.target = r.target /\ d.outcome = r.outcome
      /\ d.context = Map(r.context, Present)
      /\ d.decision = Map(r.decision, decision_value)
  BY Zenon DEF DocumentOf
<1>3. None \notin Scalar \cup Text /\ Null \notin Scalar \cup Text
  BY AbsenceAssumption, Zenon DEF NoneIsApart, NullIsApart
<1>4. /\ 1 \in Scalar /\ r.event_id \in Scalar /\ r.sequence \in Scalar
      /\ r.authority_domain \in Scalar /\ r.event_type \in Scalar
      /\ r.outcome \in Scalar
  BY DEF SealRequest, Scalar
<1>5. hex_encode(r.prev_hash) \in Scalar
  BY DEF SealRequest, Scalar, hex_encode, Hex
<1>6. rfc3339_from_seconds(r.occurred_at) \in Text
  BY TimeIsText DEF RequestIsValid, SealRequest, Option
<1>7. d.actor \notin {None, Null}
  BY <1>2, MessagesAreWritten
<1>8. (d.target = None <=> r.target = None) /\ (r.target # None => d.target # Null)
  BY <1>2, MessagesAreWritten
<1>9. /\ d.context = None <=> r.context = None
      /\ r.context # None => d.context # Null
  BY <1>2, MessagesAreWritten DEF Map
<1>10. /\ d.decision = None <=> r.decision = None
       /\ r.decision # None => d.decision # Null
  BY <1>2, MessagesAreWritten DEF Map
<1> HIDE DEF d
<1>11. ASSUME NEW k \in Required PROVE d[k] \notin {None, Null}
  BY <1>2, <1>3, <1>4, <1>5, <1>6, <1>7 DEF Required
<1>12. ASSUME NEW k \in Optional
       PROVE  (d[k] = None <=> r[k] = None) /\ (d[k] # None => d[k] # Null)
  BY <1>8, <1>9, <1>10 DEF Optional
<1> QED
  BY <1>1, <1>11, <1>12 DEF d

LEMMA MembersAreRead ==
    ASSUME NEW r \in SealRequest, RequestIsValid(r), NEW s, s # Null
    PROVE  LET o == Signed(Present(DocumentOf(r)), s)
           IN /\ IsWire(o, WireDocument)
              /\ FromWire(o, WireDocument)
                   = [k \in Required \cup Optional \cup {"signature"} |->
                        IF k = "signature" THEN s ELSE DocumentOf(r)[k]]
              /\ "signature" \notin DOMAIN Present(DocumentOf(r))
              /\ DOMAIN Present(DocumentOf(r)) \subseteq Required \cup Optional
              /\ \A k \in Required \cup Optional :
                    /\ k \in DOMAIN Present(DocumentOf(r)) <=> DocumentOf(r)[k] # None
                    /\ k \in DOMAIN Present(DocumentOf(r)) =>
                          Present(DocumentOf(r))[k] = DocumentOf(r)[k]
<1> DEFINE d == DocumentOf(r)
           u == Present(d)
           o == Signed(u, s)
           names == Required \cup Optional
           all == names \cup {"signature"}
<1>1. /\ DOMAIN d = names
      /\ \A k \in names : d[k] # Null \/ d[k] = None
      /\ \A k \in Required : d[k] # None
  BY DocumentMembers
<1>2. "signature" \notin names
  BY DEF Required, Optional
<1> HIDE DEF d
<1>3. DOMAIN u = {k \in names : d[k] # None} /\ \A k \in DOMAIN u : u[k] = d[k]
  BY <1>1 DEF Present
<1> HIDE DEF u
<1>4. /\ DOMAIN o = DOMAIN u \cup {"signature"}
      /\ o["signature"] = s
      /\ \A k \in DOMAIN u : k # "signature" => o[k] = u[k]
  BY DEF Signed
<1>5. all = WireDocument.required \cup WireDocument.optional
      /\ WireDocument.required = Required \cup {"signature"}
  BY DEF WireDocument, Required, Optional
<1> HIDE DEF o, names
<1>6. Required \subseteq names
  BY DEF names
<1>7. IsWire(o, WireDocument)
  <2>1. WireDocument.required \subseteq DOMAIN o
    BY <1>1, <1>3, <1>4, <1>5, <1>6
  <2>2. DOMAIN o \subseteq all
    BY <1>3, <1>4
  <2>3. \A k \in WireDocument.required : o[k] # Null
    BY <1>1, <1>2, <1>3, <1>4, <1>5, <1>6
  <2> QED
    BY <1>5, <2>1, <2>2, <2>3 DEF IsWire, Parses
<1>8. FromWire(o, WireDocument)
        = [k \in all |-> IF k \in DOMAIN o /\ o[k] # Null THEN o[k] ELSE None]
  BY <1>5 DEF FromWire, Parse
<1>9. ASSUME NEW k \in all
      PROVE  (IF k \in DOMAIN o /\ o[k] # Null THEN o[k] ELSE None)
               = IF k = "signature" THEN s ELSE d[k]
  <2>1. CASE k = "signature"
    BY <1>4, <2>1
  <2>2. CASE k \in DOMAIN u /\ k # "signature"
    <3>1. o[k] = d[k] /\ d[k] # Null /\ k \in DOMAIN o
      BY <1>1, <1>3, <1>4, <2>2
    <3> QED
      BY <2>2, <3>1
  <2>3. CASE k \notin DOMAIN u /\ k # "signature"
    <3>1. k \notin DOMAIN o /\ d[k] = None
      BY <1>3, <1>4, <2>3
    <3> QED
      BY <2>3, <3>1
  <2> QED
    BY <2>1, <2>2, <2>3
<1>10. FromWire(o, WireDocument)
         = [k \in all |-> IF k = "signature" THEN s ELSE d[k]]
  BY <1>8, <1>9
<1>11. "signature" \notin DOMAIN u /\ DOMAIN u \subseteq names
       /\ \A k \in names : k \in DOMAIN u <=> d[k] # None
  BY <1>2, <1>3
<1> QED
  BY <1>3, <1>7, <1>10, <1>11 DEF d, u, o, names

-----------------------------------------------------------------------------
(* A sealed document, read by verify.                                      *)
LEMMA DocumentIsRead ==
    ASSUME NEW r \in SealRequest, RequestIsValid(r), NEW s, s # Null
    PROVE  LET w == from_slice(Signed(Present(DocumentOf(r)), s))
           IN /\ DOMAIN w = Required \cup Optional \cup {"signature"}
              /\ \A k \in Required \ {"actor"} : w[k] = DocumentOf(r)[k]
              /\ w.actor = r.actor /\ w.target = r.target
              /\ w.context = r.context
              /\ w.decision = Map(r.decision, HexDecision)
              /\ w.signature = s
<1> DEFINE d == DocumentOf(r)
           o == Signed(Present(d), s)
           all == Required \cup Optional \cup {"signature"}
           f == [k \in all |-> IF k = "signature" THEN s ELSE d[k]]
           a == FromWire(f.actor, WireActor)
           t == Map(f.target, LAMBDA x : FromWire(x, WireTarget))
           c == Map(f.context, LAMBDA x : FromWire(x, WireContext))
           e == Map(f.decision, LAMBDA x : FromWire(x, WireDecision))
           w == [f EXCEPT !.actor = a, !.target = t, !.context = c,
                          !.decision = e]
<1>1. FromWire(o, WireDocument) = f
  BY MembersAreRead
<1>2. from_slice(o) = w
  BY <1>1, Zenon DEF from_slice
<1>3. /\ d.actor = Present(r.actor) /\ d.target = r.target
      /\ d.context = Map(r.context, Present)
      /\ d.decision = Map(r.decision, decision_value)
  BY Zenon DEF DocumentOf
<1> HIDE DEF d
<1>4. /\ f.actor = d.actor /\ f.target = d.target /\ f.context = d.context
      /\ f.decision = d.decision /\ f.signature = s
      /\ \A k \in Required : f[k] = d[k]
  BY DEF Required, Optional
<1>5. DOMAIN f = all
  OBVIOUS
<1>6. a = r.actor
  BY <1>3, <1>4, MessagesAreWritten
<1>7. t = r.target
  BY <1>3, <1>4, MessagesAreWritten DEF Map
<1>8. c = r.context
  <2>1. CASE r.context = None
    BY <1>3, <1>4, <2>1 DEF Map
  <2>2. CASE r.context # None
    <3>1. f.context = Present(r.context)
      BY <1>3, <1>4, <2>2 DEF Map
    <3> HIDE DEF f
    <3> QED
      BY <2>2, <3>1, MessagesAreWritten DEF Map
  <2> QED
    BY <2>1, <2>2
<1>9. e = Map(r.decision, HexDecision)
  <2>1. CASE r.decision = None
    BY <1>3, <1>4, <2>1 DEF Map
  <2>2. CASE r.decision # None
    <3>1. f.decision = decision_value(r.decision)
      BY <1>3, <1>4, <2>2 DEF Map
    <3> HIDE DEF f
    <3> QED
      BY <2>2, <3>1, MessagesAreWritten DEF Map
  <2> QED
    BY <2>1, <2>2
<1> HIDE DEF f, a, t, c, e
<1>10. /\ DOMAIN w = all /\ w.actor = a /\ w.target = t /\ w.context = c
       /\ w.decision = e /\ w.signature = f.signature
       /\ \A k \in Required \ {"actor"} : w[k] = f[k]
  BY <1>5, Zenon DEF Required, Optional
<1> HIDE DEF w
<1>11. \A k \in Required \ {"actor"} : w[k] = d[k]
  BY <1>4, <1>10
<1> QED
  BY <1>2, <1>4, <1>6, <1>7, <1>8, <1>9, <1>10, <1>11 DEF d, o

LEMMA MembersAsWritten ==
    ASSUME NEW r \in SealRequest, RequestIsValid(r), NEW s, s # Null
    PROVE  \A k \in Required \ {"actor"} :
              from_slice(Signed(Present(DocumentOf(r)), s))[k] = DocumentOf(r)[k]
BY DocumentIsRead

LEMMA UnsignedIsRead ==
    ASSUME NEW r \in SealRequest, RequestIsValid(r), NEW s, s # Null
    PROVE  unsigned_document_from_wire(
              from_slice(Signed(Present(DocumentOf(r)), s)))
             = Present(DocumentOf(r))
<1> DEFINE d == DocumentOf(r)
           w == from_slice(Signed(Present(d), s))
           names == Required \cup Optional
           v == [k \in DOMAIN w \ {"signature"} |->
                   CASE k = "actor" -> Present(w.actor)
                     [] k \in {"target", "context", "decision"} ->
                           Map(w[k], Present)
                     [] OTHER -> w[k]]
<1>1. /\ DOMAIN w = names \cup {"signature"}
      /\ \A k \in Required \ {"actor"} : w[k] = d[k]
      /\ w.actor = r.actor /\ w.target = r.target
      /\ w.context = r.context
      /\ w.decision = Map(r.decision, HexDecision)
  BY DocumentIsRead
<1>2. /\ d.actor = Present(r.actor) /\ d.target = r.target
      /\ d.context = Map(r.context, Present)
      /\ d.decision = Map(r.decision, decision_value)
  BY Zenon DEF DocumentOf
<1>3. unsigned_document_from_wire(w) = Present(v)
  BY Zenon DEF unsigned_document_from_wire
<1>4. d = [k \in names |-> d[k]]
  BY DocumentMembers
<1> HIDE DEF w, d
<1>5. DOMAIN w \ {"signature"} = names
  BY <1>1 DEF Required, Optional
<1>6. ASSUME NEW k \in names PROVE v[k] = d[k]
  <2>1. CASE k = "actor"
    <3>1. v[k] = Present(w.actor)
      BY <1>5, <2>1
    <3> QED
      BY <1>1, <1>2, <2>1, <3>1
  <2>2. CASE k = "target"
    <3>1. v[k] = Map(w.target, Present)
      BY <1>5, <2>2
    <3>2. Map(r.target, Present) = r.target
      BY MessagesAreWritten DEF Map
    <3> QED
      BY <1>1, <1>2, <2>2, <3>1, <3>2
  <2>3. CASE k = "context"
    <3>1. v[k] = Map(w.context, Present)
      BY <1>5, <2>3
    <3> QED
      BY <1>1, <1>2, <2>3, <3>1
  <2>4. CASE k = "decision"
    <3>1. v[k] = Map(w.decision, Present)
      BY <1>5, <2>4
    <3>2. Map(w.decision, Present) = Map(r.decision, decision_value)
      BY <1>1, MessagesAreWritten DEF Map
    <3> QED
      BY <1>2, <2>4, <3>1, <3>2
  <2>5. CASE k \notin {"actor", "target", "context", "decision"}
    <3>1. v[k] = w[k]
      BY <1>5, <2>5, Zenon
    <3>2. k \in Required \ {"actor"}
      BY <2>5 DEF Required, Optional
    <3> QED
      BY <1>1, <3>1, <3>2
  <2> QED
    BY <2>1, <2>2, <2>3, <2>4, <2>5, Zenon
<1>7. v = d
  <2>1. v = [k \in names |-> v[k]]
    BY <1>5
  <2> HIDE DEF v, names
  <2> QED
    BY <1>4, <1>6, <2>1
<1> QED
  BY <1>3, <1>7, Zenon DEF w, d

(* The signature of a sealed document.                                     *)
LEMMA SignatureMembers ==
    ASSUME NEW u
    PROVE  LET s == SignatureUnder(SealerKey, u)
           IN /\ s.suite = SUITE_V1 /\ DOMAIN s = {"suite", "components"}
              /\ Len(s.components) = 1 /\ DOMAIN s.components = {1}
              /\ DOMAIN s.components[1] = {"component", "key_id", "value"}
              /\ s.components[1].component = Components[1]
              /\ s.components[1].key_id = key_id_from_public_key(SealerKey)
              /\ hex_decode(s.components[1].value)
                   = Signature(SealerKey, signed_message(DOMAIN_PREFIX_V1, u))
<1> DEFINE g == Signature(SealerKey, signed_message(DOMAIN_PREFIX_V1, u))
           h == hex_encode(g)
           c == [component |-> Components[1],
                 key_id |-> key_id_from_public_key(SealerKey), value |-> h]
<1>1. SignatureUnder(SealerKey, u) = [suite |-> SUITE_V1, components |-> <<c>>]
  BY DEF SignatureUnder, SignatureOf, Component
<1>2. hex_decode(h) = g
  <2> HIDE DEF g
  <2> QED
    BY DEF hex_decode, hex_encode
<1> HIDE DEF g, h
<1>3. /\ DOMAIN c = {"component", "key_id", "value"}
      /\ c.component = Components[1]
      /\ c.key_id = key_id_from_public_key(SealerKey) /\ c.value = h
  OBVIOUS
<1> HIDE DEF c
<1>4. Len(<<c>>) = 1 /\ DOMAIN <<c>> = {1} /\ <<c>>[1] = c
  OBVIOUS
<1> DEFINE s == SignatureUnder(SealerKey, u)
<1>5. s.suite = SUITE_V1 /\ DOMAIN s = {"suite", "components"}
      /\ s.components = <<c>>
  BY <1>1
<1> HIDE DEF s
<1> QED
  BY <1>2, <1>3, <1>4, <1>5 DEF s, g

LEMMA SignatureIsApart ==
    ASSUME NEW r \in SealRequests, RequestIsValid(r)
    PROVE  LET s == SignatureUnder(SealerKey, Present(DocumentOf(r)))
           IN /\ s # Null /\ IsWire(s, WireSignature)
              /\ IsWire(s.components[1], WireComponent)
<1> DEFINE u == Present(DocumentOf(r))
           s == SignatureUnder(SealerKey, u)
<1>1. r \in SealRequest
  BY RequestsAssumption
<1>2. unsigned_document(fields_from_request(r)) = u
  BY <1>1, SealedAsRequested
<1> HIDE DEF u
<1>3. Null \notin {s, s.suite, s.components, s.components[1].component,
                   s.components[1].key_id, s.components[1].value}
  <2>1. r \in {q \in SealRequests : RequestIsValid(q)}
    OBVIOUS
  <2> QED
    BY <1>2, <2>1, AbsenceAssumption, Zenon DEF NullIsApart
<1>4. /\ DOMAIN s = {"suite", "components"}
      /\ DOMAIN s.components[1] = {"component", "key_id", "value"}
  BY SignatureMembers
<1> HIDE DEF s
<1>5. IsWire(s, WireSignature)
  BY <1>3, <1>4 DEF IsWire, Parses, WireSignature
<1>6. IsWire(s.components[1], WireComponent)
  BY <1>3, <1>4 DEF IsWire, Parses, WireComponent
<1> QED
  BY <1>3, <1>5, <1>6 DEF s, u

-----------------------------------------------------------------------------
(* The checks that verify makes of the bytes it has read as doc.           *)
EveryCheck(keys, bytes, policy, doc) ==
    LET suite    == doc.signature.suite
        unsigned == unsigned_document_from_wire(doc)
        message  == signed_message(domain_prefix_for(suite), unsigned)
    IN /\ ~(DocumentSize(bytes.object) > MAX_BYTES)
       /\ IsWireDocument(bytes.object)
       /\ doc.schema_version = 1
       /\ suite \in policy.accepted_suites
       /\ ContentIsValid(doc)
       /\ required_components(suite) # None
       /\ ArityIsRight(doc.signature.components, required_components(suite))
       /\ canonical_bytes(Signed(unsigned, doc.signature)) = bytes
       /\ CheckSignatures(keys, doc.signature.components, message) = "Ok"
       /\ doc.authority_domain = policy.expected_authority_domain
       /\ Is32(hex_decode(doc.prev_hash))

LEMMA OkIsEveryCheck ==
    ASSUME NEW keys, NEW bytes, NEW policy
    PROVE  verify(keys, bytes, policy) = "Ok"
             <=> EveryCheck(keys, bytes, policy, from_slice(bytes.object))
<1> DEFINE doc      == from_slice(bytes.object)
           suite    == doc.signature.suite
           unsigned == unsigned_document_from_wire(doc)
           message  == signed_message(domain_prefix_for(suite), unsigned)
           checked  == CheckSignatures(keys, doc.signature.components, message)
           c1 == DocumentSize(bytes.object) > MAX_BYTES
           c2 == ~IsWireDocument(bytes.object) \/ doc.schema_version # 1
           c3 == suite \notin policy.accepted_suites
           c4 == ~ContentIsValid(doc)
           c5 == required_components(suite) = None
           c6 == ~ArityIsRight(doc.signature.components,
                               required_components(suite))
           c7 == canonical_bytes(Signed(unsigned, doc.signature)) # bytes
           c9 == doc.authority_domain # policy.expected_authority_domain
           c10 == ~Is32(hex_decode(doc.prev_hash))
<1>1. verify(keys, bytes, policy)
        = IF c1 THEN "TooLarge" ELSE IF c2 THEN "MalformedDocument"
          ELSE IF c3 THEN "UnknownSuite" ELSE IF c4 THEN "MalformedDocument"
          ELSE IF c5 THEN "UnknownSuite" ELSE IF c6 THEN "InvalidSignatureArity"
          ELSE IF c7 THEN "NonCanonical" ELSE IF checked # "Ok" THEN checked
          ELSE IF c9 THEN "UnexpectedAuthorityDomain"
          ELSE IF c10 THEN "MalformedDocument" ELSE "Ok"
  BY Zenon DEF verify
<1> HIDE DEF c1, c2, c3, c4, c5, c6, c7, checked, c9, c10
<1>2. verify(keys, bytes, policy) = "Ok" <=>
        ~c1 /\ ~c2 /\ ~c3 /\ ~c4 /\ ~c5 /\ ~c6 /\ ~c7 /\ checked = "Ok"
        /\ ~c9 /\ ~c10
  BY <1>1
<1> QED
  BY <1>2, Zenon DEF EveryCheck, c1, c2, c3, c4, c5, c6, c7, checked, c9, c10

LEMMA CopiesDifferInOnePlace ==
    ASSUME NEW bytes, NEW b \in {bytes} \cup Copies(bytes),
           b.layout = "canonical", bytes.layout = "canonical"
    PROVE  \/ b.object = bytes.object
           \/ \E k, v : b.object = With(bytes.object, k, v)
           \/ \E k : b.object = Without(bytes.object, k)
<1> DEFINE document == bytes.object
           other == SealedEvent(fields_from_request(Another), SealerKey).object
           DiffersOnce(d) == \/ \E k, v : d = With(document, k, v)
                             \/ \E k : d = Without(document, k)
<1>1. CASE b = bytes
  BY <1>1
<1>2. CASE b = [bytes EXCEPT !.layout = "other"]
  <2>1. b.layout = "other" \/ b = bytes
    BY <1>2
  <2> QED
    BY <2>1
<1>3. ASSUME NEW object, NEW oth, NEW members,
             NEW d \in ObjectCopies(object, oth, members)
      PROVE  \/ \E k, v : d = With(object, k, v)
             \/ \E k : d = Without(object, k)
  BY DEF ObjectCopies
<1>4. ASSUME NEW k, NEW wire, NEW d \in InnerCopies(document, other, k, wire)
      PROVE  DiffersOnce(d)
  BY DEF InnerCopies
<1>5. ASSUME NEW d \in SignatureCopies(document)
      PROVE  DiffersOnce(d)
  BY DEF SignatureCopies
<1>6. ASSUME NEW d \in ObjectCopies(document, other,
                              WireDocument.required \cup WireDocument.optional)
      PROVE  DiffersOnce(d)
  BY <1>3
<1>7. DiffersOnce(With(document, "schema_version", 2))
  OBVIOUS
<1> HIDE DEF DiffersOnce
<1>8. ASSUME NEW d, b = canonical_bytes(d), DiffersOnce(d)
      PROVE  DiffersOnce(b.object)
  BY <1>8 DEF canonical_bytes
<1>9. \/ b = bytes \/ b = [bytes EXCEPT !.layout = "other"]
      \/ \E d : b = canonical_bytes(d) /\ DiffersOnce(d)
  BY <1>4, <1>5, <1>6, <1>7, Zenon DEF Copies
<1> QED
  BY <1>1, <1>2, <1>8, <1>9 DEF DiffersOnce

(* The signature is over the document: a copy that verifies with the same  *)
(* signature is the same document.                                         *)
LEMMA SameSignature ==
    ASSUME NEW keys, NEW u, NEW v, NEW prefix,
           CheckSignatures(keys, SignatureUnder(SealerKey, u).components,
                           signed_message(prefix, v)) = "Ok"
    PROVE  v = u
<1> DEFINE cs == SignatureUnder(SealerKey, u).components
           m == signed_message(prefix, v)
           n == signed_message(DOMAIN_PREFIX_V1, u)
<1>1. DOMAIN cs = {1} /\ hex_decode(cs[1].value) = Signature(SealerKey, n)
  BY SignatureMembers
<1> HIDE DEF cs, m, n
<1>2. ComponentIsValid(keys, cs[1], m)
  <2>1. CheckSignatures(keys, cs, m) = "Ok"
    BY DEF cs, m
  <2> QED
    BY <1>1, <2>1 DEF CheckSignatures
<1>3. PICK k : Signature(SealerKey, n) = Signature(k.raw, m)
  BY <1>1, <1>2 DEF ComponentIsValid
<1>4. Signature(SealerKey, n).message = n /\ Signature(k.raw, m).message = m
  BY DEF Signature
<1>5. n = m
  BY <1>3, <1>4
<1>6. n.document = canonical_bytes(u) /\ m.document = canonical_bytes(v)
  BY DEF n, m, signed_message
<1>7. canonical_bytes(u) = canonical_bytes(v)
  BY <1>5, <1>6
<1>8. canonical_bytes(u).object = u /\ canonical_bytes(v).object = v
  BY DEF canonical_bytes
<1> QED
  BY <1>7, <1>8

LEMMA UnsignedIsTheRest ==
    ASSUME NEW struct, NEW s, "signature" \notin DOMAIN Present(struct)
    PROVE  Without(Signed(Present(struct), s), "signature") = Present(struct)
<1> DEFINE u == Present(struct)
<1>1. u = [k \in DOMAIN u |-> u[k]]
  BY DEF Present
<1> HIDE DEF u
<1>2. "signature" \notin DOMAIN u
  BY DEF u
<1>3. Without(Signed(u, s), "signature") = [k \in DOMAIN u |-> u[k]]
  BY <1>2 DEF Without, Signed
<1> QED
  BY <1>1, <1>3 DEF u

LEMMA SealedBytesOf ==
    ASSUME NEW r \in SealRequests, RequestIsValid(r)
    PROVE  LET u == Present(DocumentOf(r))
               b == SealedEvent(fields_from_request(r), SealerKey)
           IN /\ r \in SealRequest
              /\ b = canonical_bytes(Signed(u, SignatureUnder(SealerKey, u)))
              /\ b.object = Signed(u, SignatureUnder(SealerKey, u))
              /\ b.layout = "canonical"
              /\ "signature" \notin DOMAIN u
              /\ Without(b.object, "signature") = u
<1> DEFINE u == Present(DocumentOf(r))
           g == SignatureUnder(SealerKey, u)
           b == SealedEvent(fields_from_request(r), SealerKey)
<1>1. r \in SealRequest
  BY RequestsAssumption
<1>2. unsigned_document(fields_from_request(r)) = u
  BY <1>1, SealedAsRequested
<1>3. b = canonical_bytes(Signed(u, g))
  BY <1>2, Zenon DEF SealedEvent
<1>4. b.object = Signed(u, g) /\ b.layout = "canonical"
  BY <1>3 DEF canonical_bytes
<1>5. g # Null
  BY SignatureIsApart
<1>6. "signature" \notin DOMAIN u
  BY <1>1, <1>5, MembersAreRead
<1>7. Without(Signed(u, g), "signature") = u
  BY <1>6, UnsignedIsTheRest, Zenon
<1> QED
  BY <1>1, <1>3, <1>4, <1>6, <1>7

LEMMA AcceptedIsSealed ==
    ASSUME NEW r \in SealRequests, RequestIsValid(r),
           NEW sealing, sealing = SealedEvent(fields_from_request(r), SealerKey),
           NEW b \in {sealing} \cup Copies(sealing),
           verify(KeyRing, b, Policy) = "Ok"
    PROVE  /\ b.layout = "canonical"
           /\ Without(b.object, "signature") = Present(DocumentOf(r))
           /\ from_slice(b.object).authority_domain = ExpectedDomain
           /\ IsWireDocument(b.object)
<1> DEFINE u == Present(DocumentOf(r))
           g == SignatureUnder(SealerKey, u)
           o == b.object
           doc == from_slice(o)
           v == unsigned_document_from_wire(doc)
           s == doc.signature
           m == signed_message(domain_prefix_for(s.suite), v)
<1>1. /\ sealing.object = Signed(u, g) /\ sealing.layout = "canonical"
      /\ "signature" \notin DOMAIN u
      /\ Without(sealing.object, "signature") = u
  BY SealedBytesOf, Zenon
<1>2. /\ IsWireDocument(o)
      /\ canonical_bytes(Signed(v, s)) = b
      /\ CheckSignatures(KeyRing, s.components, m) = "Ok"
      /\ doc.authority_domain = Policy.expected_authority_domain
  BY OkIsEveryCheck, Zenon DEF EveryCheck
<1>3. Policy.expected_authority_domain = ExpectedDomain
  BY DEF Policy
<1>4. b.layout = "canonical" /\ o = Signed(v, s)
  BY <1>2 DEF canonical_bytes
<1>5. "signature" \notin DOMAIN v /\ Without(Signed(v, s), "signature") = v
  <2> DEFINE struct == [k \in DOMAIN doc \ {"signature"} |->
                 CASE k = "actor" -> Present(doc.actor)
                   [] k \in {"target", "context", "decision"} ->
                         Map(doc[k], Present)
                   [] OTHER -> doc[k]]
  <2>1. v = Present(struct)
    BY Zenon DEF unsigned_document_from_wire
  <2>2. "signature" \notin DOMAIN Present(struct)
    <3>1. "signature" \notin DOMAIN struct
      OBVIOUS
    <3> HIDE DEF struct
    <3> QED
      BY <3>1 DEF Present
  <2> HIDE DEF struct
  <2> HIDE DEF v, s
  <2> QED
    BY <2>1, <2>2, UnsignedIsTheRest
<1>6. "signature" \in DOMAIN o /\ o["signature"] = s
  <2> HIDE DEF v, s, o
  <2> QED
    BY <1>4 DEF Signed
<1>7. ASSUME o["signature"] = g PROVE v = u
  <2>1. s = g
    BY <1>6, <1>7
  <2>2. CheckSignatures(KeyRing, g.components,
                        signed_message(domain_prefix_for(s.suite), v)) = "Ok"
    BY <1>2, <2>1, Zenon
  <2> QED
    BY <2>2, SameSignature
<1> HIDE DEF v, s, m, doc, o
<1>8. Without(o, "signature") = v
  BY <1>4, <1>5
<1>9. DOMAIN sealing.object = DOMAIN u \cup {"signature"}
      /\ sealing.object["signature"] = g
  <2> HIDE DEF u, g
  <2> QED
    BY <1>1 DEF Signed
<1> HIDE DEF u, g
<1>10. Without(o, "signature") = u
  <2>1. \/ o = sealing.object
        \/ \E k, x : o = With(sealing.object, k, x)
        \/ \E k : o = Without(sealing.object, k)
    BY <1>1, <1>4, CopiesDifferInOnePlace DEF o
  <2>2. CASE o = sealing.object
    BY <1>1, <2>2
  <2>3. ASSUME NEW k, NEW x, o = With(sealing.object, k, x)
        PROVE  Without(o, "signature") = u
    <3>1. CASE k = "signature"
      <4>1. Without(o, "signature") = Without(sealing.object, "signature")
        BY <2>3, <3>1 DEF With, Without
      <4> QED
        BY <1>1, <4>1
    <3>2. CASE k # "signature"
      <4>1. o["signature"] = g
        BY <1>9, <2>3, <3>2 DEF With
      <4> QED
        BY <1>7, <1>8, <4>1
    <3> QED
      BY <3>1, <3>2
  <2>4. ASSUME NEW k, o = Without(sealing.object, k)
        PROVE  Without(o, "signature") = u
    <3>1. k # "signature"
      BY <1>6, <2>4 DEF Without
    <3>2. o["signature"] = g
      BY <1>9, <2>4, <3>1 DEF Without
    <3> QED
      BY <1>7, <1>8, <3>2
  <2> QED
    BY <2>1, <2>2, <2>3, <2>4
<1> QED
  BY <1>2, <1>3, <1>4, <1>10 DEF o, doc, u

(* What a document with the members of DocumentOf(r) says.                 *)
LEMMA DocumentSays ==
    ASSUME NEW r \in SealRequests, RequestIsValid(r), NEW o,
           Without(o, "signature") = Present(DocumentOf(r))
    PROVE  /\ \A k \in Required : k \in DOMAIN o /\ o[k] = DocumentOf(r)[k]
           /\ \A k \in Optional : k \in DOMAIN o <=> DocumentOf(r)[k] # None
           /\ \A k \in Optional : k \in DOMAIN o => o[k] = DocumentOf(r)[k]
<1> DEFINE d == DocumentOf(r)
           u == Present(d)
           g == SignatureUnder(SealerKey, u)
           w == Without(o, "signature")
<1>1. r \in SealRequest /\ g # Null
  BY SealedBytesOf, SignatureIsApart, Zenon
<1>2. \A k \in Required \cup Optional :
         /\ k \in DOMAIN u <=> d[k] # None
         /\ k \in DOMAIN u => u[k] = d[k]
  BY <1>1, MembersAreRead
<1>3. \A k \in Required : d[k] # None
  BY <1>1, DocumentMembers
<1>4. "signature" \notin Required \cup Optional
  BY DEF Required, Optional
<1>5. w = u
  OBVIOUS
<1> HIDE DEF d, u
<1>6. ASSUME NEW k \in Required \cup Optional
      PROVE  /\ k \in DOMAIN w <=> k \in DOMAIN o
             /\ k \in DOMAIN o => o[k] = w[k]
  BY <1>4 DEF Without
<1> HIDE DEF w
<1> QED
  BY <1>2, <1>3, <1>5, <1>6 DEF d

-----------------------------------------------------------------------------
(* What was sealed is the request that was received, and what the auditor  *)
(* reads is the sealing or a copy of it.                                   *)
SealingInv ==
    /\ sealed_event # None =>
          /\ request \in SealRequests /\ RequestIsValid(request)
          /\ ~SealIsRefused(fields_from_request(request), SealerKey)
          /\ sealed_event = SealedEvent(fields_from_request(request), SealerKey)
    /\ request # None => request \in SealRequests
    /\ received # None =>
          /\ sealed_event # None
          /\ received \in {sealed_event} \cup Copies(sealed_event)
          /\ verdict = verify(KeyRing, received, Policy)

LEMMA SealingIsInvariant == AuditorSpec => []SealingInv
<1>1. AuditorInit => SealingInv
  BY DEF AuditorInit, SealingInv
<1>2. SealingInv /\ [AuditorNext]_auditor => SealingInv'
  <2> SUFFICES ASSUME SealingInv, [AuditorNext]_auditor
               PROVE  SealingInv'
    OBVIOUS
  <2>1. None \notin SealRequests
    <3>1. None \notin SealRequest
      BY AbsenceAssumption DEF NoneIsApart
    <3> QED
      BY <3>1, RequestsAssumption
  <2>2. CASE Request
    <3>1. sealed_event = None /\ received = None
      BY <2>1, <2>2 DEF Request, SealingInv
    <3> QED
      BY <2>2, <3>1 DEF Request, SealingInv
  <2>3. CASE SealEvent
    <3> DEFINE e == SealedEvent(fields_from_request(request), SealerKey)
    <3>1. /\ sealed_event' = e /\ request' = request
          /\ received' = received /\ verdict' = verdict
          /\ request \in SealRequests /\ RequestIsValid(request)
          /\ ~SealIsRefused(fields_from_request(request), SealerKey)
      BY <2>3 DEF SealEvent, SealingInv
    <3>2. sealed_event # None => sealed_event' = sealed_event
      BY <3>1 DEF SealingInv
    <3>3. received # None => /\ sealed_event' # None
                             /\ received \in {sealed_event'} \cup Copies(sealed_event')
                             /\ verdict = verify(KeyRing, received, Policy)
      BY <3>2, Zenon DEF SealingInv
    <3> HIDE DEF e
    <3> QED
      BY <3>1, <3>3, Zenon DEF SealingInv, e
  <2>4. CASE VerifyEvent
    <3>1. /\ sealed_event # None
          /\ received' \in {sealed_event} \cup Copies(sealed_event)
          /\ verdict' = verify(KeyRing, received', Policy)
          /\ request' = request /\ sealed_event' = sealed_event
      BY <2>4, Zenon DEF VerifyEvent
    <3> QED
      BY <3>1, Zenon DEF SealingInv
  <2>5. ASSUME UNCHANGED <<request, sealed_event, received, verdict>>
        PROVE  SealingInv'
    BY <2>5, Zenon DEF SealingInv
  <2>6. CASE OpenSealer \/ InvalidArgument \/ Unavailable \/ ReadEntry \/ Done
             \/ UNCHANGED auditor
    BY <2>5, <2>6 DEF OpenSealer, InvalidArgument, Unavailable, ReadEntry, Done,
                      auditor, event
  <2> QED
    BY <2>2, <2>3, <2>4, <2>6 DEF AuditorNext
<1> QED
  BY <1>1, <1>2, PTL DEF AuditorSpec

LEMMA SaysWhatWasRequested ==
    ASSUME NEW o, request \in SealRequests, RequestIsValid(request),
           Without(o, "signature") = Present(DocumentOf(request)),
           NEW k \in {"actor", "target", "context", "decision"}
    PROVE  Says(o, k)
<1> DEFINE d == DocumentOf(request)
<1>1. request \in SealRequest
  BY RequestsAssumption
<1>2. /\ \A n \in Required : n \in DOMAIN o /\ o[n] = d[n]
      /\ \A n \in Optional : n \in DOMAIN o <=> d[n] # None
      /\ \A n \in Optional : n \in DOMAIN o => o[n] = d[n]
  BY DocumentSays
<1>3. \A n \in Optional : d[n] = None <=> request[n] = None
  BY <1>1, DocumentMembers
<1>4. /\ d.actor = Present(request.actor) /\ d.target = request.target
      /\ d.context = Map(request.context, Present)
      /\ d.decision = Map(request.decision, decision_value)
  BY Zenon DEF DocumentOf
<1>5. /\ request.actor \in ActorMessage
      /\ request.target # None => request.target \in TargetMessage
      /\ request.context # None => request.context \in ContextMessage
      /\ request.decision # None => request.decision \in DecisionMessage
  BY <1>1, MessagesAreWritten
<1> HIDE DEF d
<1>6. ASSUME NEW s, NEW wire \in {WireActor, WireTarget, WireContext},
             IsStruct(s, wire), request[k] = s, k \in DOMAIN o,
             o[k] = Present(s), s # None
      PROVE  Says(o, k)
  <2>1. DOMAIN s = wire.required \cup wire.optional
    BY <1>6 DEF IsStruct
  <2>2. {"decision_hash", "decision_signature"} \cap DOMAIN s = {}
    BY <1>6, <2>1 DEF WireActor, WireTarget, WireContext
  <2>3. \A m \in DOMAIN s : /\ m \in DOMAIN Present(s) <=> s[m] # None
                            /\ m \in DOMAIN Present(s) => Present(s)[m] = s[m]
    BY <1>6, <2>1, WrittenAndRead
  <2>4. \A m \in DOMAIN s : Plain(m, Present(s)[m]) = Present(s)[m]
    BY <2>2 DEF Plain
  <2> QED
    BY <1>6, <2>3, <2>4 DEF Says
<1>7. CASE k = "actor"
  <2>1. request.actor # None
    BY DEF RequestIsValid
  <2>2. k \in DOMAIN o /\ o[k] = Present(request.actor)
    BY <1>2, <1>4, <1>7 DEF Required
  <2> QED
    BY <1>5, <1>6, <1>7, <2>1, <2>2, ActorStruct
<1>8. CASE k = "target" /\ request.target # None
  <2>1. k \in DOMAIN o /\ o[k] = request.target
    BY <1>2, <1>3, <1>4, <1>8 DEF Optional
  <2> QED
    BY <1>5, <1>6, <1>8, <2>1, TargetStruct
<1>9. CASE k = "context" /\ request.context # None
  <2>1. k \in DOMAIN o /\ o[k] = Present(request.context)
    BY <1>2, <1>3, <1>4, <1>9 DEF Optional, Map
  <2> QED
    BY <1>5, <1>6, <1>9, <2>1, ContextStruct
<1>10. CASE k = "decision" /\ request.decision # None
  <2> DEFINE q == request.decision
             h == HexDecision(q)
             names == WireDecision.required \cup WireDecision.optional
  <2>1. k \in DOMAIN o /\ o[k] = decision_value(q)
    BY <1>2, <1>3, <1>4, <1>10 DEF Optional, Map
  <2>2. q \in DecisionMessage
    BY <1>5, <1>10
  <2>3. IsStruct(h, WireDecision) /\ decision_value(q) = Present(h)
    BY <2>2, DecisionStruct, Zenon
  <2>4. DOMAIN q = names
    BY <2>2 DEF DecisionMessage, WireDecision
  <2>5. \A m \in names : /\ m \in DOMAIN Present(h) <=> h[m] # None
                         /\ m \in DOMAIN Present(h) => Present(h)[m] = h[m]
    BY <2>3, WrittenAndRead
  <2>6. /\ h.decision_hash = hex_encode(q.decision_hash)
        /\ h.decision_signature = Map(q.decision_signature, hex_encode)
        /\ h.request_id = q.request_id /\ h.policy_version = q.policy_version
        /\ h.reasons = q.reasons
        /\ h.granted_ttl_seconds = q.granted_ttl_seconds
        /\ h.decision_signature_key_id = q.decision_signature_key_id
    BY <2>2, DecisionStruct, Zenon
  <2>7. /\ q.decision_hash \in Bytes
        /\ q.decision_signature # None => q.decision_signature \in Bytes
    BY <2>2 DEF DecisionMessage, Option
  <2>8. ASSUME NEW b \in Bytes
        PROVE  hex_decode(hex_encode(b)) = b /\ hex_encode(b) # None
    <3>1. hex_encode(b) \in Scalar
      BY DEF hex_encode, Hex, Scalar
    <3>2. None \notin Scalar
      BY AbsenceAssumption DEF NoneIsApart
    <3>3. hex_decode(hex_encode(b)) = b
      BY DEF hex_decode, hex_encode
    <3> QED
      BY <3>1, <3>2, <3>3
  <2>9. q.decision_hash # None
    <3>1. None \notin Bytes
      BY AbsenceAssumption DEF NoneIsApart, Scalar
    <3> QED
      BY <2>7, <3>1
  <2> HIDE DEF q, h
  <2>10. ASSUME NEW m \in names
         PROVE  /\ h[m] # None <=> q[m] # None
                /\ h[m] # None => Plain(m, h[m]) = q[m]
    <3>1. CASE m = "decision_hash"
      BY <2>6, <2>7, <2>8, <2>9, <3>1 DEF Plain
    <3>2. CASE m = "decision_signature"
      BY <2>6, <2>7, <2>8, <3>2 DEF Plain, Map
    <3>3. CASE m \notin {"decision_hash", "decision_signature"}
      BY <2>6, <3>3 DEF Plain, WireDecision
    <3> QED
      BY <3>1, <3>2, <3>3
  <2>11. request[k] = q /\ q # None
    BY <1>10 DEF q
  <2>12. o[k] = Present(h)
    BY <2>1, <2>3
  <2> HIDE DEF names
  <2>13. ASSUME NEW m \in DOMAIN request[k]
         PROVE  /\ m \in DOMAIN o[k] <=> request[k][m] # None
                /\ m \in DOMAIN o[k] => Plain(m, o[k][m]) = request[k][m]
    BY <2>4, <2>5, <2>10, <2>11, <2>12
  <2> QED
    BY <2>1, <2>11, <2>13, Zenon DEF Says
<1>11. CASE k \in Optional /\ request[k] = None
  BY <1>2, <1>3, <1>11 DEF Says
<1> QED
  BY <1>7, <1>8, <1>9, <1>10, <1>11 DEF Optional

(* Whatever is requested, and whatever copy of its sealing reaches the     *)
(* auditor, what verify accepts is the event that was requested, for the   *)
(* expected domain, member for member: the canonical form and the          *)
(* signature over it leave no other document (audit_seal.rs, verify).      *)
THEOREM VerifiedWasAlwaysSealed == AuditorSpec => []VerifiedWasSealed
<1>1. SealingInv => VerifiedWasSealed
  <2> SUFFICES ASSUME SealingInv, received # None, verdict = "Ok"
               PROVE  VerifiedWasSealed
    BY DEF VerifiedWasSealed
  <2> DEFINE o == received.object
             d == DocumentOf(request)
  <2>1. /\ request \in SealRequests /\ RequestIsValid(request)
        /\ sealed_event = SealedEvent(fields_from_request(request), SealerKey)
        /\ received \in {sealed_event} \cup Copies(sealed_event)
        /\ verify(KeyRing, received, Policy) = "Ok"
    BY Zenon DEF SealingInv
  <2>2. /\ received.layout = "canonical"
        /\ Without(o, "signature") = Present(d)
        /\ from_slice(o).authority_domain = ExpectedDomain
        /\ IsWireDocument(o)
    BY <2>1, AcceptedIsSealed, Zenon
  <2>3. Without(sealed_event.object, "signature") = Present(d)
    BY <2>1, SealedBytesOf, Zenon
  <2>4. \A k \in Required : k \in DOMAIN o /\ o[k] = d[k]
    BY <2>1, <2>2, DocumentSays
  <2>5. d.authority_domain = request.authority_domain
        /\ d.outcome = request.outcome
    BY Zenon DEF DocumentOf
  <2>6. o.outcome = request.outcome
    BY <2>4, <2>5 DEF Required
  <2>7. request.authority_domain = ExpectedDomain
    <3> DEFINE f == FromWire(o, WireDocument)
    <3>1. IsWire(o, WireDocument)
      BY <2>2, Zenon DEF IsWireDocument
    <3>2. "authority_domain" \in WireDocument.required
      BY DEF WireDocument
    <3>3. f.authority_domain = o.authority_domain
      BY <3>1, <3>2 DEF FromWire, Parse, IsWire, Parses
    <3>4. DOMAIN f = WireDocument.required \cup WireDocument.optional
      BY DEF FromWire, Parse
    <3> HIDE DEF f
    <3>5. \A a, t, c, e :
             [f EXCEPT !.actor = a, !.target = t, !.context = c,
                       !.decision = e].authority_domain = f.authority_domain
      BY <3>2, <3>4
    <3>6. from_slice(o).authority_domain = f.authority_domain
      <4>1. \E a, t, c, e : from_slice(o) = [f EXCEPT !.actor = a, !.target = t,
                                             !.context = c, !.decision = e]
        BY Zenon DEF from_slice, f
      <4> QED
        BY <3>5, <4>1
    <3>7. o.authority_domain = request.authority_domain
      BY <2>4, <2>5 DEF Required
    <3> QED
      BY <2>2, <3>3, <3>6, <3>7
  <2>8. \A k \in {"actor", "target", "context", "decision"} : Says(o, k)
    BY <2>1, <2>2, SaysWhatWasRequested
  <2> QED
    BY <2>2, <2>3, <2>6, <2>7, <2>8, Zenon DEF VerifiedWasSealed
<1> QED
  BY <1>1, SealingIsInvariant, PTL

-----------------------------------------------------------------------------
(* The size of an object counts units: one for each member, and those of   *)
(* its value.  The fold that adds them up takes the members in an order    *)
(* that is not known.                                                      *)
Units(sizes, s) == {p \in s \X Nat : p[2] <= sizes[p[1]]}

LEMMA MemberUnits ==
    ASSUME NEW s, NEW sizes, NEW x, x \notin s, sizes[x] \in Nat,
           IsFiniteSet(Units(sizes, s))
    PROVE  /\ IsFiniteSet(Units(sizes, s \cup {x}))
           /\ Cardinality(Units(sizes, s \cup {x}))
                = 1 + sizes[x] + Cardinality(Units(sizes, s))
<1> DEFINE A == Units(sizes, s)
           B == {x} \X (0..sizes[x])
<1>1. Units(sizes, s \cup {x}) = A \cup B
  BY DEF Units
<1>2. A \cap B = {}
  BY DEF Units
<1>3. IsFiniteSet({x}) /\ Cardinality({x}) = 1
  BY FS_Singleton, Zenon
<1>4. IsFiniteSet(0..sizes[x]) /\ Cardinality(0..sizes[x]) = sizes[x] + 1
  BY FS_Interval
<1>5. IsFiniteSet(B) /\ Cardinality(B) = sizes[x] + 1
  <2>1. IsFiniteSet(B) /\ Cardinality(B) = Cardinality({x}) * Cardinality(0..sizes[x])
    BY <1>3, <1>4, FS_Product, Zenon
  <2> QED
    BY <2>1, <1>3, <1>4
<1>6. IsFiniteSet(A) /\ Cardinality(A) \in Nat
  BY FS_CardinalityType
<1> HIDE DEF A, B
<1>7. IsFiniteSet(A \cup B) /\ Cardinality(A \cup B)
         = Cardinality(A) + Cardinality(B) - Cardinality(A \cap B)
  BY <1>5, <1>6, FS_Union, Zenon
<1>8. Cardinality(A \cup B) = Cardinality(A) + (sizes[x] + 1) - 0
  BY <1>2, <1>5, <1>7, FS_EmptySet, Zenon
<1>9. Cardinality(A \cup B) = 1 + sizes[x] + Cardinality(A)
  BY <1>6, <1>8
<1> QED
  BY <1>1, <1>7, <1>9, Zenon DEF A

LEMMA UnitsAreFinite ==
    ASSUME NEW T, IsFiniteSet(T), NEW sizes, \A k \in T : sizes[k] \in Nat
    PROVE  \A s \in SUBSET T : IsFiniteSet(Units(sizes, s))
<1> DEFINE N == {n \in Nat : \A s \in SUBSET T :
                    Cardinality(s) = n => IsFiniteSet(Units(sizes, s))}
<1>1. 0 \in N
  <2> SUFFICES ASSUME NEW s \in SUBSET T, Cardinality(s) = 0
               PROVE  IsFiniteSet(Units(sizes, s))
    OBVIOUS
  <2>1. s = {}
    BY FS_Subset, FS_EmptySet
  <2>2. Units(sizes, s) = {}
    BY <2>1 DEF Units
  <2> QED
    BY <2>2, FS_EmptySet
<1>2. ASSUME NEW n \in Nat, n \in N
      PROVE  n + 1 \in N
  <2> SUFFICES ASSUME NEW s \in SUBSET T, Cardinality(s) = n + 1
               PROVE  IsFiniteSet(Units(sizes, s))
    OBVIOUS
  <2>1. IsFiniteSet(s)
    BY FS_Subset
  <2>2. PICK x : x \in s
    <3>1. n + 1 # 0
      OBVIOUS
    <3> QED
      BY <2>1, <3>1, FS_EmptySet
  <2>3. Cardinality(s \ {x}) = n /\ s \ {x} \in SUBSET T
    <3>1. Cardinality(s \ {x}) = Cardinality(s) - 1
      BY <2>1, <2>2, FS_RemoveElement, Zenon
    <3> QED
      BY <3>1
  <2>4. IsFiniteSet(Units(sizes, s \ {x}))
    BY <1>2, <2>3
  <2>5. s = (s \ {x}) \cup {x} /\ x \notin s \ {x} /\ sizes[x] \in Nat
    BY <2>2
  <2>6. IsFiniteSet(Units(sizes, (s \ {x}) \cup {x}))
    BY <2>4, <2>5, MemberUnits
  <2> QED
    BY <2>5, <2>6
<1>3. Nat \subseteq N
  <2> HIDE DEF N
  <2> QED
    BY <1>1, <1>2, SetInduction
<1>4. \A s \in SUBSET T : Cardinality(s) \in Nat
  BY FS_Subset, FS_CardinalityType
<1> QED
  BY <1>3, <1>4

(* The fold: a function that the sets of members have in common.           *)
AddsUp(sum, sizes, T) ==
    sum = [s \in SUBSET T |->
              IF s = {} THEN 0
              ELSE LET x == CHOOSE x \in s : TRUE
                   IN  (1 + sizes[x]) + sum[s \ {x}]]

LEMMA SizeIsAFold ==
    ASSUME NEW sizes
    PROVE  ObjectSize(sizes)
             = (CHOOSE sum : AddsUp(sum, sizes, DOMAIN sizes))[DOMAIN sizes]
BY DEF ObjectSize, MapThenSumSet, MapThenFoldSet, AddsUp

LEMMA CountingAddsUp ==
    ASSUME NEW T, IsFiniteSet(T), NEW sizes, \A k \in T : sizes[k] \in Nat
    PROVE  AddsUp([s \in SUBSET T |-> Cardinality(Units(sizes, s))], sizes, T)
<1> DEFINE count == [s \in SUBSET T |-> Cardinality(Units(sizes, s))]
           Body(s) == IF s = {} THEN 0
                      ELSE LET x == CHOOSE x \in s : TRUE
                           IN  (1 + sizes[x]) + count[s \ {x}]
<1>1. ASSUME NEW s \in SUBSET T
      PROVE  Cardinality(Units(sizes, s)) = Body(s)
  <2>1. CASE s = {}
    <3>1. Units(sizes, s) = {}
      BY <2>1 DEF Units
    <3> QED
      BY <2>1, <3>1, FS_EmptySet
  <2>2. CASE s # {}
    <3> DEFINE x == CHOOSE x \in s : TRUE
    <3>1. x \in s
      BY <2>2
    <3> HIDE DEF x
    <3>2. s = (s \ {x}) \cup {x} /\ x \notin s \ {x} /\ sizes[x] \in Nat
          /\ s \ {x} \in SUBSET T
      BY <3>1
    <3>3. IsFiniteSet(Units(sizes, s \ {x}))
      BY <3>2, UnitsAreFinite
    <3>4. Cardinality(Units(sizes, s))
            = (1 + sizes[x]) + Cardinality(Units(sizes, s \ {x}))
      <4>1. Cardinality(Units(sizes, (s \ {x}) \cup {x}))
              = (1 + sizes[x]) + Cardinality(Units(sizes, s \ {x}))
        BY <3>2, <3>3, MemberUnits, Zenon
      <4> QED
        BY <3>2, <4>1
    <3>5. count[s \ {x}] = Cardinality(Units(sizes, s \ {x}))
      BY <3>2
    <3> HIDE DEF count
    <3> QED
      BY <2>2, <3>4, <3>5 DEF x
  <2> QED
    BY <2>1, <2>2
<1>2. count = [s \in SUBSET T |-> Body(s)]
  <2> HIDE DEF Body
  <2> QED
    BY <1>1
<1> QED
  BY <1>2, Zenon DEF AddsUp

LEMMA SumsAgree ==
    ASSUME NEW T, IsFiniteSet(T), NEW sizes, NEW f, NEW g,
           AddsUp(f, sizes, T), AddsUp(g, sizes, T)
    PROVE  f[T] = g[T]
<1> DEFINE N == {n \in Nat : \A s \in SUBSET T :
                    Cardinality(s) = n => f[s] = g[s]}
<1>1. 0 \in N
  <2> SUFFICES ASSUME NEW s \in SUBSET T, Cardinality(s) = 0
               PROVE  f[s] = g[s]
    OBVIOUS
  <2>1. s = {}
    BY FS_Subset, FS_EmptySet
  <2>2. f[s] = 0
    BY <2>1 DEF AddsUp
  <2>3. g[s] = 0
    BY <2>1 DEF AddsUp
  <2> QED
    BY <2>2, <2>3
<1>2. ASSUME NEW n \in Nat, n \in N
      PROVE  n + 1 \in N
  <2> SUFFICES ASSUME NEW s \in SUBSET T, Cardinality(s) = n + 1
               PROVE  f[s] = g[s]
    OBVIOUS
  <2>1. IsFiniteSet(s)
    BY FS_Subset
  <2>2. s # {}
    <3>1. n + 1 # 0
      OBVIOUS
    <3> QED
      BY <2>1, <3>1, FS_EmptySet
  <2> DEFINE x == CHOOSE x \in s : TRUE
  <2>3. x \in s
    BY <2>2
  <2>4. f[s] = (1 + sizes[x]) + f[s \ {x}]
    BY <2>2 DEF AddsUp
  <2>5. g[s] = (1 + sizes[x]) + g[s \ {x}]
    BY <2>2 DEF AddsUp
  <2> HIDE DEF x
  <2>6. Cardinality(s \ {x}) = n /\ s \ {x} \in SUBSET T
    <3>1. Cardinality(s \ {x}) = Cardinality(s) - 1
      BY <2>1, <2>3, FS_RemoveElement, Zenon
    <3> QED
      BY <3>1
  <2>7. f[s \ {x}] = g[s \ {x}]
    BY <1>2, <2>6
  <2> QED
    BY <2>4, <2>5, <2>7
<1>3. Nat \subseteq N
  <2> HIDE DEF N
  <2> QED
    BY <1>1, <1>2, SetInduction
<1> QED
  BY <1>3, FS_CardinalityType

LEMMA SizeCounts ==
    ASSUME NEW sizes, IsFiniteSet(DOMAIN sizes),
           \A k \in DOMAIN sizes : sizes[k] \in Nat
    PROVE  /\ ObjectSize(sizes) = Cardinality(Units(sizes, DOMAIN sizes))
           /\ ObjectSize(sizes) \in Nat
<1> DEFINE T == DOMAIN sizes
           count == [s \in SUBSET T |-> Cardinality(Units(sizes, s))]
           sum == CHOOSE f : AddsUp(f, sizes, T)
<1>1. AddsUp(count, sizes, T)
  BY CountingAddsUp
<1>2. AddsUp(sum, sizes, T)
  BY <1>1
<1>3. count[T] = Cardinality(Units(sizes, T))
  OBVIOUS
<1>4. ObjectSize(sizes) = sum[T]
  BY SizeIsAFold
<1>5. IsFiniteSet(Units(sizes, T))
  BY UnitsAreFinite
<1> HIDE DEF count, sum
<1>6. sum[T] = count[T]
  BY <1>1, <1>2, SumsAgree
<1> QED
  BY <1>3, <1>4, <1>5, <1>6, FS_CardinalityType

(* A member more.                                                          *)
LEMMA SizeWithMember ==
    ASSUME NEW sizes, NEW more, NEW x, x \notin DOMAIN sizes,
           IsFiniteSet(DOMAIN sizes),
           DOMAIN more = DOMAIN sizes \cup {x}, more[x] \in Nat,
           \A k \in DOMAIN sizes : sizes[k] \in Nat /\ more[k] = sizes[k]
    PROVE  ObjectSize(more) = ObjectSize(sizes) + 1 + more[x]
<1> DEFINE T == DOMAIN sizes
<1>1. Units(more, T) = Units(sizes, T)
  BY DEF Units
<1>2. /\ ObjectSize(sizes) = Cardinality(Units(sizes, T))
      /\ ObjectSize(sizes) \in Nat
  BY SizeCounts
<1>3. IsFiniteSet(Units(sizes, T))
  BY UnitsAreFinite
<1>4. Cardinality(Units(more, T \cup {x}))
         = 1 + more[x] + Cardinality(Units(more, T))
  BY <1>1, <1>3, MemberUnits
<1>5. IsFiniteSet(DOMAIN more) /\ \A k \in DOMAIN more : more[k] \in Nat
  BY FS_AddElement
<1>6. ObjectSize(more) = Cardinality(Units(more, DOMAIN more))
  BY <1>5, SizeCounts
<1> HIDE DEF T
<1>7. DOMAIN more = T \cup {x}
  BY DEF T
<1> QED
  BY <1>1, <1>2, <1>4, <1>6, <1>7

LEMMA FewIsFinite ==
    ASSUME NEW a, NEW b, NEW c, NEW d
    PROVE  IsFiniteSet({a, b, c, d})
<1>1. IsFiniteSet({a}) /\ IsFiniteSet({b}) /\ IsFiniteSet({c}) /\ IsFiniteSet({d})
  BY FS_Singleton, Zenon
<1>2. IsFiniteSet({a} \cup {b}) /\ IsFiniteSet({c} \cup {d})
  BY <1>1, FS_Union, Zenon
<1>3. IsFiniteSet(({a} \cup {b}) \cup ({c} \cup {d}))
  BY <1>2, FS_Union, Zenon
<1>4. ({a} \cup {b}) \cup ({c} \cup {d}) = {a, b, c, d}
  OBVIOUS
<1> QED
  BY <1>3, <1>4

LEMMA NamesAreFinite ==
    /\ IsFiniteSet(Required \cup Optional)
    /\ \A wire \in {WireActor, WireTarget, WireContext, WireDecision} :
          IsFiniteSet(wire.required \cup wire.optional)
<1>1. IsFiniteSet(Required \cup Optional)
  <2> DEFINE A == {"schema_version", "event_id", "sequence", "occurred_at"}
             B == {"authority_domain", "event_type", "actor", "outcome"}
             C == {"prev_hash", "target", "context", "decision"}
  <2>1. IsFiniteSet(A) /\ IsFiniteSet(B) /\ IsFiniteSet(C)
    BY FewIsFinite, Zenon
  <2>2. Required \cup Optional = (A \cup B) \cup C
    BY DEF Required, Optional
  <2> HIDE DEF A, B, C
  <2>3. IsFiniteSet(A \cup B)
    BY <2>1, FS_Union, Zenon
  <2> QED
    BY <2>1, <2>2, <2>3, FS_Union, Zenon
<1> DEFINE D == {"request_id", "decision_hash", "policy_version", "reasons"}
           E == {"granted_ttl_seconds", "decision_signature",
                 "decision_signature_key_id", "decision_signature_key_id"}
           F == {"subject_id", "kind", "aal", "auth_method"}
           G == {"type", "id", "type", "id"}
           H == {"source_network", "ticket_ref", "justification", "justification"}
<1>2. /\ IsFiniteSet(D) /\ IsFiniteSet(E) /\ IsFiniteSet(F) /\ IsFiniteSet(G)
      /\ IsFiniteSet(H)
  BY FewIsFinite, Zenon
<1>3. /\ WireActor.required \cup WireActor.optional = F
      /\ WireTarget.required \cup WireTarget.optional = G
      /\ WireContext.required \cup WireContext.optional = H
      /\ WireDecision.required \cup WireDecision.optional = D \cup E
  BY DEF WireActor, WireTarget, WireContext, WireDecision
<1> HIDE DEF D, E, F, G, H
<1>4. IsFiniteSet(D \cup E)
  BY <1>2, FS_Union, Zenon
<1> QED
  BY <1>1, <1>2, <1>3, <1>4, Zenon

LEMMA InnerSizes ==
    ASSUME NEW wire \in {WireActor, WireTarget, WireContext, WireDecision},
           NEW s, IsStruct(s, wire),
           \A m \in DOMAIN Present(s) : InnerSize(m, s[m]) \in Nat
    PROVE  InnerObjectSize(Present(s)) \in Nat
<1> DEFINE o == Present(s)
           z == [k \in DOMAIN o |-> InnerSize(k, o[k])]
<1>1. /\ DOMAIN o \subseteq wire.required \cup wire.optional
      /\ \A m \in DOMAIN o : o[m] = s[m]
  BY WrittenAndRead
<1>2. IsFiniteSet(DOMAIN o)
  BY <1>1, NamesAreFinite, FS_Subset
<1> HIDE DEF o
<1>3. DOMAIN z = DOMAIN o /\ \A k \in DOMAIN z : z[k] \in Nat
  BY <1>1 DEF o
<1>4. InnerObjectSize(o) = ObjectSize(z)
  BY Zenon DEF InnerObjectSize
<1> HIDE DEF z
<1>5. ObjectSize(z) \in Nat
  BY <1>2, <1>3, SizeCounts
<1> QED
  BY <1>4, <1>5 DEF o

LEMMA UnitSizes ==
    ASSUME NEW k, NEW v, k \notin {"reasons", "decision_signature", "components"}
    PROVE  InnerSize(k, v) = 1
BY DEF InnerSize

LEMMA MemberSizes ==
    ASSUME NEW r \in SealRequests, RequestIsValid(r),
           NEW k \in DOMAIN Present(DocumentOf(r))
    PROVE  MemberSize(k, Present(DocumentOf(r))[k]) \in Nat
<1> DEFINE d == DocumentOf(r)
           u == Present(d)
           g == SignatureUnder(SealerKey, u)
<1>1. r \in SealRequest /\ g # Null
  BY SealedBytesOf, SignatureIsApart, Zenon
<1>2. k \in Required \cup Optional /\ d[k] # None /\ u[k] = d[k]
  <2>1. /\ DOMAIN u \subseteq Required \cup Optional
        /\ \A n \in Required \cup Optional :
              /\ n \in DOMAIN u <=> d[n] # None
              /\ n \in DOMAIN u => u[n] = d[n]
    BY <1>1, MembersAreRead
  <2>2. k \in DOMAIN u
    OBVIOUS
  <2> HIDE DEF u, d
  <2> QED
    BY <2>1, <2>2, Zenon
<1>3. d[k] # Null /\ k # "signature"
  <2>1. \A n \in Required \cup Optional : d[n] # Null \/ d[n] = None
    BY <1>1, DocumentMembers
  <2>2. k # "signature"
    BY <1>2 DEF Required, Optional
  <2> QED
    BY <1>2, <2>1, <2>2
<1>4. /\ d.actor = Present(r.actor) /\ d.target = r.target
      /\ d.context = Map(r.context, Present)
      /\ d.decision = Map(r.decision, decision_value)
  BY Zenon DEF DocumentOf
<1>5. /\ r.actor \in ActorMessage
      /\ r.target # None => r.target \in TargetMessage /\ Present(r.target) = r.target
      /\ r.context # None => r.context \in ContextMessage
      /\ r.decision # None => r.decision \in DecisionMessage
  BY <1>1, MessagesAreWritten
<1> SUFFICES MemberSize(k, d[k]) \in Nat
  BY <1>2, Zenon
<1> HIDE DEF d, u, g
<1>6. ASSUME NEW s, NEW wire \in {WireActor, WireTarget, WireContext},
             IsStruct(s, wire)
      PROVE  InnerObjectSize(Present(s)) \in Nat
  <2>1. DOMAIN Present(s) \subseteq wire.required \cup wire.optional
    BY <1>6, WrittenAndRead
  <2>2. {"reasons", "decision_signature", "components"}
          \cap (wire.required \cup wire.optional) = {}
    BY DEF WireActor, WireTarget, WireContext
  <2>3. \A m \in DOMAIN Present(s) : InnerSize(m, s[m]) = 1
    BY <2>1, <2>2, UnitSizes
  <2>4. \A m \in DOMAIN Present(s) : InnerSize(m, s[m]) \in Nat
    BY <2>3
  <2> QED
    BY <1>6, <2>4, InnerSizes
<1>7. CASE k = "actor"
  <2>1. InnerObjectSize(Present(r.actor)) \in Nat
    BY <1>5, <1>6, ActorStruct
  <2> QED
    BY <1>3, <1>4, <1>7, <2>1 DEF MemberSize
<1>8. CASE k = "target"
  <2>1. r.target # None
    BY <1>2, <1>4, <1>8
  <2>2. InnerObjectSize(Present(r.target)) \in Nat
    BY <1>5, <1>6, <2>1, TargetStruct
  <2> QED
    BY <1>3, <1>4, <1>5, <1>8, <2>1, <2>2 DEF MemberSize
<1>9. CASE k = "context"
  <2>1. r.context # None /\ d.context = Present(r.context)
    BY <1>2, <1>4, <1>9 DEF Map
  <2>2. InnerObjectSize(Present(r.context)) \in Nat
    BY <1>5, <1>6, <2>1, ContextStruct
  <2> QED
    BY <1>3, <1>9, <2>1, <2>2 DEF MemberSize
<1>10. CASE k = "decision"
  <2>1. r.decision # None /\ d.decision = decision_value(r.decision)
    BY <1>2, <1>4, <1>10 DEF Map
  <2> DEFINE q == r.decision
             h == HexDecision(q)
  <2>2. q \in DecisionMessage
    BY <1>5, <2>1
  <2>3. /\ IsStruct(h, WireDecision) /\ decision_value(q) = Present(h)
        /\ h.decision_signature = Map(q.decision_signature, hex_encode)
        /\ h.reasons = q.reasons
    BY <2>2, DecisionStruct, Zenon
  <2>4. /\ q.reasons \in Seq(STRING)
        /\ q.decision_signature # None => q.decision_signature \in Bytes
    BY <2>2 DEF DecisionMessage, Option
  <2> HIDE DEF q, h
  <2>5. /\ DOMAIN Present(h) \subseteq WireDecision.required \cup WireDecision.optional
        /\ \A m \in DOMAIN Present(h) : h[m] # None /\ h[m] \in Scalar
    BY <2>3, WrittenAndRead
  <2>6. Null \notin Scalar
    BY AbsenceAssumption DEF NullIsApart
  <2>7. ASSUME NEW m \in DOMAIN Present(h) PROVE InnerSize(m, h[m]) \in Nat
    <3>1. h[m] # Null
      BY <2>5, <2>6
    <3>2. CASE m = "reasons"
      <4>1. InnerSize(m, h[m]) = Len(q.reasons)
        BY <2>3, <3>1, <3>2, Zenon DEF InnerSize
      <4> QED
        BY <2>4, <4>1
    <3>3. CASE m = "decision_signature"
      <4> DEFINE b == q.decision_signature
      <4>1. b # None
        BY <2>3, <2>5, <3>3 DEF Map
      <4>2. h[m] = hex_encode(b) /\ b \in Bytes
        BY <2>3, <2>4, <3>3, <4>1 DEF Map
      <4> HIDE DEF b
      <4>3. h[m].bytes = b
        BY <4>2 DEF hex_encode
      <4>4. InnerSize(m, h[m]) = 2 * b.length
        BY <3>1, <3>3, <4>3 DEF InnerSize
      <4>5. b.length \in Nat
        BY <4>2, RequestsAssumption
      <4> QED
        BY <4>4, <4>5
    <3>4. CASE m \notin {"reasons", "decision_signature"}
      <4>1. m # "components"
        BY <2>5 DEF WireDecision
      <4>2. InnerSize(m, h[m]) = 1
        BY <3>4, <4>1, UnitSizes
      <4> QED
        BY <4>2
    <3> QED
      BY <3>2, <3>3, <3>4
  <2>8. InnerObjectSize(Present(h)) \in Nat
    BY <2>3, <2>7, InnerSizes
  <2> QED
    BY <1>3, <1>10, <2>1, <2>3, <2>8 DEF MemberSize, q
<1>11. CASE k \notin {"actor", "target", "context", "decision"}
  BY <1>3, <1>11 DEF MemberSize
<1> QED
  BY <1>7, <1>8, <1>9, <1>10, <1>11

(* The room that seal leaves for the signature is the room it takes.       *)
LEMMA SignatureSize ==
    ASSUME NEW r \in SealRequests, RequestIsValid(r)
    PROVE  LET g == SignatureUnder(SealerKey, Present(DocumentOf(r)))
           IN /\ MemberSize("signature", g) \in Nat
              /\ signature_overhead_bytes(key_id_from_public_key(SealerKey))
                   = 1 + MemberSize("signature", g)
<1> DEFINE u == Present(DocumentOf(r))
           g == SignatureUnder(SealerKey, u)
           c == Component(key_id_from_public_key(SealerKey), [length |-> 64])
           t == SignatureOf(<<c>>)
           names == {"suite", "components"}
           z == [k \in names |-> IF k = "suite" THEN 1 ELSE 3]
<1>1. g # Null
  BY SignatureIsApart
<1>2. g.components # Null
  <2>1. r \in {q \in SealRequests : RequestIsValid(q)}
    OBVIOUS
  <2>2. unsigned_document(fields_from_request(r)) = u
    BY RequestsAssumption, SealedAsRequested
  <2> QED
    BY <2>1, <2>2, AbsenceAssumption, Zenon DEF NullIsApart
<1>3. <<c>> # Null
  BY AbsenceAssumption, Zenon DEF NullIsApart
<1>4. DOMAIN g = names /\ Len(g.components) = 1
  BY SignatureMembers
<1>5. DOMAIN t = names /\ t.components = <<c>> /\ Len(<<c>>) = 1
  <2> HIDE DEF c
  <2> QED
    BY DEF SignatureOf
<1> HIDE DEF u, g, c, t
<1>6. ASSUME NEW s, DOMAIN s = names, s.components # Null,
             Len(s.components) = 1
      PROVE  InnerObjectSize(s) = ObjectSize(z)
  <2>1. InnerSize("suite", s.suite) = 1
    BY UnitSizes
  <2>2. InnerSize("components", s.components) = 3
    BY <1>6 DEF InnerSize
  <2>3. \A k \in names : InnerSize(k, s[k]) = z[k]
    BY <2>1, <2>2
  <2>4. [k \in DOMAIN s |-> InnerSize(k, s[k])] = z
    BY <1>6, <2>3
  <2> HIDE DEF z
  <2> QED
    BY <2>4, Zenon DEF InnerObjectSize
<1>7. ObjectSize(z) \in Nat
  <2>1. IsFiniteSet({"suite", "components", "suite", "components"})
    BY FewIsFinite, Zenon
  <2>2. names = {"suite", "components", "suite", "components"}
    OBVIOUS
  <2>3. DOMAIN z = names /\ \A k \in DOMAIN z : z[k] \in Nat
    OBVIOUS
  <2> HIDE DEF z, names
  <2>4. IsFiniteSet(DOMAIN z)
    BY <2>1, <2>2, <2>3
  <2> QED
    BY <2>3, <2>4, SizeCounts
<1> HIDE DEF z
<1>8. InnerObjectSize(g) = ObjectSize(z) /\ InnerObjectSize(t) = ObjectSize(z)
  BY <1>2, <1>3, <1>4, <1>5, <1>6
<1>9. MemberSize("signature", g) = InnerObjectSize(g)
  BY <1>1 DEF MemberSize
<1>10. signature_overhead_bytes(key_id_from_public_key(SealerKey))
         = 1 + InnerObjectSize(t)
  BY Zenon DEF signature_overhead_bytes, t, c
<1> QED
  BY <1>7, <1>8, <1>9, <1>10 DEF g, u

LEMMA SealedFits ==
    ASSUME NEW r \in SealRequests, RequestIsValid(r),
           SizeIsValid(Present(DocumentOf(r)), key_id_from_public_key(SealerKey))
    PROVE  LET u == Present(DocumentOf(r))
               o == Signed(u, SignatureUnder(SealerKey, u))
           IN DocumentSize(o) \in Nat /\ DocumentSize(o) <= MAX_BYTES
<1> DEFINE u == Present(DocumentOf(r))
           g == SignatureUnder(SealerKey, u)
           o == Signed(u, g)
           sizes == [k \in DOMAIN u |-> MemberSize(k, u[k])]
           more == [k \in DOMAIN o |-> MemberSize(k, o[k])]
<1>1. "signature" \notin DOMAIN u /\ r \in SealRequest /\ g # Null
  BY SealedBytesOf, SignatureIsApart, Zenon
<1>2. IsFiniteSet(DOMAIN u)
  <2>1. DOMAIN u \subseteq Required \cup Optional
    BY <1>1, MembersAreRead
  <2> QED
    BY <2>1, NamesAreFinite, FS_Subset, Zenon
<1>3. \A k \in DOMAIN u : MemberSize(k, u[k]) \in Nat
  BY MemberSizes
<1>4. /\ MemberSize("signature", g) \in Nat
      /\ signature_overhead_bytes(key_id_from_public_key(SealerKey))
           = 1 + MemberSize("signature", g)
  BY SignatureSize
<1> HIDE DEF u, g
<1>5. /\ DOMAIN o = DOMAIN u \cup {"signature"} /\ o["signature"] = g
      /\ \A k \in DOMAIN u : o[k] = u[k]
  BY <1>1 DEF Signed
<1> HIDE DEF o
<1>6. /\ DOMAIN sizes = DOMAIN u /\ DOMAIN more = DOMAIN u \cup {"signature"}
      /\ more["signature"] = MemberSize("signature", g)
      /\ \A k \in DOMAIN u : sizes[k] \in Nat /\ more[k] = sizes[k]
  BY <1>3, <1>5
<1>7. DocumentSize(u) = ObjectSize(sizes) /\ DocumentSize(o) = ObjectSize(more)
  BY Zenon DEF DocumentSize
<1> HIDE DEF sizes, more
<1>8. ObjectSize(more) = ObjectSize(sizes) + 1 + more["signature"]
  BY <1>1, <1>2, <1>4, <1>6, SizeWithMember
<1>9. ObjectSize(sizes) \in Nat
  BY <1>2, <1>6, SizeCounts
<1>10. DocumentSize(u) + (1 + MemberSize("signature", g)) <= MAX_BYTES
  BY <1>4 DEF SizeIsValid, u
<1>11. DocumentSize(o) \in Nat /\ DocumentSize(o) <= MAX_BYTES
  BY <1>4, <1>6, <1>7, <1>8, <1>9, <1>10, SealAssumption
<1> QED
  BY <1>11 DEF o, g, u

-----------------------------------------------------------------------------
(* The auditor has the key, and the signature is under it.                 *)
LEMMA SignatureIsAccepted ==
    ASSUME NEW u
    PROVE  CheckSignatures(KeyRing, SignatureUnder(SealerKey, u).components,
                           signed_message(domain_prefix_for(SUITE_V1), u)) = "Ok"
<1> DEFINE cs == SignatureUnder(SealerKey, u).components
           m == signed_message(DOMAIN_PREFIX_V1, u)
           key == [key_id |-> key_id_from_public_key(SealerKey),
                   raw |-> SealerKey]
<1>1. PICK p \in PublishedKeys :
         /\ p.suite = SUITE_V1 /\ p.key_id = key_id_from_public_key(SealerKey)
         /\ p.sec1.length = 65 /\ p.sec1.first = 4 /\ p.sec1.point = SealerKey
  BY RequestsAssumption, Zenon
<1>2. accept_verifying_key(p.suite, SUITE_V1, p.key_id, p.sec1) = key
  BY <1>1, Zenon DEF accept_verifying_key
<1>3. /\ "error" \notin DOMAIN key /\ key.raw = SealerKey
      /\ key.key_id = key_id_from_public_key(SealerKey)
  OBVIOUS
<1> HIDE DEF key
<1>4. key \in KeyRing
  BY <1>2, <1>3, Zenon DEF KeyRing
<1>5. /\ DOMAIN cs = {1}
      /\ cs[1].key_id = key_id_from_public_key(SealerKey)
      /\ hex_decode(cs[1].value) = Signature(SealerKey, m)
  BY SignatureMembers
<1> HIDE DEF cs, m
<1>6. key \in KeysOf(KeyRing, cs[1])
  BY <1>3, <1>4, <1>5 DEF KeysOf
<1>7. ComponentIsValid(KeyRing, cs[1], m)
  BY <1>3, <1>5, <1>6, Zenon DEF ComponentIsValid
<1>8. KeysOf(KeyRing, cs[1]) # {}
  BY <1>6
<1>9. CheckSignatures(KeyRing, cs, m) = "Ok"
  BY <1>5, <1>7, <1>8 DEF CheckSignatures
<1>10. domain_prefix_for(SUITE_V1) = DOMAIN_PREFIX_V1
  BY DEF domain_prefix_for
<1> QED
  BY <1>9, <1>10 DEF cs, m

LEMMA SealedIsAccepted ==
    ASSUME NEW r \in SealRequests, RequestIsValid(r),
           ~SealIsRefused(fields_from_request(r), SealerKey),
           r.authority_domain = ExpectedDomain
    PROVE  verify(KeyRing, SealedEvent(fields_from_request(r), SealerKey),
                  Policy) = "Ok"
<1> DEFINE f == fields_from_request(r)
           d == DocumentOf(r)
           u == Present(d)
           g == SignatureUnder(SealerKey, u)
           b == SealedEvent(f, SealerKey)
           o == Signed(u, g)
           w == from_slice(o)
<1>1. /\ r \in SealRequest /\ b = canonical_bytes(o) /\ b.object = o
  BY SealedBytesOf, Zenon
<1>2. /\ g # Null /\ IsWire(g, WireSignature)
      /\ IsWire(g.components[1], WireComponent)
  BY SignatureIsApart, Zenon
<1>3. /\ \A k \in Required \ {"actor"} : w[k] = d[k]
      /\ w.actor = r.actor /\ w.decision = Map(r.decision, HexDecision)
      /\ w.signature = g
  BY <1>1, <1>2, DocumentIsRead
<1>4. /\ w.schema_version = 1 /\ w.event_type = r.event_type
      /\ w.outcome = r.outcome /\ w.authority_domain = r.authority_domain
      /\ w.prev_hash = hex_encode(r.prev_hash)
  <2>1. /\ d.schema_version = 1 /\ d.event_type = r.event_type
        /\ d.outcome = r.outcome /\ d.authority_domain = r.authority_domain
        /\ d.prev_hash = hex_encode(r.prev_hash)
    BY Zenon DEF DocumentOf
  <2> HIDE DEF d, w
  <2> QED
    BY <1>3, <2>1 DEF Required
<1>5. /\ g.suite = SUITE_V1 /\ Len(g.components) = 1
      /\ DOMAIN g.components = {1}
      /\ g.components[1].component = Components[1]
  BY SignatureMembers, Zenon
<1>6. unsigned_document_from_wire(w) = u
  BY <1>1, <1>2, UnsignedIsRead
<1>7. DocumentSize(o) \in Nat /\ DocumentSize(o) <= MAX_BYTES
  <2>1. unsigned_document(f) = u
    BY <1>1, SealedAsRequested
  <2>2. SizeIsValid(u, key_id_from_public_key(SealerKey))
    BY <2>1, Zenon DEF SealIsRefused
  <2> QED
    BY <2>2, SealedFits
<1>8. IsWireDocument(o)
  <2> DEFINE x == FromWire(o, WireDocument)
  <2>1. /\ IsWire(o, WireDocument)
        /\ x = [k \in Required \cup Optional \cup {"signature"} |->
                  IF k = "signature" THEN g ELSE d[k]]
    BY <1>1, <1>2, MembersAreRead
  <2>2. /\ d.actor = Present(r.actor) /\ d.target = r.target
        /\ d.context = Map(r.context, Present)
        /\ d.decision = Map(r.decision, decision_value)
    BY Zenon DEF DocumentOf
  <2> HIDE DEF d, g, x, o
  <2>3. /\ x.signature = g /\ x.actor = d.actor /\ x.target = d.target
        /\ x.context = d.context /\ x.decision = d.decision
    BY <2>1, Zenon DEF Required, Optional
  <2>4. IsWire(x.actor, WireActor)
    BY <1>1, <2>2, <2>3, MessagesAreWritten, Zenon
  <2>5. x.target # None => IsWire(x.target, WireTarget)
    BY <1>1, <2>2, <2>3, MessagesAreWritten, Zenon
  <2>6. x.context # None => IsWire(x.context, WireContext)
    BY <1>1, <2>2, <2>3, MessagesAreWritten, Zenon DEF Map
  <2>7. x.decision # None => IsWire(x.decision, WireDecision)
    BY <1>1, <2>2, <2>3, MessagesAreWritten, Zenon DEF Map
  <2>8. /\ IsWire(x.signature, WireSignature)
        /\ \A i \in DOMAIN x.signature.components :
              IsWire(x.signature.components[i], WireComponent)
    BY <1>2, <1>5, <2>3
  <2> QED
    BY <2>1, <2>4, <2>5, <2>6, <2>7, <2>8, Zenon DEF IsWireDocument, x
<1>9. ASSUME NEW x \in Bytes PROVE hex_decode(hex_encode(x)) = x
  BY DEF hex_decode, hex_encode
<1>10. ContentIsValid(w)
  <2>1. /\ f.event_type = from_contract_str(EventType, r.event_type)
        /\ f.decision = r.decision
    BY <1>1 DEF fields_from_request, SealRequest
  <2>2. /\ requires_decision(f.event_type) <=> f.decision # None
        /\ f.decision # None => Len(f.decision.reasons) <= MAX_REASONS
    BY Zenon DEF SealIsRefused, validate_decision_coupling
  <2>3. /\ from_contract_str(EventType, r.event_type) # None
        /\ from_contract_str(Outcome, r.outcome) # None
        /\ ActorIsValid(r.actor)
        /\ r.decision # None => DecisionIsValid(r.decision)
    BY Zenon DEF RequestIsValid
  <2>4. from_contract_str(ActorKind, r.actor.kind) # None
    BY <2>3, Zenon DEF ActorIsValid
  <2> HIDE DEF w, f
  <2>5. ASSUME r.decision # None
        PROVE  /\ w.decision # None /\ w.decision.reasons = r.decision.reasons
               /\ Is32(hex_decode(w.decision.decision_hash))
    <3> DEFINE q == r.decision
               h == HexDecision(q)
    <3>1. q \in DecisionMessage /\ h # None
      BY <1>1, <2>5, MessagesAreWritten, Zenon
    <3>2. /\ h.decision_hash = hex_encode(q.decision_hash)
          /\ h.reasons = q.reasons
      BY <3>1, DecisionStruct, Zenon
    <3>3. w.decision = h
      BY <1>3, <2>5, Zenon DEF Map
    <3>4. q.decision_hash \in Bytes
      BY <3>1 DEF DecisionMessage
    <3>5. Is32(q.decision_hash)
      BY <2>3, <2>5, Zenon DEF DecisionIsValid
    <3> HIDE DEF q, h
    <3>6. hex_decode(h.decision_hash) = q.decision_hash
      BY <1>9, <3>2, <3>4
    <3> QED
      BY <3>1, <3>2, <3>3, <3>5, <3>6, Zenon DEF q
  <2>6. w.decision # None <=> r.decision # None
    BY <1>3, <2>5, Zenon DEF Map
  <2>7. /\ requires_decision(from_contract_str(EventType, w.event_type))
             <=> w.decision # None
        /\ w.decision # None =>
              /\ Len(w.decision.reasons) <= MAX_REASONS
              /\ Is32(hex_decode(w.decision.decision_hash))
    BY <1>4, <2>1, <2>2, <2>5, <2>6, Zenon
  <2>8. /\ from_contract_str(EventType, w.event_type) # None
        /\ from_contract_str(ActorKind, w.actor.kind) # None
        /\ from_contract_str(Outcome, w.outcome) # None
    BY <1>3, <1>4, <2>3, <2>4, Zenon
  <2> QED
    BY <2>7, <2>8, Zenon DEF ContentIsValid
<1>11. /\ required_components(g.suite) = Components
       /\ Components # None /\ ArityIsRight(g.components, Components)
  <2>1. required_components(g.suite) = Components
    BY <1>5 DEF required_components
  <2>2. Components # None
    BY AbsenceAssumption, Zenon DEF NoneIsApart
  <2>3. Len(Components) = 1
    BY Zenon DEF Components
  <2>4. ArityIsRight(g.components, Components)
    BY <1>5, <2>3 DEF ArityIsRight
  <2> QED
    BY <2>1, <2>2, <2>4, Zenon
<1>12. CheckSignatures(KeyRing, g.components,
                       signed_message(domain_prefix_for(g.suite), u)) = "Ok"
  BY <1>5, SignatureIsAccepted, Zenon
<1>13. g.suite \in Policy.accepted_suites
       /\ Policy.expected_authority_domain = ExpectedDomain
  BY <1>5 DEF Policy
<1>14. Is32(hex_decode(w.prev_hash))
  <2>1. r.prev_hash \in Bytes /\ Is32(r.prev_hash)
    BY <1>1 DEF SealRequest, RequestIsValid
  <2> HIDE DEF w
  <2> QED
    BY <1>4, <1>9, <2>1
<1>15. ~(DocumentSize(o) > MAX_BYTES)
  <2> HIDE DEF o
  <2> QED
    BY <1>7, SealAssumption
<1> HIDE DEF w, o, g, u, d, f, b
<1>16. verify(KeyRing, b, Policy) = "Ok"
  <2>1. from_slice(b.object) = w
    BY <1>1 DEF w
  <2>2. canonical_bytes(Signed(unsigned_document_from_wire(w), w.signature)) = b
    BY <1>1, <1>3, <1>6 DEF o
  <2>3. EveryCheck(KeyRing, b, Policy, w)
    BY <1>1, <1>3, <1>4, <1>6, <1>8, <1>10, <1>11, <1>12, <1>13, <1>14, <1>15,
       <2>2, Zenon DEF EveryCheck
  <2> QED
    BY <2>1, <2>3, OkIsEveryCheck, Zenon
<1> QED
  BY <1>16 DEF b, f

(* Whatever audit-sealer seals, of any size and with any optional members, *)
(* the auditor accepts, and reads back what was requested: the bound that  *)
(* seal checks before it signs is, to the byte, the one that verify checks *)
(* of what was signed (audit_seal.rs:45-48, 745-748, 814-821).             *)
THEOREM SealedIsAlwaysVerifiable == AuditorSpec => []SealedIsVerifiable
<1>1. SealingInv => SealedIsVerifiable
  <2> SUFFICES ASSUME SealingInv, sealed_event # None, received = sealed_event,
                      request.authority_domain = ExpectedDomain
               PROVE  SealedIsVerifiable
    BY DEF SealedIsVerifiable
  <2> DEFINE d == DocumentOf(request)
             u == Present(d)
             g == SignatureUnder(SealerKey, u)
             w == from_slice(Signed(u, g))
             v == VerifiedAuditEvent(received)
             t == request.event_type
  <2>1. /\ request \in SealRequests /\ RequestIsValid(request)
        /\ ~SealIsRefused(fields_from_request(request), SealerKey)
        /\ received = SealedEvent(fields_from_request(request), SealerKey)
        /\ verdict = verify(KeyRing, received, Policy)
    BY Zenon DEF SealingInv
  <2>2. verdict = "Ok"
    BY <2>1, SealedIsAccepted, Zenon
  <2>3. request \in SealRequest /\ received.object = Signed(u, g) /\ g # Null
    BY <2>1, SealedBytesOf, SignatureIsApart, Zenon
  <2>4. /\ v.event_id = w.event_id /\ v.sequence = w.sequence
        /\ v.prev_hash = hex_decode(w.prev_hash)
        /\ v.occurred_at = w.occurred_at
        /\ v.event_type = from_contract_str(EventType, w.event_type)
    BY <2>3, Zenon DEF VerifiedAuditEvent
  <2>5. \A k \in Required \ {"actor"} : w[k] = d[k]
    <3> HIDE DEF d, u, g, v, t
    <3>1. u = Present(DocumentOf(request)) /\ d = DocumentOf(request)
      BY Zenon DEF d, u
    <3>2. \A k \in Required \ {"actor"} :
             from_slice(Signed(Present(DocumentOf(request)), g))[k]
               = DocumentOf(request)[k]
      <4>1. RequestIsValid(request) /\ request \in SealRequest /\ g # Null
        BY <2>1, <2>3, Zenon
      <4> QED
        BY <4>1, MembersAsWritten, Zenon
    <3> QED
      BY <3>1, <3>2, Zenon
  <2>6. /\ d.event_id = request.event_id /\ d.sequence = request.sequence
        /\ d.prev_hash = hex_encode(request.prev_hash)
        /\ d.occurred_at = rfc3339_from_seconds(request.occurred_at)
        /\ d.event_type = t
    BY Zenon DEF DocumentOf
  <2>7. /\ request.occurred_at \in Instant
        /\ from_contract_str(EventType, t) # None
    BY <2>1, <2>3 DEF RequestIsValid, SealRequest, Option
  <2> HIDE DEF d, w, v, t
  <2>8. /\ w.event_id = d.event_id /\ w.sequence = d.sequence
        /\ w.prev_hash = d.prev_hash /\ w.occurred_at = d.occurred_at
        /\ w.event_type = d.event_type
    BY <2>5 DEF Required
  <2>9. hex_decode(hex_encode(request.prev_hash)) = request.prev_hash
    BY Zenon DEF hex_decode, hex_encode
  <2>10. request_time_from_rfc3339(v.occurred_at) = request.occurred_at
    BY <2>4, <2>6, <2>7, <2>8, TextsReadBack, Zenon
  <2>11. EventType[v.event_type] = t
    <3>1. as_contract_str(EventType, from_contract_str(EventType, t)) = t
      BY <2>7, ContractNames
    <3> QED
      BY <2>4, <2>6, <2>8, <3>1, Zenon DEF as_contract_str
  <2> QED
    BY <2>2, <2>4, <2>6, <2>8, <2>9, <2>10, <2>11, Zenon
       DEF SealedIsVerifiable, v, t
<1> QED
  BY <1>1, SealingIsInvariant, PTL
=============================================================================
