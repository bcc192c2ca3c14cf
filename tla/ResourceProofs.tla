--------------------------- MODULE ResourceProofs ---------------------------
(***************************************************************************)
(* Proofs about the two components that share something scarce between     *)
(* those who wait for it:                                                  *)
(*                                                                         *)
(*  - HsmPool, the sessions of a token, for any number of threads and any  *)
(*    size of pool: a session is in one place, the pool never outgrows     *)
(*    pool_size, no free session is forgotten by the threads that sleep,   *)
(*    and a call signs at most once;                                       *)
(*  - AdminQuorum, the time of a request, for any subjects, any number of  *)
(*    assertions and any budgets: the answer counts independent bearers    *)
(*    only, the events agree with it, and the budgets are kept.            *)
(***************************************************************************)
EXTENDS HsmPool, AdminQuorum, FiniteSetTheorems, SequenceTheorems, TLAPS

Using == {"find_key", "use"}
PC == {"idle", "acquire", "wait", "notify", "reopen"} \cup Using

Reopening == {t \in Threads : pc[t] = "reopen"}
Active == {t \in Threads : pc[t] \in {"acquire", "notify"}}

Typed ==
    /\ sessions \in Seq(Nat)
    /\ pc \in [Threads -> PC]
    /\ op \in [Threads -> {"sign_digest", "public_key"}]
    /\ session \in [Threads -> Nat]
    /\ reply \in [Threads -> {"none", "ok", "error", "PoolExhausted"}]
    /\ opened \in Nat
    /\ closed \subseteq 1..opened
    /\ signatures \in [Threads -> Nat]

(* A thread holds a session exactly while it uses it.                      *)
HoldsWhileUsing == \A t \in Threads : session[t] # 0 <=> pc[t] \in Using

(* A session is in one place.                                              *)
OnePlace ==
    /\ \A i, j \in DOMAIN sessions : sessions[i] = sessions[j] => i = j
    /\ \A t, u \in Threads : session[t] = session[u] /\ t # u => session[t] = 0
    /\ InPool \cap Held = {}
    /\ (1..opened) \ closed = InPool \cup Held

(* A session that is being replaced still counts.                          *)
WithinCapacity ==
    /\ IsFiniteSet(Held)
    /\ IsFiniteSet(Reopening)
    /\ Len(sessions) + Cardinality(Held) + Cardinality(Reopening) <= PoolSize

NothingForgotten ==
    /\ IsFiniteSet(Active)
    /\ Waiting = {} \/ Cardinality(Active) >= Len(sessions)

(* Until the operation there is no signature and no result.                *)
SignsOnce ==
    \A t \in Threads :
        /\ pc[t] \in {"acquire", "wait"} \cup Using =>
              signatures[t] = 0 /\ reply[t] = "none"
        /\ signatures[t] <= 1
        /\ op[t] = "sign_digest" /\ reply[t] = "ok" => signatures[t] = 1

(* The inductive invariant.                                                *)
IInv ==
    /\ Typed
    /\ HoldsWhileUsing
    /\ OnePlace
    /\ WithinCapacity
    /\ NothingForgotten
    /\ SignsOnce

-----------------------------------------------------------------------------
LEMMA InitIInv == Init => IInv
<1> SUFFICES ASSUME Init PROVE IInv
  OBVIOUS
<1> USE PoolAssumption DEF Init
<1>1. /\ sessions \in Seq(Nat) /\ Len(sessions) = PoolSize
      /\ DOMAIN sessions = 1..PoolSize
      /\ \A i \in 1..PoolSize : sessions[i] = i
  OBVIOUS
<1>2. Typed
  BY <1>1 DEF Typed, PC, Using
<1>3. HoldsWhileUsing
  BY DEF HoldsWhileUsing, Using
<1>4. Held = {} /\ InPool = 1..PoolSize
  BY <1>1 DEF Held, InPool
<1>5. OnePlace
  BY <1>1, <1>4 DEF OnePlace
<1>6. Reopening = {} /\ Active = {} /\ Waiting = {}
  BY DEF Reopening, Active, Waiting
<1>7. WithinCapacity /\ NothingForgotten
  BY <1>1, <1>4, <1>6, FS_EmptySet DEF WithinCapacity, NothingForgotten
<1>8. SignsOnce
  BY DEF SignsOnce, Using
<1> QED
  BY <1>2, <1>3, <1>5, <1>7, <1>8 DEF IInv

-----------------------------------------------------------------------------
(* What a step can do to the sessions: nothing, take one, give one back,   *)
(* drop one, open one.                                                     *)
Keeps ==
    /\ UNCHANGED <<sessions, session, opened, closed>>
    /\ \A t \in Threads : pc'[t] \in Using <=> pc[t] \in Using
    /\ \A t \in Threads : pc'[t] = "reopen" => pc[t] = "reopen"

TakesSession(t) ==
    /\ pc[t] = "acquire"
    /\ sessions # <<>>
    /\ session' = [session EXCEPT ![t] = Head(sessions)]
    /\ sessions' = Tail(sessions)
    /\ pc' = [pc EXCEPT ![t] = "find_key"]
    /\ UNCHANGED <<opened, closed>>

Gives(t) ==
    /\ pc[t] \in Using
    /\ session' = [session EXCEPT ![t] = 0]
    /\ sessions' = Append(sessions, session[t])
    /\ pc' = [pc EXCEPT ![t] = "notify"]
    /\ UNCHANGED <<opened, closed>>

Drops(t, p) ==
    /\ pc[t] \in Using
    /\ session' = [session EXCEPT ![t] = 0]
    /\ closed' = closed \cup {session[t]}
    /\ pc' = [pc EXCEPT ![t] = p]
    /\ UNCHANGED <<sessions, opened>>

Opens(t) ==
    /\ pc[t] = "reopen"
    /\ opened' = opened + 1
    /\ sessions' = Append(sessions, opened + 1)
    /\ pc' = [pc EXCEPT ![t] = "notify"]
    /\ UNCHANGED <<session, closed>>

Moves ==
    \/ Keeps
    \/ \E t \in Threads : \/ TakesSession(t) \/ Gives(t) \/ Opens(t)
                          \/ \E p \in {"idle", "reopen"} : Drops(t, p)

LEMMA StepsMove ==
    ASSUME IInv, [Next]_vars
    PROVE  Moves
<1> USE DEF ghosts, token, Using
<1>0. pc \in [Threads -> PC]
  BY DEF IInv, Typed
<1>1. CASE UNCHANGED vars
  BY <1>1 DEF vars, Moves, Keeps
<1>2. CASE LoseSession
  BY <1>2 DEF LoseSession, Moves, Keeps
<1>3. ASSUME NEW t \in Threads, NEW o, Call(t, o)
      PROVE  Keeps
  BY <1>0, <1>3 DEF Call, Goto, Keeps
<1>4. ASSUME NEW t \in Threads,
             \/ Wait(t) \/ Exhausted(t) \/ FindKey(t) \/ ReplenishFails(t)
             \/ WakeUp(t) \/ DeadlinePasses(t)
      PROVE  Keeps
  BY <1>0, <1>4 DEF Wait, Exhausted, FindKey, ReplenishFails, WakeUp,
     DeadlinePasses, Goto, Keeps
<1>5. ASSUME NEW t \in Threads, NotifyOne(t)
      PROVE  Keeps
  BY <1>0, <1>5 DEF NotifyOne, Goto, Waiting, Keeps
<1>6. ASSUME NEW t \in Threads, Acquire(t)
      PROVE  TakesSession(t)
  BY <1>6 DEF Acquire, TakesSession, Goto
<1>7. ASSUME NEW t \in Threads, SignFindKeyFails(t)
      PROVE  Drops(t, "idle")
  BY <1>7 DEF SignFindKeyFails, Drop, Goto, Drops
<1>8. ASSUME NEW t \in Threads, PublicKeyFindKeyFails(t) \/ UseSucceeds(t)
      PROVE  Gives(t)
  BY <1>8 DEF PublicKeyFindKeyFails, UseSucceeds, Release, Goto, Gives
<1>9. ASSUME NEW t \in Threads, UseFails(t)
      PROVE  Gives(t) \/ Drops(t, "reopen")
  BY <1>9 DEF UseFails, HandleOperationFailure, Release, Drop, Goto, Gives, Drops
<1>10. ASSUME NEW t \in Threads, Replenish(t)
       PROVE  Opens(t)
  BY <1>10 DEF Replenish, Goto, Opens
<1> QED
  BY <1>1, <1>2, <1>3, <1>4, <1>5, <1>6, <1>7, <1>8, <1>9, <1>10
     DEF Next, Step, Moves

-----------------------------------------------------------------------------
(* Where the sessions are.                                                 *)
LEMMA Places ==
    ASSUME IInv
    PROVE  /\ \A i \in DOMAIN sessions : sessions[i] \in InPool
           /\ \A t \in Threads : session[t] # 0 => session[t] \in Held
           /\ InPool \cup Held \subseteq (1..opened) \ closed
           /\ 0 \notin InPool
           /\ DOMAIN sessions = 1..Len(sessions) /\ Len(sessions) \in Nat
           /\ opened \in Nat
<1>1. InPool \cup Held \subseteq (1..opened) \ closed /\ opened \in Nat
  BY DEF IInv, OnePlace, Typed
<1>2. 0 \notin InPool
  BY <1>1
<1>3. DOMAIN sessions = 1..Len(sessions) /\ Len(sessions) \in Nat
  BY DEF IInv, Typed
<1> QED
  BY <1>1, <1>2, <1>3 DEF InPool, Held

LEMMA TakesPlaces ==
    ASSUME IInv, NEW t \in Threads, TakesSession(t)
    PROVE  LET s == Head(sessions)
           IN /\ s \in InPool /\ s \notin Held /\ session[t] = 0
              /\ Held' = Held \cup {s}
              /\ InPool' = InPool \ {s}
              /\ Len(sessions') = Len(sessions) - 1 /\ Len(sessions) > 0
              /\ \A i \in DOMAIN sessions' :
                    i + 1 \in DOMAIN sessions /\ sessions'[i] = sessions[i + 1]
<1> DEFINE s == Head(sessions)
<1>1. /\ sessions \in Seq(Nat) /\ sessions # <<>> /\ sessions' = Tail(sessions)
      /\ session \in [Threads -> Nat]
      /\ session' = [session EXCEPT ![t] = s]
  BY DEF TakesSession, IInv, Typed
<1>2. /\ Len(sessions) \in Nat /\ Len(sessions) > 0
      /\ Len(sessions') = Len(sessions) - 1
      /\ DOMAIN sessions = 1..Len(sessions)
      /\ DOMAIN sessions' = 1..Len(sessions) - 1
      /\ s = sessions[1]
      /\ \A i \in 1..Len(sessions) - 1 : sessions'[i] = sessions[i + 1]
  BY <1>1, HeadTailProperties
<1> HIDE DEF s
<1>3. s \in InPool /\ s \notin Held /\ s # 0
  <2>1. 1 \in DOMAIN sessions
    BY <1>2
  <2>2. s \in InPool
    BY <1>2, <2>1 DEF InPool
  <2> QED
    BY <2>2, Places DEF IInv, OnePlace
<1>4. session[t] = 0
  BY DEF TakesSession, Using, IInv, HoldsWhileUsing
<1>5. Held' = Held \cup {s}
  BY <1>1, <1>3, <1>4 DEF Held
<1>6. \A i \in DOMAIN sessions' :
         i + 1 \in DOMAIN sessions /\ sessions'[i] = sessions[i + 1]
  BY <1>2
<1>7. InPool' = InPool \ {s}
  <2>1. ASSUME NEW x \in InPool' PROVE x \in InPool \ {s}
    <3>1. PICK i \in DOMAIN sessions' : x = sessions'[i]
      BY <2>1 DEF InPool
    <3>2. /\ i + 1 \in DOMAIN sessions /\ x = sessions[i + 1]
          /\ 1 \in DOMAIN sessions /\ i + 1 # 1
      BY <1>2, <3>1
    <3>3. x # s
      BY <1>2, <3>2 DEF IInv, OnePlace
    <3> QED
      BY <3>2, <3>3 DEF InPool
  <2>2. ASSUME NEW x \in InPool \ {s} PROVE x \in InPool'
    <3>1. PICK i \in DOMAIN sessions : x = sessions[i]
      BY <2>2 DEF InPool
    <3>2. i # 1
      BY <1>2, <2>2, <3>1
    <3>3. /\ i - 1 \in 1..Len(sessions) - 1
          /\ sessions'[i - 1] = sessions[(i - 1) + 1] /\ (i - 1) + 1 = i
      BY <1>2, <3>1, <3>2
    <3> QED
      BY <1>2, <3>1, <3>3 DEF InPool
  <2> QED
    BY <2>1, <2>2
<1> QED
  BY <1>2, <1>3, <1>4, <1>5, <1>6, <1>7 DEF s

(* A session added at the end of the queue.                                *)
LEMMA AddedPlaces ==
    ASSUME IInv, NEW s \in Nat, sessions' = Append(sessions, s)
    PROVE  /\ InPool' = InPool \cup {s}
           /\ Len(sessions') = Len(sessions) + 1
           /\ s \notin InPool =>
                 \A i, j \in DOMAIN sessions' : sessions'[i] = sessions'[j] => i = j
<1>1. /\ sessions \in Seq(Nat) /\ DOMAIN sessions = 1..Len(sessions)
      /\ Len(sessions) \in Nat
  BY Places DEF IInv, Typed
<1> DEFINE n == Len(sessions)
<1>2. /\ Len(sessions') = n + 1
      /\ DOMAIN sessions' = 1..n + 1
      /\ sessions'[n + 1] = s
      /\ \A i \in 1..n : sessions'[i] = sessions[i]
  BY <1>1, AppendProperties
<1>3. DOMAIN sessions' = DOMAIN sessions \cup {n + 1}
  BY <1>1, <1>2
<1>4. InPool' = InPool \cup {s}
  <2> HIDE DEF n
  <2> QED
    BY <1>1, <1>2, <1>3 DEF InPool, n
<1>5. ASSUME s \notin InPool, NEW i \in DOMAIN sessions',
             NEW j \in DOMAIN sessions', sessions'[i] = sessions'[j]
      PROVE  i = j
  <2>1. CASE i = n + 1 /\ j = n + 1
    BY <2>1
  <2>2. CASE i = n + 1 /\ j \in DOMAIN sessions
    BY <1>1, <1>2, <1>5, <2>2 DEF InPool
  <2>3. CASE j = n + 1 /\ i \in DOMAIN sessions
    BY <1>1, <1>2, <1>5, <2>3 DEF InPool
  <2>4. CASE i \in DOMAIN sessions /\ j \in DOMAIN sessions
    <3>1. sessions[i] = sessions[j]
      BY <1>1, <1>2, <1>5, <2>4
    <3> QED
      BY <2>4, <3>1 DEF IInv, OnePlace
  <2> QED
    BY <1>3, <2>1, <2>2, <2>3, <2>4
<1> QED
  BY <1>2, <1>4, <1>5

(* A session that its thread no longer holds.                              *)
LEMMA LeftPlaces ==
    ASSUME IInv, NEW t \in Threads, pc[t] \in Using,
           session' = [session EXCEPT ![t] = 0]
    PROVE  /\ session[t] \in Held /\ session[t] \notin InPool
           /\ Held' = Held \ {session[t]}
<1>1. session \in [Threads -> Nat] /\ session[t] # 0
  BY DEF IInv, Typed, HoldsWhileUsing
<1>2. \A u \in Threads : u # t => session[u] # session[t]
  BY <1>1 DEF IInv, OnePlace
<1>3. session[t] \in Held /\ session[t] \notin InPool
  BY <1>1, Places DEF IInv, OnePlace
<1> QED
  BY <1>1, <1>2, <1>3 DEF Held

-----------------------------------------------------------------------------
LEMMA PlaceKeeps ==
    ASSUME IInv, [Next]_vars
    PROVE  /\ sessions' \in Seq(Nat) /\ session' \in [Threads -> Nat]
           /\ opened' \in Nat /\ closed' \subseteq 1..opened'
           /\ HoldsWhileUsing' /\ OnePlace'
<1>0. /\ sessions \in Seq(Nat) /\ session \in [Threads -> Nat]
      /\ opened \in Nat /\ closed \subseteq 1..opened
      /\ pc \in [Threads -> PC] /\ HoldsWhileUsing /\ OnePlace
  BY DEF IInv, Typed
<1>1. CASE Keeps
  <2>1. InPool' = InPool /\ Held' = Held
    BY <1>1 DEF Keeps, InPool, Held
  <2> QED
    BY <1>0, <1>1, <2>1 DEF Keeps, HoldsWhileUsing, OnePlace
<1>2. ASSUME NEW t \in Threads, TakesSession(t)
      PROVE  /\ sessions' \in Seq(Nat) /\ session' \in [Threads -> Nat]
             /\ opened' = opened /\ closed' = closed
             /\ HoldsWhileUsing' /\ OnePlace'
  <2> DEFINE s == Head(sessions)
  <2>1. /\ s \in InPool /\ s \notin Held /\ session[t] = 0
        /\ Held' = Held \cup {s} /\ InPool' = InPool \ {s}
        /\ \A i \in DOMAIN sessions' :
              i + 1 \in DOMAIN sessions /\ sessions'[i] = sessions[i + 1]
    BY <1>2, TakesPlaces
  <2>2. /\ sessions' \in Seq(Nat) /\ s \in Nat
        /\ opened' = opened /\ closed' = closed
        /\ session' = [session EXCEPT ![t] = s]
        /\ pc' = [pc EXCEPT ![t] = "find_key"]
    BY <1>0, <1>2, HeadTailProperties DEF TakesSession
  <2> HIDE DEF s
  <2>3. s # 0
    BY <2>1, Places
  <2>4. HoldsWhileUsing'
    BY <1>0, <2>2, <2>3 DEF HoldsWhileUsing, Using
  <2>5. \A i, j \in DOMAIN sessions' : sessions'[i] = sessions'[j] => i = j
    <3> SUFFICES ASSUME NEW i \in DOMAIN sessions', NEW j \in DOMAIN sessions',
                        sessions'[i] = sessions'[j]
                 PROVE  i = j
      OBVIOUS
    <3>1. i + 1 = j + 1
      BY <1>0, <2>1 DEF OnePlace
    <3>2. i \in Nat /\ j \in Nat
      BY <2>2
    <3> QED
      BY <3>1, <3>2
  <2>6. \A u, v \in Threads :
           session'[u] = session'[v] /\ u # v => session'[u] = 0
    <3>1. \A u \in Threads : session[u] # s
      BY <2>1, <2>3, Places
    <3> QED
      BY <1>0, <2>2, <3>1 DEF OnePlace
  <2>7. InPool' \cap Held' = {} /\ (1..opened') \ closed' = InPool' \cup Held'
    BY <1>0, <2>1, <2>2 DEF OnePlace
  <2> QED
    BY <1>0, <2>2, <2>4, <2>5, <2>6, <2>7 DEF OnePlace
<1>3. ASSUME NEW t \in Threads, NEW p \in PC \ Using, pc[t] \in Using,
             session' = [session EXCEPT ![t] = 0],
             pc' = [pc EXCEPT ![t] = p]
      PROVE  /\ session' \in [Threads -> Nat]
             /\ HoldsWhileUsing'
             /\ \A u, v \in Threads :
                   session'[u] = session'[v] /\ u # v => session'[u] = 0
  BY <1>0, <1>3 DEF HoldsWhileUsing, OnePlace
<1>4. ASSUME NEW t \in Threads, Gives(t)
      PROVE  /\ sessions' \in Seq(Nat) /\ session' \in [Threads -> Nat]
             /\ opened' = opened /\ closed' = closed
             /\ HoldsWhileUsing' /\ OnePlace'
  <2>1. /\ session[t] \in Nat /\ pc[t] \in Using
        /\ session' = [session EXCEPT ![t] = 0]
        /\ sessions' = Append(sessions, session[t])
        /\ pc' = [pc EXCEPT ![t] = "notify"]
        /\ opened' = opened /\ closed' = closed
    BY <1>0, <1>4 DEF Gives
  <2>2. /\ session[t] \in Held /\ session[t] \notin InPool
        /\ Held' = Held \ {session[t]}
    BY <2>1, LeftPlaces
  <2>3. /\ InPool' = InPool \cup {session[t]}
        /\ \A i, j \in DOMAIN sessions' : sessions'[i] = sessions'[j] => i = j
    BY <2>1, <2>2, AddedPlaces
  <2>4. /\ session' \in [Threads -> Nat] /\ HoldsWhileUsing'
        /\ \A u, v \in Threads :
              session'[u] = session'[v] /\ u # v => session'[u] = 0
    BY <1>3, <2>1 DEF PC, Using
  <2>5. sessions' \in Seq(Nat)
    BY <1>0, <2>1
  <2>6. InPool' \cap Held' = {} /\ (1..opened') \ closed' = InPool' \cup Held'
    BY <1>0, <2>1, <2>2, <2>3 DEF OnePlace
  <2> QED
    BY <2>1, <2>3, <2>4, <2>5, <2>6 DEF OnePlace
<1>5. ASSUME NEW t \in Threads, NEW p \in {"idle", "reopen"}, Drops(t, p)
      PROVE  /\ sessions' = sessions /\ session' \in [Threads -> Nat]
             /\ opened' = opened /\ closed' \subseteq 1..opened
             /\ HoldsWhileUsing' /\ OnePlace'
  <2>1. /\ pc[t] \in Using
        /\ session' = [session EXCEPT ![t] = 0]
        /\ closed' = closed \cup {session[t]}
        /\ pc' = [pc EXCEPT ![t] = p]
        /\ opened' = opened /\ sessions' = sessions
    BY <1>5 DEF Drops
  <2>2. /\ session[t] \in Held /\ session[t] \notin InPool
        /\ Held' = Held \ {session[t]}
    BY <2>1, LeftPlaces
  <2>3. InPool' = InPool
    BY <2>1 DEF InPool
  <2>4. /\ session' \in [Threads -> Nat] /\ HoldsWhileUsing'
        /\ \A u, v \in Threads :
              session'[u] = session'[v] /\ u # v => session'[u] = 0
    BY <1>3, <2>1 DEF PC, Using
  <2>5. closed' \subseteq 1..opened
    BY <1>0, <2>1, <2>2, Places
  <2>6. InPool' \cap Held' = {} /\ (1..opened') \ closed' = InPool' \cup Held'
    BY <1>0, <2>1, <2>2, <2>3 DEF OnePlace
  <2> QED
    BY <1>0, <2>1, <2>4, <2>5, <2>6 DEF OnePlace
<1>6. ASSUME NEW t \in Threads, Opens(t)
      PROVE  /\ sessions' \in Seq(Nat) /\ session' = session
             /\ opened' \in Nat /\ closed' \subseteq 1..opened'
             /\ HoldsWhileUsing' /\ OnePlace'
  <2> DEFINE n == opened + 1
  <2>1. /\ n \in Nat /\ 1..n = (1..opened) \cup {n} /\ n \notin 1..opened
        /\ n \notin closed
    BY <1>0
  <2>2. /\ opened' = n /\ sessions' = Append(sessions, n)
        /\ pc[t] = "reopen" /\ pc' = [pc EXCEPT ![t] = "notify"]
        /\ session' = session /\ closed' = closed
    BY <1>6 DEF Opens
  <2>3. n \notin InPool /\ n \notin Held /\ Held' = Held
    BY <2>1, <2>2, Places DEF Held
  <2> HIDE DEF n
  <2>4. /\ InPool' = InPool \cup {n}
        /\ \A i, j \in DOMAIN sessions' : sessions'[i] = sessions'[j] => i = j
    BY <2>1, <2>2, <2>3, AddedPlaces
  <2>5. sessions' \in Seq(Nat)
    BY <1>0, <2>1, <2>2
  <2>6. HoldsWhileUsing'
    BY <1>0, <2>2 DEF HoldsWhileUsing, Using
  <2>7. InPool' \cap Held' = {} /\ (1..opened') \ closed' = InPool' \cup Held'
    BY <1>0, <2>1, <2>2, <2>3, <2>4 DEF OnePlace
  <2>8. closed' \subseteq 1..opened'
    BY <1>0, <2>1, <2>2
  <2> QED
    BY <1>0, <2>1, <2>2, <2>4, <2>5, <2>6, <2>7, <2>8 DEF OnePlace
<1> QED
  BY <1>0, <1>1, <1>2, <1>4, <1>5, <1>6, StepsMove DEF Moves

-----------------------------------------------------------------------------
(* A thread that replaces a session holds its place in the pool meanwhile. *)
LEMMA CapacityKeeps ==
    ASSUME IInv, [Next]_vars
    PROVE  WithinCapacity'
<1>0. /\ IsFiniteSet(Held) /\ IsFiniteSet(Reopening)
      /\ Cardinality(Held) \in Nat /\ Cardinality(Reopening) \in Nat
      /\ Len(sessions) \in Nat /\ PoolSize \in Nat
      /\ Len(sessions) + Cardinality(Held) + Cardinality(Reopening) <= PoolSize
      /\ pc \in [Threads -> PC]
  BY PoolAssumption, FS_CardinalityType, Places DEF IInv, WithinCapacity, Typed
<1>1. CASE Keeps
  <2>1. Held' = Held /\ sessions' = sessions /\ Reopening' \subseteq Reopening
    BY <1>1 DEF Keeps, Held, Reopening
  <2>2. /\ IsFiniteSet(Reopening')
        /\ Cardinality(Reopening') <= Cardinality(Reopening)
        /\ Cardinality(Reopening') \in Nat
    BY <1>0, <2>1, FS_Subset, FS_CardinalityType
  <2> QED
    BY <1>0, <2>1, <2>2 DEF WithinCapacity
<1>2. ASSUME NEW t \in Threads, TakesSession(t)
      PROVE  WithinCapacity'
  <2> DEFINE s == Head(sessions)
  <2>1. /\ s \notin Held /\ Held' = Held \cup {s}
        /\ Len(sessions') = Len(sessions) - 1
    BY <1>2, TakesPlaces
  <2>2. Reopening' = Reopening
    BY <1>0, <1>2 DEF TakesSession, Reopening
  <2>3. IsFiniteSet(Held') /\ Cardinality(Held') = Cardinality(Held) + 1
    BY <1>0, <2>1, FS_AddElement
  <2> QED
    BY <1>0, <2>1, <2>2, <2>3 DEF WithinCapacity
<1>3. ASSUME NEW t \in Threads, pc[t] \in Using,
             session' = [session EXCEPT ![t] = 0]
      PROVE  IsFiniteSet(Held') /\ Cardinality(Held') = Cardinality(Held) - 1
  <2>1. session[t] \in Held /\ Held' = Held \ {session[t]}
    BY <1>3, LeftPlaces
  <2> QED
    BY <1>0, <2>1, FS_RemoveElement
<1>4. ASSUME NEW t \in Threads, Gives(t)
      PROVE  WithinCapacity'
  <2>1. IsFiniteSet(Held') /\ Cardinality(Held') = Cardinality(Held) - 1
    BY <1>3, <1>4 DEF Gives
  <2>2. Reopening' = Reopening
    BY <1>0, <1>4 DEF Gives, Reopening, Using
  <2>3. Len(sessions') = Len(sessions) + 1
    <3>1. session[t] \in Nat /\ sessions' = Append(sessions, session[t])
      BY <1>4 DEF Gives, IInv, Typed
    <3> QED
      BY <3>1, AddedPlaces
  <2> QED
    BY <1>0, <2>1, <2>2, <2>3 DEF WithinCapacity
<1>5. ASSUME NEW t \in Threads, NEW p \in {"idle", "reopen"}, Drops(t, p)
      PROVE  WithinCapacity'
  <2>1. IsFiniteSet(Held') /\ Cardinality(Held') = Cardinality(Held) - 1
    BY <1>3, <1>5 DEF Drops
  <2>2. Reopening' = Reopening \/ Reopening' = Reopening \cup {t}
    BY <1>0, <1>5 DEF Drops, Reopening, Using
  <2>3. /\ IsFiniteSet(Reopening') /\ Cardinality(Reopening') \in Nat
        /\ Cardinality(Reopening') <= Cardinality(Reopening) + 1
    <3>1. CASE Reopening' = Reopening
      BY <1>0, <3>1
    <3>2. CASE Reopening' = Reopening \cup {t}
      <4>1. /\ IsFiniteSet(Reopening \cup {t})
            /\ \/ Cardinality(Reopening \cup {t}) = Cardinality(Reopening)
               \/ Cardinality(Reopening \cup {t}) = Cardinality(Reopening) + 1
        BY <1>0, FS_AddElement
      <4> QED
        BY <1>0, <3>2, <4>1
    <3> QED
      BY <2>2, <3>1, <3>2
  <2>4. sessions' = sessions
    BY <1>5 DEF Drops
  <2> QED
    BY <1>0, <2>1, <2>3, <2>4 DEF WithinCapacity
<1>6. ASSUME NEW t \in Threads, Opens(t)
      PROVE  WithinCapacity'
  <2>1. t \in Reopening /\ Reopening' = Reopening \ {t}
    BY <1>0, <1>6 DEF Opens, Reopening
  <2>2. /\ IsFiniteSet(Reopening')
        /\ Cardinality(Reopening') = Cardinality(Reopening) - 1
    BY <1>0, <2>1, FS_RemoveElement
  <2>3. Len(sessions') = Len(sessions) + 1
    <3>1. opened + 1 \in Nat /\ sessions' = Append(sessions, opened + 1)
      BY <1>6, Places DEF Opens
    <3> QED
      BY <3>1, AddedPlaces
  <2>4. Held' = Held
    BY <1>6 DEF Opens, Held
  <2> QED
    BY <1>0, <2>2, <2>3, <2>4 DEF WithinCapacity
<1> QED
  BY <1>1, <1>2, <1>4, <1>5, <1>6, StepsMove DEF Moves

-----------------------------------------------------------------------------
LEMMA WakeKeeps ==
    ASSUME IInv, [Next]_vars
    PROVE  NothingForgotten'
<1> DEFINE n == Len(sessions)
<1>0. /\ IsFiniteSet(Active) /\ Cardinality(Active) \in Nat
      /\ n \in Nat /\ pc \in [Threads -> PC]
      /\ Waiting = {} \/ Cardinality(Active) >= n
  BY FS_CardinalityType, Places DEF IInv, NothingForgotten, Typed
<1>1. ASSUME Active' = Active, Waiting' \subseteq Waiting, sessions' = sessions
      PROVE  NothingForgotten'
  BY <1>0, <1>1 DEF NothingForgotten
<1>2. ASSUME NEW t, Active' = Active \cup {t}, Waiting' \subseteq Waiting,
             \/ sessions' = sessions
             \/ t \notin Active /\ Len(sessions') = n + 1
      PROVE  NothingForgotten'
  <2>1. /\ IsFiniteSet(Active')
        /\ Cardinality(Active') = IF t \in Active THEN Cardinality(Active)
                                  ELSE Cardinality(Active) + 1
    BY <1>0, <1>2, FS_AddElement
  <2> QED
    BY <1>0, <1>2, <2>1 DEF NothingForgotten
<1>3. ASSUME NEW t, Active' = Active \ {t},
             \/ sessions' = <<>>
             \/ Waiting' = {}
             \/ t \in Active /\ Len(sessions') = n - 1 /\ Waiting' = Waiting
      PROVE  NothingForgotten'
  <2>1. /\ IsFiniteSet(Active') /\ Cardinality(Active') \in Nat
        /\ t \in Active => Cardinality(Active') = Cardinality(Active) - 1
    BY <1>0, <1>3, FS_RemoveElement, FS_CardinalityType
  <2>2. CASE sessions' = <<>>
    BY <2>1, <2>2 DEF NothingForgotten
  <2>3. CASE Waiting' = {}
    BY <2>1, <2>3 DEF NothingForgotten
  <2>4. CASE t \in Active /\ Len(sessions') = n - 1 /\ Waiting' = Waiting
    <3>1. Waiting' = {} \/ Cardinality(Active') >= Len(sessions')
      BY <1>0, <2>1, <2>4
    <3> QED
      BY <2>1, <3>1 DEF NothingForgotten
  <2> QED
    BY <1>3, <2>2, <2>3, <2>4
<1> HIDE DEF n
<1> USE DEF token, ghosts
<1>4. CASE UNCHANGED vars \/ LoseSession \/ \E t \in Threads : DeadlinePasses(t)
  BY <1>1, <1>4 DEF vars, LoseSession, DeadlinePasses, Active, Waiting
<1>5. ASSUME NEW t \in Threads, NEW o, Call(t, o)
      PROVE  NothingForgotten'
  <2>1. Active' = Active \cup {t} /\ Waiting' \subseteq Waiting /\ sessions' = sessions
    BY <1>0, <1>5 DEF Call, Goto, Active, Waiting
  <2> QED
    BY <1>2, <2>1
<1>6. ASSUME NEW t \in Threads, WakeUp(t)
      PROVE  NothingForgotten'
  <2>1. Active' = Active \cup {t} /\ Waiting' \subseteq Waiting /\ sessions' = sessions
    BY <1>0, <1>6 DEF WakeUp, Goto, Active, Waiting
  <2> QED
    BY <1>2, <2>1
<1>7. ASSUME NEW t \in Threads, Wait(t) \/ Exhausted(t)
      PROVE  NothingForgotten'
  <2>1. Active' = Active \ {t} /\ sessions' = <<>>
    BY <1>0, <1>7 DEF Wait, Exhausted, Goto, Active
  <2> QED
    BY <1>3, <2>1
<1>8. ASSUME NEW t \in Threads, FindKey(t) \/ ReplenishFails(t)
      PROVE  NothingForgotten'
  <2>1. Active' = Active /\ Waiting' \subseteq Waiting /\ sessions' = sessions
    BY <1>0, <1>8 DEF FindKey, ReplenishFails, Goto, Active, Waiting
  <2> QED
    BY <1>1, <2>1
<1>9. ASSUME NEW t \in Threads, NotifyOne(t)
      PROVE  NothingForgotten'
  <2>1. pc[t] = "notify" /\ sessions' = sessions
    BY <1>9 DEF NotifyOne
  <2>2. CASE Waiting = {} /\ Goto(t, "idle")
    <3>1. Active' = Active \ {t} /\ Waiting' = {}
      BY <1>0, <2>1, <2>2 DEF Goto, Active, Waiting
    <3> QED
      BY <1>3, <3>1
  <2>3. ASSUME NEW u \in Waiting,
               pc' = [pc EXCEPT ![t] = "idle", ![u] = "acquire"]
        PROVE  NothingForgotten'
    <3>1. /\ t \in Active /\ u \notin Active /\ u # t
          /\ Active' = (Active \ {t}) \cup {u}
          /\ Waiting' \subseteq Waiting
      BY <1>0, <2>1, <2>3 DEF Active, Waiting
    <3> DEFINE rest == Active \ {t}
    <3>2. IsFiniteSet(rest) /\ Cardinality(rest) = Cardinality(Active) - 1
      BY <1>0, <3>1, FS_RemoveElement
    <3>3. u \notin rest /\ Active' = rest \cup {u}
      BY <3>1
    <3> HIDE DEF rest
    <3>4. IsFiniteSet(Active') /\ Cardinality(Active') = Cardinality(rest) + 1
      BY <3>2, <3>3, FS_AddElement
    <3>5. Cardinality(Active') = Cardinality(Active)
      BY <1>0, <3>2, <3>4
    <3> QED
      BY <1>0, <2>1, <3>1, <3>4, <3>5 DEF NothingForgotten, n
  <2> QED
    BY <1>9, <2>2, <2>3 DEF NotifyOne
<1>10. ASSUME NEW t \in Threads, TakesSession(t)
       PROVE  NothingForgotten'
  <2>1. t \in Active /\ Active' = Active \ {t} /\ Waiting' = Waiting
    BY <1>0, <1>10 DEF TakesSession, Active, Waiting
  <2>2. Len(sessions') = n - 1
    BY <1>10, TakesPlaces DEF n
  <2> QED
    BY <1>3, <2>1, <2>2
<1>11. ASSUME NEW t \in Threads, Gives(t) \/ Opens(t)
       PROVE  NothingForgotten'
  <2>1. t \notin Active /\ Active' = Active \cup {t} /\ Waiting' \subseteq Waiting
    BY <1>0, <1>11 DEF Gives, Opens, Using, Active, Waiting
  <2>2. PICK s \in Nat : sessions' = Append(sessions, s)
    BY <1>11, Places DEF Gives, Opens, IInv, Typed
  <2>3. Len(sessions') = n + 1
    BY <2>2, AddedPlaces DEF n
  <2> QED
    BY <1>2, <2>1, <2>3
<1>12. ASSUME NEW t \in Threads, NEW p \in {"idle", "reopen"}, Drops(t, p)
       PROVE  NothingForgotten'
  <2>1. Active' = Active /\ Waiting' \subseteq Waiting /\ sessions' = sessions
    BY <1>0, <1>12 DEF Drops, Using, Active, Waiting
  <2> QED
    BY <1>1, <2>1
<1>13. ASSUME NEW t \in Threads,
              \/ Acquire(t) \/ SignFindKeyFails(t) \/ PublicKeyFindKeyFails(t)
              \/ UseSucceeds(t) \/ UseFails(t) \/ Replenish(t)
       PROVE  \/ TakesSession(t) \/ Gives(t) \/ Opens(t)
              \/ \E p \in {"idle", "reopen"} : Drops(t, p)
  BY <1>13 DEF Acquire, SignFindKeyFails, PublicKeyFindKeyFails, UseSucceeds,
     UseFails, Replenish, HandleOperationFailure, Release, Drop, Goto, Using,
     TakesSession, Gives, Opens, Drops
<1> QED
  BY <1>4, <1>5, <1>6, <1>7, <1>8, <1>9, <1>10, <1>11, <1>12, <1>13
     DEF Next, Step

-----------------------------------------------------------------------------
LEMMA SignKeeps ==
    ASSUME IInv, [Next]_vars
    PROVE  /\ pc' \in [Threads -> PC]
           /\ op' \in [Threads -> {"sign_digest", "public_key"}]
           /\ reply' \in [Threads -> {"none", "ok", "error", "PoolExhausted"}]
           /\ signatures' \in [Threads -> Nat]
           /\ SignsOnce'
<1> USE DEF token, ghosts, Using
<1> DEFINE Goal == /\ pc' \in [Threads -> PC]
                   /\ op' \in [Threads -> {"sign_digest", "public_key"}]
                   /\ reply' \in [Threads -> {"none", "ok", "error", "PoolExhausted"}]
                   /\ signatures' \in [Threads -> Nat]
                   /\ SignsOnce'
<1>0. /\ pc \in [Threads -> PC]
      /\ op \in [Threads -> {"sign_digest", "public_key"}]
      /\ reply \in [Threads -> {"none", "ok", "error", "PoolExhausted"}]
      /\ signatures \in [Threads -> Nat]
      /\ SignsOnce
  BY DEF IInv, Typed
<1>1. CASE UNCHANGED vars \/ LoseSession \/ \E t \in Threads : DeadlinePasses(t)
  BY <1>0, <1>1 DEF vars, LoseSession, DeadlinePasses, SignsOnce
<1>2. ASSUME NEW t \in Threads, NEW o \in {"sign_digest", "public_key"}, Call(t, o)
      PROVE  Goal
  BY <1>0, <1>2 DEF Call, Goto, Result, SignsOnce, PC
<1>3. ASSUME NEW t \in Threads, Acquire(t) \/ Wait(t) \/ WakeUp(t) \/ FindKey(t)
      PROVE  Goal
  BY <1>0, <1>3 DEF Acquire, Wait, WakeUp, FindKey, Goto, SignsOnce, PC
<1>4. ASSUME NEW t \in Threads, Replenish(t) \/ ReplenishFails(t)
      PROVE  Goal
  BY <1>0, <1>4 DEF Replenish, ReplenishFails, Goto, SignsOnce, PC
<1>5. ASSUME NEW t \in Threads, NotifyOne(t)
      PROVE  Goal
  BY <1>0, <1>5 DEF NotifyOne, Waiting, Goto, SignsOnce, PC
<1>6. ASSUME NEW t \in Threads, Exhausted(t)
      PROVE  Goal
  BY <1>0, <1>6 DEF Exhausted, Goto, Result, SignsOnce, PC
<1>7. ASSUME NEW t \in Threads, SignFindKeyFails(t) \/ PublicKeyFindKeyFails(t)
      PROVE  Goal
  BY <1>0, <1>7 DEF SignFindKeyFails, PublicKeyFindKeyFails, Release, Goto,
     Result, SignsOnce, PC
<1>8. ASSUME NEW t \in Threads, pc[t] = "use", Signed(t)
      PROVE  /\ signatures' \in [Threads -> Nat]
             /\ signatures'[t] = IF op[t] = "sign_digest" THEN 1 ELSE 0
             /\ \A u \in Threads : u # t => signatures'[u] = signatures[u]
  BY <1>0, <1>8 DEF Signed, SignsOnce
<1>9. ASSUME NEW t \in Threads, UseSucceeds(t)
      PROVE  Goal
  <2>1. /\ pc[t] = "use" /\ Signed(t) /\ op' = op
        /\ pc' = [pc EXCEPT ![t] = "notify"]
        /\ reply' = [reply EXCEPT ![t] = "ok"]
    BY <1>9 DEF UseSucceeds, Release, Goto, Result
  <2> QED
    BY <1>0, <1>8, <2>1 DEF SignsOnce, PC
<1>10. ASSUME NEW t \in Threads, UseFails(t)
       PROVE  Goal
  <2>1. PICK p \in {"notify", "reopen"} :
           /\ pc[t] = "use" /\ op' = op
           /\ pc' = [pc EXCEPT ![t] = p]
           /\ reply' = [reply EXCEPT ![t] = "error"]
    BY <1>10 DEF UseFails, HandleOperationFailure, Release, Drop, Goto, Result
  <2>2. CASE Signed(t)
    BY <1>0, <1>8, <2>1, <2>2 DEF SignsOnce, PC
  <2>3. CASE UNCHANGED signatures
    BY <1>0, <2>1, <2>3 DEF SignsOnce, PC
  <2> QED
    BY <1>10, <2>2, <2>3 DEF UseFails
<1> QED
  BY <1>1, <1>2, <1>3, <1>4, <1>5, <1>6, <1>7, <1>9, <1>10 DEF Next, Step

-----------------------------------------------------------------------------
LEMMA IInvKeeps == IInv /\ [Next]_vars => IInv'
BY PlaceKeeps, CapacityKeeps, WakeKeeps, SignKeeps DEF IInv, Typed

LEMMA IInvHolds == Spec => []IInv
BY InitIInv, IInvKeeps, PTL DEF Spec

(* Calls of two threads never meet on a session, no session is lost from   *)
(* sight, and the pool never exceeds pool_size (pool.rs:112-157), for any  *)
(* number of threads and any size.                                         *)
THEOREM ExclusiveSessions == Spec => []SessionIsExclusive
<1>1. ASSUME IInv PROVE SessionIsExclusive
  <2>1. Len(sessions) + Cardinality(Held) <= PoolSize
    BY <1>1, PoolAssumption, FS_CardinalityType, Places DEF IInv, WithinCapacity
  <2> QED
    BY <1>1, <2>1 DEF IInv, OnePlace, SessionIsExclusive
<1> QED
  BY <1>1, IInvHolds, PTL

(* The notification that follows every session put back (pool.rs:139-143)  *)
(* is enough, although it comes after the lock is released and may wake a  *)
(* thread that finds the queue empty.                                      *)
THEOREM NoForgottenSession == Spec => []NoLostWakeup
<1>1. IInv => NoLostWakeup
  BY DEF IInv, NothingForgotten, NoLostWakeup, Active
<1> QED
  BY <1>1, IInvHolds, PTL

(* No path of sign_digest signs twice, and success means one signature     *)
(* (pool.rs:176-177).                                                      *)
THEOREM SingleSignature == Spec => []OneSignaturePerCall
<1>1. IInv => OneSignaturePerCall
  BY DEF IInv, SignsOnce, OneSignaturePerCall
<1> QED
  BY <1>1, IInvHolds, PTL

-----------------------------------------------------------------------------
(* AdminQuorum.  The inductive invariant says what is known at each stage  *)
(* of the handler, which goes through the stages in this order.            *)
Nothing == journal = {} /\ budgets = NoBudget
Evaluating == spent = 0 /\ clock \in 0..delaiEvaluation

(* The subjects that the first n assertions prove.                         *)
Proven(n) == {s \in Subjects : \E i \in 1..n : body.assertions[i] = s}

Request == body \in Body /\ caller \in Caller

Authenticated ==
    /\ Request
    /\ caller.subject \in Subjects /\ caller.aal3
    /\ body.threshold >= 2

Concluded ==
    /\ Authenticated
    /\ seen = Proven(Len(body.assertions))
    /\ bearers = seen \ {caller.subject}
    /\ todo \subseteq bearers
    /\ spent \in 0..delaiEvaluation
    /\ clock \in 0..plafondParPhase

(* What an event may say.                                                  *)
Truthful(e) ==
    /\ e.reached = Reached
    /\ ~e.initiator => e.actor \in bearers
    /\ e.initiator => /\ e.actor = caller.subject
                      /\ e.excluded <=> caller.subject \in seen

Audited ==
    /\ budgets \in [Subjects \cup {Nobody} -> Nat]
    /\ budgets[Nobody] = delaiAudit
    /\ \A e \in journal : Truthful(e)

-----------------------------------------------------------------------------
(* The stages.                                                             *)
Fresh ==
    /\ stage = "idle" /\ response = NoReply
    /\ Nothing /\ spent = 0 /\ clock = 0 /\ index = 0 /\ seen = {}

Received ==
    /\ stage = "caller" /\ response = NoReply
    /\ Nothing /\ spent = 0 /\ clock = 0 /\ index = 0 /\ seen = {}
    /\ Request

Verifying ==
    /\ stage = "bearers" /\ response = NoReply
    /\ Nothing /\ Evaluating
    /\ Authenticated
    /\ index \in 0..Len(body.assertions)
    /\ seen = Proven(index)

Refused ==
    /\ stage = "idle" /\ response.status \in {400, 401, 403, 500, 502}
    /\ Nothing /\ Evaluating

Announcing ==
    /\ stage = "initiator" /\ response = NoReply
    /\ Nothing /\ clock = 0
    /\ Concluded

Recording ==
    /\ stage = "events" /\ response = NoReply
    /\ Audited
    /\ Concluded

Accepted ==
    /\ stage = "idle" /\ response.status = 200
    /\ response.reached = Reached /\ response.subjects = bearers
    /\ todo # {} => clock = plafondParPhase
    /\ Audited
    /\ Concluded

(* The inductive invariant.                                                *)
QuorumInv ==
    \/ Fresh \/ Received \/ Verifying \/ Refused
    \/ Announcing \/ Recording \/ Accepted

-----------------------------------------------------------------------------
LEMMA Budgets ==
    /\ delaiVerification \in Nat /\ delaiEvaluation \in Nat
    /\ delaiAudit \in Nat /\ delaiAudit > 0 /\ plafondAudit \in Nat
    /\ plafondParPhase \in Nat /\ plafondParPhase >= delaiAudit
<1>1. /\ delaiVerification \in Nat /\ delaiEvaluation \in Nat
      /\ delaiAudit \in Nat /\ delaiAudit > 0 /\ plafondAudit \in Nat
  BY QuorumAssumption
<1> QED
  BY <1>1 DEF plafondParPhase

LEMMA Refusals ==
    /\ NoReply.status = 0
    /\ \A status : Failure(status).status = status
    /\ \A status \in {400, 401, 403, 500, 502} : Failure(status) # NoReply
BY DEF Failure, NoReply

LEMMA BodyFields ==
    ASSUME Request
    PROVE  /\ Len(body.assertions) \in Nat
           /\ DOMAIN body.assertions = 1..Len(body.assertions)
           /\ body.threshold \in Nat
           /\ caller.subject \in Subjects \cup {Nobody}
           /\ caller.aal3 \in BOOLEAN
<1>1. PICK n \in 0..maxAssertions + 1 :
         body.assertions \in [1..n -> Subjects \cup {Nobody}]
  BY DEF Request, Body
<1>2. n \in Nat
  BY QuorumAssumption
<1>3. Len(body.assertions) = n /\ DOMAIN body.assertions = 1..n
  BY <1>1, <1>2
<1>4. body.threshold \in Nat
  BY QuorumAssumption DEF Request, Body
<1> QED
  BY <1>2, <1>3, <1>4 DEF Request, Caller

LEMMA QuorumInvInit == QuorumInit => QuorumInv
BY DEF QuorumInit, QuorumInv, Fresh, Nothing

LEMMA ReceiveKeeps ==
    ASSUME QuorumInv, Receive
    PROVE  Received'
<1>1. Fresh
  BY Refusals DEF QuorumInv, Receive, Fresh, Received, Verifying, Refused,
     Announcing, Recording, Accepted
<1> QED
  BY <1>1 DEF Receive, Fresh, Received, Nothing, Request, time, audit

LEMMA MalformedKeeps ==
    ASSUME QuorumInv, Malformed
    PROVE  Refused'
<1>1. Fresh
  BY Refusals DEF QuorumInv, Malformed, Fresh, Received, Verifying, Refused,
     Announcing, Recording, Accepted
<1>2. stage' = "idle" /\ response'.status \in {400, 401}
  BY Refusals DEF Malformed, Reply
<1> QED
  BY <1>1, <1>2, Budgets DEF Malformed, Fresh, Refused, Nothing, Evaluating, time, audit

(* What the evaluation has concluded does not change during the audit.     *)
LEMMA ReachedStays ==
    ASSUME UNCHANGED <<body, bearers>>
    PROVE  Reached' = Reached
BY DEF Reached

LEMMA ConcludedStays ==
    ASSUME Concluded, UNCHANGED <<body, caller, seen, bearers, spent>>,
           todo' \subseteq todo, clock' \in 0..plafondParPhase
    PROVE  Concluded'
BY DEF Concluded, Authenticated, Request, Proven

LEMMA TruthfulStays ==
    ASSUME UNCHANGED <<body, caller, seen, bearers>>, NEW e, Truthful(e)
    PROVE  Truthful(e)'
BY ReachedStays, Zenon DEF Truthful

(* The client leaves, or nothing happens: no stage depends on the client.  *)
LEMMA DisconnectKeeps ==
    ASSUME QuorumInv, Disconnect \/ UNCHANGED handler
    PROVE  QuorumInv'
<1>0. UNCHANGED <<stage, body, caller, clock, spent, index, seen, bearers, todo,
                  budgets, journal, response>>
  BY DEF Disconnect, handler, time, audit
<1> USE DEF Nothing, Evaluating, Request, Authenticated
<1>1. CASE Fresh
  BY <1>0, <1>1 DEF Fresh, QuorumInv
<1>2. CASE Received
  BY <1>0, <1>2 DEF Received, QuorumInv
<1>3. CASE Verifying
  BY <1>0, <1>3 DEF Verifying, Proven, QuorumInv
<1>4. CASE Refused
  BY <1>0, <1>4 DEF Refused, QuorumInv
<1>5. ASSUME Concluded PROVE Concluded'
  <2>1. clock' \in 0..plafondParPhase
    BY <1>0, <1>5 DEF Concluded
  <2> QED
    BY <1>0, <1>5, <2>1, ConcludedStays
<1>6. ASSUME Audited PROVE Audited'
  BY <1>0, <1>6, TruthfulStays DEF Audited
<1>7. CASE Announcing
  BY <1>0, <1>5, <1>7 DEF Announcing, QuorumInv
<1>8. CASE Recording
  BY <1>0, <1>5, <1>6, <1>8 DEF Recording, QuorumInv
<1>9. CASE Accepted
  BY <1>0, <1>5, <1>6, <1>9, ReachedStays DEF Accepted, QuorumInv
<1> QED
  BY <1>1, <1>2, <1>3, <1>4, <1>7, <1>8, <1>9 DEF QuorumInv

-----------------------------------------------------------------------------
(* A call of the evaluation ends before its budget.                        *)
LEMMA ClockInBudget ==
    ASSUME clock \in 0..delaiEvaluation, NEW d \in Nat, NEW budget \in Nat,
           Takes(d, budget), clock' = clock + d
    PROVE  clock' \in 0..delaiEvaluation
BY Budgets DEF Takes, Least

LEMMA CallerKeeps ==
    ASSUME QuorumInv, VerifyCaller \/ VerifyCallerFails
    PROVE  Verifying' \/ Refused'
<1>1. Received
  BY DEF QuorumInv, VerifyCaller, VerifyCallerFails, Fresh, Received,
     Verifying, Refused, Announcing, Recording, Accepted
<1>2. clock' \in 0..delaiEvaluation /\ spent' = 0
  <2>1. clock \in 0..delaiEvaluation /\ spent = 0
    BY <1>1, Budgets DEF Received
  <2>2. PICK d \in 0..delaiVerification :
           Takes(d, delaiVerification) /\ clock' = clock + d
    BY DEF VerifyCaller, VerifyCallerFails
  <2>3. d \in Nat /\ delaiVerification \in Nat
    BY Budgets
  <2> QED
    BY <2>1, <2>2, <2>3, ClockInBudget DEF VerifyCaller, VerifyCallerFails
<1>3. Nothing'
  BY <1>1 DEF Received, Nothing, VerifyCaller, VerifyCallerFails, audit
<1>4. CASE VerifyCallerFails \/ (VerifyCaller /\ CallerRefusal # 0)
  <2>1. CASE VerifyCallerFails
    <3>1. stage' = "idle" /\ response'.status = 502
      BY <2>1, Refusals DEF VerifyCallerFails, Reply
    <3> QED
      BY <1>2, <1>3, <3>1 DEF Refused, Evaluating
  <2>2. CASE VerifyCaller /\ CallerRefusal # 0
    <3>1. CallerRefusal \in {400, 401, 403}
      BY <2>2 DEF CallerRefusal
    <3>2. stage' = "idle" /\ response'.status = CallerRefusal
      BY <2>2, Refusals DEF VerifyCaller, Reply
    <3> QED
      BY <1>2, <1>3, <3>1, <3>2 DEF Refused, Evaluating
  <2> QED
    BY <1>4, <2>1, <2>2
<1>5. CASE VerifyCaller /\ CallerRefusal = 0
  <2>1. /\ stage' = "bearers"
        /\ UNCHANGED <<body, caller, index, seen, response>>
    BY <1>5 DEF VerifyCaller
  <2>2. Authenticated
    BY <1>1, <1>5, BodyFields DEF CallerRefusal, MinimumThreshold, Received,
       Authenticated
  <2>3. Authenticated'
    BY <2>1, <2>2 DEF Authenticated, Request
  <2>4. index' = 0 /\ seen' = {} /\ Proven(0)' = {}
    BY <1>1, <2>1 DEF Received, Proven
  <2>5. index' \in 0..Len(body'.assertions)
    BY <1>1, <2>1, <2>4, BodyFields DEF Received
  <2> QED
    BY <1>1, <1>2, <1>3, <2>1, <2>3, <2>4, <2>5
       DEF Verifying, Evaluating, Received
<1> QED
  BY <1>4, <1>5

LEMMA BearerKeeps ==
    ASSUME QuorumInv, VerifyBearer \/ VerifyBearerFails
    PROVE  Verifying' \/ Refused'
<1>1. Verifying
  BY DEF QuorumInv, VerifyBearer, VerifyBearerFails, Fresh, Received,
     Verifying, Refused, Announcing, Recording, Accepted
<1>2. clock' \in 0..delaiEvaluation /\ spent' = 0
  <2>1. clock \in 0..delaiEvaluation /\ spent = 0
    BY <1>1 DEF Verifying, Evaluating
  <2>2. PICK d \in 0..delaiEvaluation :
           Takes(d, delaiEvaluation) /\ clock' = clock + d
    BY DEF VerifyBearer, VerifyBearerFails
  <2>3. d \in Nat /\ delaiEvaluation \in Nat
    BY Budgets
  <2> QED
    BY <2>1, <2>2, <2>3, ClockInBudget DEF VerifyBearer, VerifyBearerFails
<1>3. Nothing'
  BY <1>1 DEF Verifying, Nothing, VerifyBearer, VerifyBearerFails, audit
<1>4. CASE VerifyBearerFails
  <2>1. stage' = "idle" /\ response'.status \in {500, 502}
    BY <1>4, Refusals DEF VerifyBearerFails, Reply
  <2> QED
    BY <1>2, <1>3, <2>1 DEF Refused, Evaluating
<1>5. CASE VerifyBearer
  <2> DEFINE a == body.assertions
  <2>1. /\ index < Len(a) /\ index' = index + 1
        /\ seen' = seen \cup ({a[index + 1]} \cap Subjects)
        /\ UNCHANGED <<stage, body, caller, response>>
    BY <1>5 DEF VerifyBearer
  <2>2. /\ index \in Nat /\ Len(a) \in Nat
        /\ seen = Proven(index) /\ Authenticated
        /\ stage = "bearers" /\ response = NoReply
    BY <1>1, BodyFields DEF Verifying, Authenticated
  <2>3. 1..index + 1 = (1..index) \cup {index + 1}
    BY <2>2
  <2>4. seen' = Proven(index + 1)
    <3> HIDE DEF a
    <3>1. seen' = {s \in Subjects : \E i \in 1..index : a[i] = s}
                    \cup ({a[index + 1]} \cap Subjects)
      BY <2>1, <2>2 DEF Proven, a
    <3>2. seen' = {s \in Subjects : \E i \in 1..index + 1 : a[i] = s}
      BY <2>3, <3>1
    <3> QED
      BY <3>2 DEF Proven, a
  <2>5. seen' = Proven(index)'
    BY <2>1, <2>4 DEF Proven
  <2>6. index' \in 0..Len(body'.assertions)
    BY <2>1, <2>2
  <2>7. Authenticated'
    BY <2>1, <2>2 DEF Authenticated, Request
  <2> QED
    BY <1>2, <1>3, <2>1, <2>2, <2>5, <2>6, <2>7 DEF Verifying, Evaluating
<1> QED
  BY <1>4, <1>5

LEMMA ConcludeKeeps ==
    ASSUME QuorumInv, Conclude
    PROVE  Announcing'
<1>1. Verifying
  BY DEF QuorumInv, Conclude, Fresh, Received, Verifying, Refused, Announcing,
     Recording, Accepted
<1>2. /\ index = Len(body.assertions)
      /\ bearers' = seen \ {caller.subject} /\ todo' = bearers'
      /\ spent' = spent + clock /\ clock' = 0 /\ stage' = "initiator"
      /\ UNCHANGED <<body, caller, seen, budgets, journal, response>>
  BY DEF Conclude, ExcludeInitiator, audit
<1>3. Nothing' /\ Authenticated' /\ response' = NoReply
  BY <1>1, <1>2 DEF Verifying, Nothing, Authenticated, Request
<1>4. seen' = Proven(Len(body.assertions))'
  BY <1>1, <1>2 DEF Verifying, Proven
<1>5. spent' \in 0..delaiEvaluation /\ clock' \in 0..plafondParPhase
  BY <1>1, <1>2, Budgets DEF Verifying, Evaluating
<1> QED
  BY <1>2, <1>3, <1>4, <1>5 DEF Announcing, Concluded

-----------------------------------------------------------------------------
(* An event takes no more than its budget, and none more than the phase.   *)
LEMMA SendInBudget ==
    ASSUME clock \in 0..plafondParPhase, NEW s, NEW event, Send(s, event)
    PROVE  /\ EventBudget \in Nat
           /\ clock' \in 0..plafondParPhase
           /\ clock = 0 => EventBudget = delaiAudit
<1>1. PICK d \in 0..EventBudget : clock' = clock + d
  BY DEF Send
<1> QED
  BY <1>1, Budgets DEF EventBudget, Least

LEMMA InitiatorKeeps ==
    ASSUME QuorumInv, RecordInitiator
    PROVE  Recording'
<1>0. PICK event :
         event = [actor |-> caller.subject, initiator |-> TRUE,
                  reached |-> Reached, excluded |-> caller.subject \in seen]
  OBVIOUS
<1>1. Announcing
  BY DEF QuorumInv, RecordInitiator, Fresh, Received, Verifying, Refused,
     Announcing, Recording, Accepted
<1>2. /\ Send(Nobody, event) /\ stage' = "events"
      /\ UNCHANGED <<body, caller, spent, seen, bearers, todo, response>>
  BY <1>0 DEF RecordInitiator
<1>3. clock = 0 /\ clock \in 0..plafondParPhase
  BY <1>1, Budgets DEF Announcing
<1>4. /\ EventBudget = delaiAudit /\ clock' \in 0..plafondParPhase
  BY <1>2, <1>3, SendInBudget
<1>5. /\ budgets' = [NoBudget EXCEPT ![Nobody] = delaiAudit]
      /\ journal' \subseteq {event}
  BY <1>1, <1>2, <1>4 DEF Announcing, Nothing, Send
<1>6. /\ budgets' \in [Subjects \cup {Nobody} -> Nat]
      /\ budgets'[Nobody] = delaiAudit
  BY <1>5, Budgets DEF NoBudget
<1>7. Truthful(event)
  BY <1>0 DEF Truthful
<1>8. Truthful(event)'
  BY <1>2, <1>7, TruthfulStays
<1>9. Audited'
  BY <1>5, <1>6, <1>8 DEF Audited
<1>10. Concluded'
  BY <1>1, <1>2, <1>4, ConcludedStays DEF Announcing
<1> QED
  BY <1>1, <1>2, <1>9, <1>10 DEF Recording, Announcing

LEMMA RecordBearerKeeps ==
    ASSUME QuorumInv, NEW s \in Subjects, RecordBearer(s)
    PROVE  Recording'
<1>0. PICK event : event = [actor |-> s, initiator |-> FALSE,
                            reached |-> Reached, excluded |-> FALSE]
  OBVIOUS
<1>1. Recording
  BY DEF QuorumInv, RecordBearer, Fresh, Received, Verifying, Refused,
     Announcing, Recording, Accepted
<1>2. /\ Send(s, event) /\ s \in todo /\ todo' = todo \ {s}
      /\ UNCHANGED <<stage, body, caller, spent, seen, bearers, response>>
  BY <1>0 DEF RecordBearer
<1>3. clock \in 0..plafondParPhase /\ s \in bearers
  BY <1>1, <1>2 DEF Recording, Concluded
<1>4. EventBudget \in Nat /\ clock' \in 0..plafondParPhase
  BY <1>2, <1>3, SendInBudget
<1>5. /\ budgets' = [budgets EXCEPT ![s] = EventBudget]
      /\ journal' \subseteq journal \cup {event}
  BY <1>2 DEF Send
<1>6. /\ budgets' \in [Subjects \cup {Nobody} -> Nat]
      /\ budgets'[Nobody] = delaiAudit
  BY <1>1, <1>4, <1>5, QuorumAssumption DEF Recording, Audited
<1>7. Truthful(event)
  BY <1>0, <1>3 DEF Truthful
<1>8. Truthful(event)'
  BY <1>2, <1>7, TruthfulStays
<1>9. \A e \in journal : Truthful(e)'
  BY <1>1, <1>2, TruthfulStays DEF Recording, Audited
<1>10. Audited'
  BY <1>5, <1>6, <1>8, <1>9 DEF Audited
<1>11. Concluded'
  BY <1>1, <1>2, <1>4, ConcludedStays DEF Recording
<1> QED
  BY <1>1, <1>2, <1>10, <1>11 DEF Recording

LEMMA AnswerKeeps ==
    ASSUME QuorumInv, AnswerResult
    PROVE  Accepted'
<1>1. Recording
  BY DEF QuorumInv, AnswerResult, Fresh, Received, Verifying, Refused,
     Announcing, Recording, Accepted
<1>2. /\ stage' = "idle"
      /\ response' = [status |-> 200, reached |-> Reached, subjects |-> bearers]
      /\ todo = {} \/ clock >= plafondParPhase
      /\ UNCHANGED <<body, caller, clock, spent, seen, bearers, todo, budgets,
                     journal>>
  BY DEF AnswerResult, Reply, time, audit
<1>3. clock \in 0..plafondParPhase
  BY <1>1 DEF Recording, Concluded
<1>4. Concluded'
  BY <1>1, <1>2, <1>3, ConcludedStays DEF Recording
<1>5. Audited'
  BY <1>1, <1>2, TruthfulStays DEF Recording, Audited
<1>6. todo' # {} => clock' = plafondParPhase
  BY <1>2, <1>3, Budgets
<1>7. /\ response'.status = 200 /\ response'.reached = Reached
      /\ response'.subjects = bearers
  BY <1>2
<1> QED
  BY <1>2, <1>4, <1>5, <1>6, <1>7, ReachedStays DEF Accepted

-----------------------------------------------------------------------------
LEMMA QuorumInvKeeps == QuorumInv /\ [QuorumNext]_handler => QuorumInv'
<1> SUFFICES ASSUME QuorumInv, [QuorumNext]_handler PROVE QuorumInv'
  OBVIOUS
<1>1. CASE UNCHANGED handler \/ Disconnect \/ Answered
  BY <1>1, DisconnectKeeps DEF Answered
<1>2. CASE Receive
  BY <1>2, ReceiveKeeps DEF QuorumInv
<1>3. CASE Malformed
  BY <1>3, MalformedKeeps DEF QuorumInv
<1>4. CASE VerifyCaller \/ VerifyCallerFails
  BY <1>4, CallerKeeps DEF QuorumInv
<1>5. CASE VerifyBearer \/ VerifyBearerFails
  BY <1>5, BearerKeeps DEF QuorumInv
<1>6. CASE Conclude
  BY <1>6, ConcludeKeeps DEF QuorumInv
<1>7. CASE RecordInitiator
  BY <1>7, InitiatorKeeps DEF QuorumInv
<1>8. ASSUME NEW s \in Subjects, RecordBearer(s) PROVE QuorumInv'
  BY <1>8, RecordBearerKeeps DEF QuorumInv
<1>9. CASE AnswerResult
  BY <1>9, AnswerKeeps DEF QuorumInv
<1> QED
  BY <1>1, <1>2, <1>3, <1>4, <1>5, <1>6, <1>7, <1>8, <1>9
     DEF QuorumNext, HandlerStep

LEMMA QuorumInvHolds == QuorumSpec => []QuorumInv
BY QuorumInvInit, QuorumInvKeeps, PTL DEF QuorumSpec

(* The bearers counted are the independent ones.                           *)
LEMMA BearersAreIndependent ==
    ASSUME Concluded
    PROVE  /\ bearers = Independent
           /\ caller.subject \in seen <=>
                 \E i \in DOMAIN body.assertions :
                    body.assertions[i] = caller.subject
<1>1. /\ DOMAIN body.assertions = 1..Len(body.assertions)
      /\ caller.subject \in Subjects
  BY BodyFields DEF Concluded, Authenticated
<1> QED
  BY <1>1 DEF Concluded, Proven, Independent

(* Whatever the assertions presented, their order and their repetitions,   *)
(* an answer 200 counts each independent bearer once, and the initiator    *)
(* never (quorum.go VerifyQuorum, handler.go excludeInitiator).            *)
THEOREM IndependentQuorum == QuorumSpec => []QuorumIsIndependent
<1>1. ASSUME QuorumInv PROVE QuorumIsIndependent
  <2>1. CASE response.status # 200
    BY <2>1 DEF QuorumIsIndependent
  <2>2. CASE response.status = 200
    <3>1. Accepted
      BY <1>1, <2>2, Refusals DEF QuorumInv, Fresh, Received, Verifying, Refused,
         Announcing, Recording
    <3>2. response.subjects = Independent /\ bearers = Independent
      BY <3>1, BearersAreIndependent DEF Accepted
    <3>3. response.reached <=> Cardinality(Independent) >= body.threshold
      BY <3>1, <3>2 DEF Accepted, Reached
    <3> QED
      BY <3>1, <3>2, <3>3 DEF Accepted, Concluded, Authenticated,
         QuorumIsIndependent
  <2> QED
    BY <2>1, <2>2
<1> QED
  BY <1>1, QuorumInvHolds, PTL

(* For every value of the four budgets, the event of the initiator has its *)
(* own in full and the request ends in time (handler.go plafondParPhase).  *)
THEOREM KeptBudgets == QuorumSpec => []BudgetsAreKept
<1>1. ASSUME QuorumInv PROVE BudgetsAreKept
  <2>1. CASE Fresh \/ Received \/ Verifying \/ Refused
    <3>1. /\ stage # "events" /\ response.status # 200
          /\ budgets = NoBudget
      BY <2>1, Refusals DEF Fresh, Received, Verifying, Refused, Nothing
    <3>2. spent = 0 /\ clock \in 0..delaiEvaluation
      BY <2>1, Budgets DEF Fresh, Received, Verifying, Refused, Evaluating
    <3>3. spent + clock <= delaiEvaluation + plafondParPhase
      BY <3>2, Budgets
    <3>4. \A s \in Subjects : ~(budgets[s] > 0)
      BY <3>1 DEF NoBudget
    <3> QED
      BY <3>1, <3>3, <3>4 DEF BudgetsAreKept
  <2>2. CASE Announcing \/ Recording \/ Accepted
    <3>1. spent \in 0..delaiEvaluation /\ clock \in 0..plafondParPhase
      BY <2>2 DEF Announcing, Recording, Accepted, Concluded
    <3>2. spent + clock <= delaiEvaluation + plafondParPhase
      BY <3>1, Budgets
    <3>3. CASE Announcing
      <4>1. \A s \in Subjects : ~(budgets[s] > 0)
        BY <3>3 DEF Announcing, Nothing, NoBudget
      <4>2. stage # "events" /\ response.status # 200
        BY <3>3, Refusals DEF Announcing
      <4> QED
        BY <3>2, <4>1, <4>2 DEF BudgetsAreKept
    <3>4. CASE Recording \/ Accepted
      <4>1. budgets[Nobody] = delaiAudit
        BY <3>4 DEF Recording, Accepted, Audited
      <4>2. response.status = 200 /\ todo # {} => clock = plafondParPhase
        BY <3>4, Refusals DEF Recording, Accepted
      <4> QED
        BY <3>2, <4>1, <4>2 DEF BudgetsAreKept
    <3> QED
      BY <2>2, <3>3, <3>4
  <2> QED
    BY <1>1, <2>1, <2>2 DEF QuorumInv
<1> QED
  BY <1>1, QuorumInvHolds, PTL

(* The events of a request agree with its answer and with the assertions   *)
(* presented (handler.go recordQuorumInitiator, recordQuorumOperation).    *)
THEOREM TruthfulEvents == QuorumSpec => []EventsAreTruthful
<1>1. ASSUME QuorumInv PROVE EventsAreTruthful
  <2>1. CASE Fresh \/ Received \/ Verifying \/ Refused \/ Announcing
    BY <2>1 DEF Fresh, Received, Verifying, Refused, Announcing, Nothing,
       EventsAreTruthful
  <2>2. CASE Recording \/ Accepted
    <3>1. Concluded /\ \A e \in journal : Truthful(e)
      BY <2>2 DEF Recording, Accepted, Audited
    <3>2. /\ response.status \in {0, 200}
          /\ response.status = 200 => response.reached = Reached
      BY <2>2, Refusals DEF Recording, Accepted
    <3> QED
      BY <3>1, <3>2, BearersAreIndependent DEF EventsAreTruthful, Truthful
  <2> QED
    BY <1>1, <2>1, <2>2 DEF QuorumInv
<1> QED
  BY <1>1, QuorumInvHolds, PTL
=============================================================================
