------------------------------ MODULE HsmPool -------------------------------
(***************************************************************************)
(* zs-hsm: the pool of PKCS#11 sessions that every sealing goes through    *)
(* (pool.rs), a queue under a mutex with a condition variable.             *)
(*                                                                         *)
(* Each critical section and each PKCS#11 call is one step.  The token is  *)
(* external: it may lose a session at any time, after which every call on  *)
(* it fails with an error of session (SessionLost, NotLoggedIn,            *)
(* TokenAbsent), and any call may fail with another error.  Sessions are   *)
(* numbered in the order in which they are opened.                         *)
(***************************************************************************)
EXTENDS Integers, FiniteSets, Sequences

CONSTANTS Threads,    \* threads of the process that sign
          PoolSize,   \* pool_size
          MaxOpened   \* bound on the sessions opened over time

ASSUME PoolAssumption ==
    PoolSize \in Nat /\ MaxOpened \in Nat /\ PoolSize <= MaxOpened

VARIABLES sessions,    \* Inner.sessions
          pc,          \* pc[t]: where the thread t is in its call
          op,          \* op[t]: the call t makes or made last
          session,     \* session[t]: the session t has acquired, or 0
          deadline,    \* deadline[t]: acquire_timeout has elapsed
          reply,       \* reply[t]: the result of the call
          opened,      \* number of sessions opened
          lost,        \* sessions that the token has lost
          failed,      \* sessions on which a call returned an error of session
          closed,      \* sessions dropped (Session::drop closes them)
          signatures   \* signatures[t]: made by the token for the call of t

token == <<opened, lost>>
ghosts == <<failed, closed, signatures>>
vars == <<sessions, pc, op, session, deadline, reply, token, ghosts>>

-----------------------------------------------------------------------------
Waiting == {t \in Threads : pc[t] = "wait"}
Held == {session[t] : t \in Threads} \ {0}
InPool == {sessions[i] : i \in DOMAIN sessions}

(* SessionPool::open, when it succeeds.                                    *)
Init ==
    /\ sessions = [i \in 1..PoolSize |-> i]
    /\ pc = [t \in Threads |-> "idle"]
    /\ op = [t \in Threads |-> "sign_digest"]
    /\ session = [t \in Threads |-> 0]
    /\ deadline = [t \in Threads |-> FALSE]
    /\ reply = [t \in Threads |-> "none"]
    /\ opened = PoolSize
    /\ lost = {}
    /\ failed = {}
    /\ closed = {}
    /\ signatures = [t \in Threads |-> 0]

Goto(t, p) == pc' = [pc EXCEPT ![t] = p]
Result(t, r) == reply' = [reply EXCEPT ![t] = r]

(* The token invalidates a session, in the pool or in use.                 *)
LoseSession ==
    /\ \E s \in (InPool \cup Held) \ lost : lost' = lost \cup {s}
    /\ UNCHANGED <<sessions, pc, op, session, deadline, reply, opened, ghosts>>

-----------------------------------------------------------------------------
(* sign_digest, public_key: a call enters acquire.                         *)
Call(t, o) ==
    /\ pc[t] = "idle"
    /\ op' = [op EXCEPT ![t] = o]
    /\ deadline' = [deadline EXCEPT ![t] = FALSE]
    /\ signatures' = [signatures EXCEPT ![t] = 0]
    /\ Goto(t, "acquire")
    /\ Result(t, "none")
    /\ UNCHANGED <<sessions, session, token, failed, closed>>

(* Mutant: the session is taken and stays at the front of the queue.       *)
AcquireFront(t) ==
    /\ pc[t] = "acquire"
    /\ sessions # <<>>
    /\ session' = [session EXCEPT ![t] = Head(sessions)]
    /\ Goto(t, "find_key")
    /\ UNCHANGED <<sessions, op, deadline, reply, token, ghosts>>

Acquire(t) ==
    /\ pc[t] = "acquire"
    /\ sessions # <<>>
    /\ session' = [session EXCEPT ![t] = Head(sessions)]
    /\ sessions' = Tail(sessions)
    /\ Goto(t, "find_key")
    /\ UNCHANGED <<op, deadline, reply, token, ghosts>>

(* Empty, and time remains: available.wait_timeout.                        *)
Wait(t) ==
    /\ pc[t] = "acquire"
    /\ sessions = <<>>
    /\ ~deadline[t]
    /\ Goto(t, "wait")
    /\ UNCHANGED <<sessions, op, session, deadline, reply, token, ghosts>>

(* Mutant: no test of the time that remains.                               *)
ExhaustedWaits(t) ==
    /\ pc[t] = "acquire"
    /\ sessions = <<>>
    /\ deadline[t]
    /\ Goto(t, "wait")
    /\ UNCHANGED <<sessions, op, session, deadline, reply, token, ghosts>>

Exhausted(t) ==
    /\ pc[t] = "acquire"
    /\ sessions = <<>>
    /\ deadline[t]
    /\ Goto(t, "idle")
    /\ Result(t, "PoolExhausted")
    /\ UNCHANGED <<sessions, op, session, deadline, token, ghosts>>

(* wait_timeout returns at the deadline, or for no reason.                 *)
WakeUp(t) ==
    /\ pc[t] = "wait"
    /\ Goto(t, "acquire")
    /\ UNCHANGED <<sessions, op, session, deadline, reply, token, ghosts>>

DeadlinePasses(t) ==
    /\ pc[t] \in {"acquire", "wait"}
    /\ ~deadline[t]
    /\ deadline' = [deadline EXCEPT ![t] = TRUE]
    /\ UNCHANGED <<sessions, pc, op, session, reply, token, ghosts>>

-----------------------------------------------------------------------------
(* release: the session goes to the back of the queue; the notification    *)
(* comes once the lock is released.                                        *)
Release(t) ==
    /\ sessions' = Append(sessions, session[t])
    /\ session' = [session EXCEPT ![t] = 0]
    /\ Goto(t, "notify")
    /\ UNCHANGED closed

(* notify_one wakes one of the threads that wait, if any.                  *)
NotifyOne(t) ==
    /\ pc[t] = "notify"
    /\ \/ /\ Waiting = {}
          /\ Goto(t, "idle")
       \/ \E u \in Waiting : pc' = [pc EXCEPT ![t] = "idle", ![u] = "acquire"]
    /\ UNCHANGED <<sessions, op, session, deadline, reply, token, ghosts>>

(* The session is dropped, which closes it.                                *)
Drop(t) ==
    /\ closed' = closed \cup {session[t]}
    /\ session' = [session EXCEPT ![t] = 0]

(* handle_operation_failure: evicted on an error of session only.          *)
HandleOperationFailure(t) ==
    IF session[t] \in lost
    THEN Drop(t) /\ Goto(t, "reopen") /\ UNCHANGED sessions
    ELSE Release(t)

(* A call on a session that is lost returns an error of session.           *)
NoteFailure(t) == failed' = failed \cup ({session[t]} \cap lost)

(* find_key: the object is found, once.                                    *)
FindKey(t) ==
    /\ pc[t] = "find_key"
    /\ session[t] \notin lost
    /\ Goto(t, "use")
    /\ UNCHANGED <<sessions, op, session, deadline, reply, token, ghosts>>

(* find_key fails in sign_digest: `?` returns and drops the session.       *)
SignFindKeyFails(t) ==
    /\ pc[t] = "find_key"
    /\ op[t] = "sign_digest"
    /\ NoteFailure(t)
    /\ Drop(t)
    /\ Goto(t, "idle")
    /\ Result(t, "error")
    /\ UNCHANGED <<sessions, op, deadline, token, signatures>>

(* find_key fails in public_key: the session is released, lost or not.     *)
PublicKeyFindKeyFails(t) ==
    /\ pc[t] = "find_key"
    /\ op[t] = "public_key"
    /\ NoteFailure(t)
    /\ Release(t)
    /\ Result(t, "error")
    /\ UNCHANGED <<op, deadline, token, signatures>>

(* C_Sign or C_GetAttributeValue returns what was asked.                   *)
Signed(t) == signatures' =
    [signatures EXCEPT ![t] = IF op[t] = "sign_digest" THEN @ + 1 ELSE @]

UseSucceeds(t) ==
    /\ pc[t] = "use"
    /\ session[t] \notin lost
    /\ Signed(t)
    /\ Release(t)
    /\ Result(t, "ok")
    /\ UNCHANGED <<op, deadline, token, failed>>

(* Mutant: the operation is tried again on the session.                    *)
UseFailsRetries(t) ==
    /\ pc[t] = "use"
    /\ Signed(t) \/ UNCHANGED signatures
    /\ NoteFailure(t)
    /\ UNCHANGED <<sessions, pc, op, session, deadline, reply, token, closed>>

(* It returns an error; a signature may have been made and not received.   *)
UseFails(t) ==
    /\ pc[t] = "use"
    /\ Signed(t) \/ UNCHANGED signatures
    /\ NoteFailure(t)
    /\ HandleOperationFailure(t)
    /\ Result(t, "error")
    /\ UNCHANGED <<op, deadline, token>>

(* Mutant: the new session is pushed, and no thread is notified.           *)
ReplenishSilently(t) ==
    /\ pc[t] = "reopen"
    /\ opened < MaxOpened
    /\ opened' = opened + 1
    /\ sessions' = Append(sessions, opened + 1)
    /\ Goto(t, "idle")
    /\ UNCHANGED <<op, session, deadline, reply, lost, ghosts>>

(* evict_and_replenish: a new session is opened, logged in and released.   *)
Replenish(t) ==
    /\ pc[t] = "reopen"
    /\ opened < MaxOpened
    /\ opened' = opened + 1
    /\ sessions' = Append(sessions, opened + 1)
    /\ Goto(t, "notify")
    /\ UNCHANGED <<op, session, deadline, reply, lost, ghosts>>

ReplenishFails(t) ==
    /\ pc[t] = "reopen"
    /\ Goto(t, "idle")
    /\ UNCHANGED <<sessions, op, session, deadline, reply, token, ghosts>>

Step(t) ==
    \/ Acquire(t) \/ Wait(t) \/ Exhausted(t)
    \/ FindKey(t) \/ SignFindKeyFails(t) \/ PublicKeyFindKeyFails(t)
    \/ UseSucceeds(t) \/ UseFails(t)
    \/ Replenish(t) \/ ReplenishFails(t)
    \/ NotifyOne(t)

Next ==
    \/ LoseSession
    \/ \E t \in Threads :
          \/ \E o \in {"sign_digest", "public_key"} : Call(t, o)
          \/ Step(t)
          \/ WakeUp(t)
          \/ DeadlinePasses(t)

Spec == Init /\ [][Next]_vars

(* A thread runs, a clock advances, and wait_timeout returns once the      *)
(* deadline has passed.                                                    *)
FairSpec ==
    /\ Spec
    /\ \A t \in Threads : /\ WF_vars(Step(t))
                          /\ WF_vars(DeadlinePasses(t))
                          /\ WF_vars(WakeUp(t) /\ deadline[t])

-----------------------------------------------------------------------------
(* A session is in one place: in the pool once, or with one thread, or     *)
(* closed, so that PKCS#11 calls of two threads never meet on a session;   *)
(* and never more than pool_size sessions are open (ADR-011: pool_size is  *)
(* checked against the limit of the token at the start only), although     *)
(* sessions are evicted and opened again concurrently (pool.rs:112-157).   *)
SessionIsExclusive ==
    /\ \A i, j \in DOMAIN sessions : sessions[i] = sessions[j] => i = j
    /\ \A t, u \in Threads : session[t] = session[u] /\ t # u => session[t] = 0
    /\ InPool \cap Held = {}
    /\ (1..opened) \ closed = InPool \cup Held
    /\ Len(sessions) + Cardinality(Held) <= PoolSize

(* No thread sleeps beside a session that is free and forgotten: as long   *)
(* as a thread sleeps, every free session has a thread about to take one   *)
(* or to notify (pool.rs:113-132, 139-143).                                *)
NoLostWakeup ==
    LET active == {t \in Threads : pc[t] \in {"acquire", "notify"}}
    IN Waiting = {} \/ Cardinality(active) >= Len(sessions)

(* ADR-011, pool.rs:176-177: a call makes at most one signature, whatever  *)
(* fails, and exactly one when it returns it.                              *)
OneSignaturePerCall ==
    \A t \in Threads :
        /\ signatures[t] <= 1
        /\ op[t] = "sign_digest" /\ reply[t] = "ok" => signatures[t] = 1

(* Every call returns, at worst PoolExhausted (pool.rs:109-111), whatever  *)
(* is left of the pool.                                                    *)
EveryCallReturns == \A t \in Threads : pc[t] # "idle" ~> pc[t] = "idle"

(* pool.rs:9-10 and ADR-011: sessions die on an error of session only.     *)
SessionsDieOnErrorOnly == closed \subseteq failed
=============================================================================
