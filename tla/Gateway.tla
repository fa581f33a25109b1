------------------------------- MODULE Gateway -------------------------------
(***************************************************************************)
(* The two guards that an order passes on its way to one broker: the       *)
(* sliding window of the rate limiter (rate_limit/service.py) and the      *)
(* session, refreshed under a lock (sessions/service.py).  Both are kept   *)
(* in Redis, where a call may come between two others and locks expire, or *)
(* in the memory of the one process (providers/memory.py), as two settings *)
(* say.  Administrators call sessions/ensure on the same session.          *)
(*                                                                         *)
(* Two calls get two members of the window, whatever the clock says, and   *)
(* requests for brokers that are missing or disabled end before the lock.  *)
(*                                                                         *)
(* The window is the number of calls in it, the lock the task whose token  *)
(* it holds, and a session the number of the tokens in its row.            *)
(***************************************************************************)
EXTENDS Naturals, FiniteSets

CONSTANTS
    Tasks,     \* requests in progress at one time
    Limit,     \* calls a window may hold
    MaxTokens, \* bound: tokens the broker issues
    MaxFaults, \* bound: requests that die
    None

ASSUME GatewayAssumption ==
    /\ IsFiniteSet(Tasks) /\ Tasks # {} /\ None \notin Tasks
    /\ Limit \in Nat \ {0} /\ MaxTokens \in Nat /\ MaxFaults \in Nat

VARIABLES
    locks,   \* lock_provider of the settings
    limits,  \* rate_limit_provider of the settings
    window,  \* members of rl:broker:{id} that are younger than the window
    session, \* the broker_sessions row
    issued,  \* tokens the broker has issued
    lock,    \* lock:session:{id}
    late,    \* tasks that went on after their lock had expired: ghost
    byLate,  \* one of those wrote the row: ghost
    task,
    faults

vars == <<locks, limits, window, session, issued, lock, late, byLate, task, faults>>

NoSession == [status |-> "none", token |-> 0]
Idle      == [at |-> "idle", force |-> FALSE, read |-> NoSession, token |-> 0]
Inside    == {t \in Tasks : task[t].at \in {"read", "login", "save", "release"}}

\* Settings are read once, when the provider manager is first asked.
Backends == {"redis", "memory"}

Init ==
    /\ locks \in Backends /\ limits \in Backends
    /\ window  = 0
    /\ session = NoSession
    /\ issued  = 0
    /\ lock    = None
    /\ late    = {}
    /\ byLate  = FALSE
    /\ task    = [t \in Tasks |-> Idle]
    /\ faults  = 0

Go(t, at) == task' = [task EXCEPT ![t].at = at]
End(t)    == task' = [task EXCEPT ![t] = Idle]
-----------------------------------------------------------------------------
(* The limiter: Redis counts in one call and extends in another, memory    *)
(* does both at once.                                                      *)

\* Mutant: one call more.
RoomForOneMore == window <= Limit
Allowed        == window < Limit

Order(t) ==
    /\ task[t].at = "idle"
    /\ Go(t, "count")
    /\ UNCHANGED <<locks, limits, window, session, issued, lock, late, byLate, faults>>

Count(t) ==
    /\ limits = "redis"
    /\ task[t].at = "count"
    /\ IF Allowed THEN Go(t, "add") ELSE End(t)
    /\ UNCHANGED <<locks, limits, window, session, issued, lock, late, byLate, faults>>

Add(t) ==
    /\ task[t].at = "add"
    /\ window' = window + 1
    /\ Go(t, "lock")
    /\ UNCHANGED <<locks, limits, session, issued, lock, late, byLate, faults>>

CountInMemory(t) ==
    /\ limits = "memory"
    /\ task[t].at = "count"
    /\ IF Allowed THEN Go(t, "lock") /\ window' = window + 1
       ELSE End(t) /\ UNCHANGED window
    /\ UNCHANGED <<locks, limits, session, issued, lock, late, byLate, faults>>

Slide ==
    /\ window > 0
    /\ window' = window - 1
    /\ UNCHANGED <<locks, limits, session, issued, lock, late, task, byLate, faults>>
-----------------------------------------------------------------------------
(* SessionService.ensure.                                                  *)

Ensure(t, force) ==
    /\ task[t].at = "idle"
    /\ task' = [task EXCEPT ![t].at = "lock", ![t].force = force]
    /\ UNCHANGED <<locks, limits, window, session, issued, lock, late, byLate, faults>>

\* Mutant: what acquire returns is not looked at.
NotLookedAt == TRUE
Free        == lock = None

Acquire(t) ==
    /\ task[t].at = "lock" /\ Free
    /\ lock' = t
    /\ Go(t, "read")
    /\ UNCHANGED <<locks, limits, window, session, issued, late, byLate, faults>>

\* LOCK_CONTENTION, be the session valid or not.
Contended(t) ==
    /\ task[t].at = "lock" /\ ~Free
    /\ End(t)
    /\ UNCHANGED <<locks, limits, window, session, issued, lock, late, byLate, faults>>

Read(t) ==
    /\ task[t].at = "read"
    /\ task' = [task EXCEPT ![t].read = session,
                            ![t].at = IF session.status = "valid" /\ ~task[t].force
                                      THEN "release" ELSE "login"]
    /\ UNCHANGED <<locks, limits, window, session, issued, lock, late, byLate, faults>>

\* refresh_session or authenticate.
Login(t) ==
    /\ task[t].at = "login"
    /\ issued < MaxTokens
    /\ issued' = issued + 1
    /\ task' = [task EXCEPT ![t].at = "save", ![t].token = issued']
    /\ UNCHANGED <<locks, limits, window, session, lock, late, byLate, faults>>

LoginFails(t) ==
    /\ task[t].at = "login"
    /\ Go(t, "release")
    /\ UNCHANGED <<locks, limits, window, session, issued, lock, late, byLate, faults>>

\* A second first session is refused by the unique constraint.  Nothing reads
\* the copy that is put into the cache next.
Conflict(t) == task[t].read = NoSession /\ session # NoSession
Save(t) ==
    /\ task[t].at = "save"
    /\ session' = IF Conflict(t) THEN session
                  ELSE [status |-> "valid", token |-> task[t].token]
    /\ byLate' = IF Conflict(t) THEN byLate ELSE t \in late
    /\ Go(t, "release")
    /\ UNCHANGED <<locks, limits, window, issued, lock, late, faults>>

\* The lock goes only if it still holds the caller's token.  Mutant: a plain
\* delete.
LockDeleted(t) == None
LockAfter(t)   == IF lock = t THEN None ELSE lock
Release(t) ==
    /\ task[t].at = "release"
    /\ lock' = LockAfter(t)
    /\ late' = late \ {t}
    /\ End(t)
    /\ UNCHANGED <<locks, limits, window, session, issued, byLate, faults>>

\* The TTL ends, its owner being dead or slow; memory forgets no lock.
LateAfter   == IF lock \in Inside THEN late \cup {lock} ELSE late
LockExpires ==
    /\ locks = "redis"
    /\ lock # None
    /\ lock' = None
    /\ late' = LateAfter
    /\ UNCHANGED <<locks, limits, window, session, issued, task, byLate, faults>>

SessionExpires ==
    /\ session.status = "valid"
    /\ session' = [session EXCEPT !.status = "expired"]
    /\ UNCHANGED <<locks, limits, window, issued, lock, late, task, byLate, faults>>

\* The process dies, or Redis does at a call of this request: a lock it holds
\* in Redis stays until its TTL ends.
Dies(t) ==
    /\ \/ locks = "redis" /\ task[t].at # "idle"
       \/ limits = "redis" /\ task[t].at \in {"count", "add"}
    /\ faults < MaxFaults
    /\ faults' = faults + 1
    /\ late' = late \ {t}
    /\ End(t)
    /\ UNCHANGED <<locks, limits, window, session, issued, lock, byLate>>

\* The one process dies with what it keeps in its memory.
Restart ==
    /\ "memory" \in {locks, limits}
    /\ faults < MaxFaults
    /\ faults' = faults + 1
    /\ window' = IF limits = "memory" THEN 0 ELSE window
    /\ lock' = IF locks = "memory" THEN None ELSE lock
    /\ late' = {}
    /\ task' = [t \in Tasks |-> Idle]
    /\ UNCHANGED <<locks, limits, session, issued, byLate>>

Next ==
    \/ Slide \/ LockExpires \/ SessionExpires \/ Restart
    \/ \E t \in Tasks :
          \/ Order(t) \/ Count(t) \/ CountInMemory(t) \/ Add(t)
          \/ \E force \in BOOLEAN : Ensure(t, force)
          \/ Acquire(t) \/ Contended(t) \/ Read(t) \/ Login(t) \/ LoginFails(t)
          \/ Save(t) \/ Release(t) \/ Dies(t)

Spec == Init /\ [][Next]_vars
-----------------------------------------------------------------------------
TypeOK ==
    /\ locks \in Backends /\ limits \in Backends
    /\ window \in Nat
    /\ session \in [status : {"none", "valid", "expired"}, token : 0..MaxTokens]
    /\ issued \in 0..MaxTokens
    /\ lock \in Tasks \cup {None}
    /\ late \in SUBSET Tasks
    /\ byLate \in BOOLEAN
    /\ task \in [Tasks -> [at : {"idle", "count", "add", "lock", "read", "login", "save",
                                 "release"},
                           force : BOOLEAN, token : 0..MaxTokens,
                           read : [status : {"none", "valid", "expired"}, token : 0..MaxTokens]]]
    /\ faults \in 0..MaxFaults

\* In Redis, callers that count before any of them adds exceed the limit, but by
\* no more than there are of them; in memory nobody does.
LimitHolds ==
    IF limits = "memory" THEN window <= Limit ELSE window < Limit + Cardinality(Tasks)

\* Two requests refresh one session at the same time only if the lock of one
\* has expired; a late one that returns its lock never takes another's.
OneRefresher == \A t, u \in Inside : t = u \/ t \in late \/ u \in late

\* Newer tokens give way to older ones only if the save of one of the two came
\* from such a late request.
NewerTokensStay ==
    [][session'.token < session.token =>
          byLate \/ \E t \in late : task[t].at = "save"]_vars
=============================================================================
