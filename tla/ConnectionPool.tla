--------------------------- MODULE ConnectionPool ---------------------------
(***************************************************************************)
(* The lazy, bounded pool of MySQL connections and its leases              *)
(* (platform/mysql.py), over the driver's own pool, which is external.     *)
(* Whoever wants a connection waits for the pool to be created, then for a *)
(* connection until a timeout; close may come at any point in between.     *)
(***************************************************************************)
EXTENDS Integers, FiniteSets

CONSTANTS
    Callers,    \* coroutines that want a connection
    MinSize,    \* min_size
    MaxSize,    \* max_size
    NoHolder    \* the lock of the pool's creation is free

ASSUME PoolAssumption ==
    /\ IsFiniteSet(Callers)
    /\ MinSize \in Nat /\ MaxSize \in Nat \ {0} /\ MinSize <= MaxSize
    /\ NoHolder \notin Callers

VARIABLES
    caller,    \* what a coroutine waits for or holds
    holder,    \* who creates the pool: _initializing
    pool,      \* the driver's pool is not there yet, open, closing or closed
    free,      \* its connections at rest
    used,      \* its connections given out
    shut,      \* _closed
    active,    \* _active_leases
    waiting    \* _pending_acquires

driverVars == <<pool, free, used>>
poolVars == <<caller, holder, driverVars, shut, active, waiting>>

PoolInit ==
    /\ caller = [c \in Callers |-> "IDLE"]
    /\ holder = NoHolder
    /\ pool = "NONE"
    /\ free = 0 /\ used = 0
    /\ shut = FALSE
    /\ active = 0 /\ waiting = 0

AtMostDown(n) == IF n = 0 THEN 0 ELSE n - 1

Become(c, state) == caller' = [caller EXCEPT ![c] = state]

\* The call raises, and its finally clause runs.
GiveUp(c) == Become(c, "IDLE") /\ waiting' = AtMostDown(waiting)

-----------------------------------------------------------------------------
(* __call__ and _ensure_pool.                                              *)

\* A closed pool refuses at once.
Ask(c) ==
    /\ caller[c] = "IDLE"
    /\ ~shut
    /\ Become(c, IF pool = "NONE" THEN "ENSURE" ELSE "ACQUIRE")
    /\ waiting' = waiting + 1
    /\ UNCHANGED <<holder, driverVars, shut, active>>

\* No other caller has created the pool meanwhile.
Missing == pool = "NONE"

\* Behind the lock everything is looked at again.
Ensure(c) ==
    /\ caller[c] = "ENSURE"
    /\ holder = NoHolder
    /\ \/ shut /\ GiveUp(c) /\ UNCHANGED holder
       \/ ~shut /\ ~Missing /\ Become(c, "ACQUIRE") /\ UNCHANGED <<holder, waiting>>
       \/ ~shut /\ Missing /\ Become(c, "CREATE") /\ holder' = c /\ UNCHANGED waiting
    /\ UNCHANGED <<driverVars, shut, active>>

\* A caller that waits for the lock is cancelled, as callers with a deadline are.
Cancelled(c) ==
    /\ caller[c] = "ENSURE"
    /\ GiveUp(c)
    /\ UNCHANGED <<holder, driverVars, shut, active>>

\* create_pool opens min_size connections, or fails; the lock is free again.
CreatePool(c) ==
    /\ caller[c] = "CREATE"
    /\ \/ /\ pool' = "OPEN" /\ free' = MinSize
          /\ Become(c, "ACQUIRE")
          /\ UNCHANGED <<used, waiting>>
       \/ GiveUp(c) /\ UNCHANGED driverVars
    /\ holder' = NoHolder
    /\ UNCHANGED <<shut, active>>

\* The driver gives a connection at rest, or a new one.
Acquire(c) ==
    /\ caller[c] = "ACQUIRE"
    /\ pool \in {"OPEN", "CLOSING"}
    /\ \/ free > 0 /\ free' = free - 1
       \/ free = 0 /\ used < MaxSize /\ UNCHANGED free
    /\ used' = used + 1
    /\ Become(c, "GOT")
    /\ UNCHANGED <<holder, pool, shut, active, waiting>>

\* The timeout passes, no connection can be opened, the driver is closing, or
\* the caller is cancelled.
AcquireFails(c) ==
    /\ caller[c] = "ACQUIRE"
    /\ GiveUp(c)
    /\ UNCHANGED <<holder, driverVars, shut, active>>

\* The driver takes a connection back: to rest, or away if it is closing or
\* the connection is of no use any more.
TakeBack ==
    /\ used' = used - 1
    /\ \/ pool = "OPEN" /\ free' = free + 1
       \/ UNCHANGED free
    /\ UNCHANGED pool

\* Mutant: close is not looked for again.
NotShutBefore(c) == FALSE

\* The pool was closed while the call waited.
ShutMeanwhile(c) == shut

\* Mutant: the call raises with its connection.
LeavesWithIt(c) == UNCHANGED driverVars

\* What the call got meanwhile goes back.
HandsBack(c) == TakeBack

\* The call goes on with its connection.
Lease(c) ==
    /\ caller[c] = "GOT"
    /\ waiting' = AtMostDown(waiting)
    /\ \/ ShutMeanwhile(c) /\ Become(c, "IDLE") /\ HandsBack(c) /\ UNCHANGED active
       \/ ~ShutMeanwhile(c) /\ Become(c, "LEASED") /\ active' = active + 1 /\ UNCHANGED driverVars
    /\ UNCHANGED <<holder, shut>>

-----------------------------------------------------------------------------
(* PooledConnectionLease.close and close.                                  *)

\* Mutant: every close of a lease is counted.
NeverReleased(c) == FALSE

Released(c) == caller[c] = "RELEASED"

\* A lease may be closed again, which does nothing.
CloseLease(c) ==
    /\ caller[c] \in {"LEASED", "RELEASED"}
    /\ ~Released(c)
    /\ Become(c, "RELEASED")
    /\ IF caller[c] = "LEASED" THEN TakeBack ELSE UNCHANGED driverVars
    /\ active' = AtMostDown(active)
    /\ UNCHANGED <<holder, shut, waiting>>

Forget(c) ==
    /\ caller[c] = "RELEASED"
    /\ Become(c, "IDLE")
    /\ UNCHANGED <<holder, driverVars, shut, active, waiting>>

\* close waits for the creation under way, and closes what is at rest.
ClosePool ==
    /\ ~shut
    /\ holder = NoHolder
    /\ shut' = TRUE
    /\ pool' = IF pool = "NONE" THEN "CLOSED" ELSE "CLOSING"
    /\ free' = 0
    /\ UNCHANGED <<caller, holder, used, active, waiting>>

\* wait_closed: every connection came back.
PoolClosed ==
    /\ pool = "CLOSING"
    /\ used = 0
    /\ pool' = "CLOSED"
    /\ UNCHANGED <<caller, holder, free, used, shut, active, waiting>>

Use(c) ==
    \/ Ask(c) \/ Ensure(c) \/ Cancelled(c) \/ CreatePool(c) \/ Acquire(c) \/ AcquireFails(c)
    \/ Lease(c) \/ CloseLease(c) \/ Forget(c)

PoolNext == (\E c \in Callers : Use(c)) \/ ClosePool \/ PoolClosed

PoolSpec == PoolInit /\ [][PoolNext]_poolVars

\* Connecting and acquiring are timed, the event loop goes on, and whoever has
\* a lease closes it in the end.
PoolFairness ==
    /\ \A c \in Callers :
         /\ SF_poolVars(Ensure(c))
         /\ WF_poolVars(CreatePool(c))
         /\ WF_poolVars(Acquire(c) \/ AcquireFails(c))
         /\ WF_poolVars(Lease(c))
         /\ WF_poolVars(CloseLease(c))
    /\ WF_poolVars(PoolClosed)

-----------------------------------------------------------------------------
(* Properties.                                                             *)

In(states) == {c \in Callers : caller[c] \in states}

\* Every variable has its type, and there are never more connections than
\* max_size, however many callers wait.
PoolTypeOK ==
    /\ caller \in [Callers -> {"IDLE", "ENSURE", "CREATE", "ACQUIRE", "GOT", "LEASED", "RELEASED"}]
    /\ holder \in Callers \cup {NoHolder}
    /\ pool \in {"NONE", "OPEN", "CLOSING", "CLOSED"}
    /\ free \in Nat /\ used \in Nat /\ free + used <= MaxSize
    /\ shut \in BOOLEAN
    /\ active \in Nat /\ waiting \in Nat

\* The counters that snapshot shows are true after every failure, timeout,
\* repeated close and race with close: as many leases are active as are out,
\* as many acquires pending as are under way, and every connection given out
\* is with one caller.
PoolCountersTrue ==
    /\ active = Cardinality(In({"LEASED"}))
    /\ waiting = Cardinality(In({"ENSURE", "CREATE", "ACQUIRE", "GOT"}))
    /\ used = Cardinality(In({"GOT", "LEASED"}))

\* Once close has begun no lease is given out any more, not even to those who
\* were already waiting for one (__call__).
NoLeaseOnceShut == [][shut => {c \in Callers : caller'[c] = "LEASED"} \subseteq In({"LEASED"})]_poolVars

\* close ends, whoever was waiting for a connection when it began: what they
\* still get goes back (wait_closed).
PoolCloseEnds == shut ~> pool = "CLOSED"
=============================================================================
