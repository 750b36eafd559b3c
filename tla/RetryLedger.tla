---------------------------- MODULE RetryLedger ----------------------------
(***************************************************************************)
(* What the profile outbox promises to the rest of the system, without     *)
(* workers, leases, retries in the queue or an audit trail: every item is  *)
(* submitted once, tried at most MaxAttempts times, and either settles     *)
(* (DONE) or is given up (DEAD) for good, the latter only when all its     *)
(* tries were spent.  A user's profile moves to its next version only in   *)
(* the step that settles one of the user's items.                          *)
(***************************************************************************)
EXTENDS Integers

CONSTANTS
    Users,        \* readers with a profile
    Items,        \* outbox rows
    UserOf,       \* the reader of every item
    MaxAttempts   \* tries an item gets

VARIABLES
    state,        \* [Items -> {"NONE", "OPEN", "DONE", "DEAD"}]
    tries,        \* [Items -> Nat], tries started so far
    version       \* [Users -> Nat], the profile's version

ledgerVars == <<state, tries, version>>

Init ==
    /\ state = [e \in Items |-> "NONE"]
    /\ tries = [e \in Items |-> 0]
    /\ version = [u \in Users |-> 0]

\* A behaviour event enqueues its item.
Submit(e) ==
    /\ state[e] = "NONE"
    /\ state' = [state EXCEPT ![e] = "OPEN"]
    /\ UNCHANGED <<tries, version>>

\* One poll: the items of T start a new try, those of D are given up.
Round(T, D) ==
    /\ \A e \in T : state[e] = "OPEN" /\ tries[e] < MaxAttempts
    /\ \A e \in D : state[e] = "OPEN" /\ tries[e] = MaxAttempts
    /\ tries' = [e \in Items |-> IF e \in T THEN tries[e] + 1 ELSE tries[e]]
    /\ state' = [e \in Items |-> IF e \in D THEN "DEAD" ELSE state[e]]
    /\ UNCHANGED version

\* A try succeeds: the item is settled and the profile keeps its version
\* or moves to the next one.
Settle(e, step) ==
    /\ state[e] = "OPEN"
    /\ tries[e] > 0
    /\ state' = [state EXCEPT ![e] = "DONE"]
    /\ version' = [version EXCEPT ![UserOf[e]] = @ + step]
    /\ UNCHANGED tries

Next ==
    \/ \E e \in Items : Submit(e)
    \/ \E T, D \in SUBSET Items : Round(T, D)
    \/ \E e \in Items : \E step \in {0, 1} : Settle(e, step)

Spec == Init /\ [][Next]_ledgerVars
============================================================================
