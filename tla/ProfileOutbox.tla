--------------------------- MODULE ProfileOutbox ---------------------------
(***************************************************************************)
(* The profile outbox: behaviour events and their outbox rows are appended *)
(* by the API (profile/adapters/behavior_mysql.py), workers claim rows     *)
(* under a lease, replay the user's events into a new profile version and  *)
(* mark the row (profile/application/refresh.py, worker.py and             *)
(* profile/adapters/refresh_mysql.py), and every change of a row appends   *)
(* an audit fact whose version number is unique per row                    *)
(* (observability/adapters/mysql_transition.py).                           *)
(*                                                                         *)
(* One action is one committed transaction, or the read that opens one.    *)
(* An outbox row is named by its source event; numbers order the rows.     *)
(***************************************************************************)
EXTENDS Integers, FiniteSets

CONSTANTS
    Users,            \* readers
    Events,           \* behaviour events, numbered in row order
    Enqueued,         \* events appended with enqueue_profile_update
    UserOf,           \* [Events -> Users]
    TimeOf,           \* [Events -> Nat], occurred_at
    Workers,          \* worker processes
    MaxAttempts,      \* worker_max_attempts
    BatchLimit,       \* worker_batch_limit
    LeaseCoversWork,  \* TRUE: no lease runs out while its holder is alive
    NoWorker,         \* locked_by IS NULL
    NoJob             \* no apply transaction is open

ASSUME OutboxAssumption ==
    /\ Events \subseteq Nat
    /\ Enqueued \subseteq Events
    /\ UserOf \in [Events -> Users]
    /\ TimeOf \in [Events -> Nat]
    /\ MaxAttempts \in Nat \ {0}
    /\ BatchLimit \in Nat \ {0}
    /\ LeaseCoversWork \in BOOLEAN
    /\ NoWorker \notin Workers

VARIABLES
    log,        \* events in user_behavior_event
    status,     \* row status; "NONE" before the row exists
    attempts,   \* attempts counter of the row
    lockedBy,   \* locked_by
    ripe,       \* next_retry_at reached (PENDING) or lease over (PROCESSING)
    trail,      \* audit facts of the row
    profile,    \* user_profile: version and the events it was computed from
    replays,    \* profile_replay_run rows of the user
    phase,      \* where each worker process stands
    todo,       \* claims the worker still has to work off
    job         \* what the open apply transaction of the worker has read

rowVars == <<status, attempts, lockedBy, ripe, trail>>
projectionVars == <<profile, replays>>
workerVars == <<phase, todo, job>>
vars == <<log, rowVars, projectionVars, workerVars>>

Open == {"PENDING", "PROCESSING"}
Settled == {"DONE", "DEAD"}
Phases == {"READY", "APPLYING", "ABORTED", "DOWN"}

Init ==
    /\ log = {}
    /\ status = [e \in Enqueued |-> "NONE"]
    /\ attempts = [e \in Enqueued |-> 0]
    /\ lockedBy = [e \in Enqueued |-> NoWorker]
    /\ ripe = [e \in Enqueued |-> FALSE]
    /\ trail = [e \in Enqueued |-> {}]
    /\ profile = [u \in Users |-> [version |-> 0, seen |-> {}]]
    /\ replays = [u \in Users |-> {}]
    /\ phase = [w \in Workers |-> "READY"]
    /\ todo = [w \in Workers |-> {}]
    /\ job = [w \in Workers |-> NoJob]

-----------------------------------------------------------------------------
(* The audit trail of a row.  A claim takes version 2 * attempts, every    *)
(* outcome of that attempt competes for version 2 * attempts + 1.          *)

ClaimVersion(a) == 2 * a
OutcomeVersion(a) == 2 * a + 1

Fact(version, type, from, to) ==
    [version |-> version, type |-> type, from |-> from, to |-> to]

\* Mutant: the read after the INSERT IGNORE is missing.
AcceptsAnyFact(facts, fact) == fact.version >= 0

\* INSERT IGNORE under the unique (aggregate, version) key, then a read by
\* uuid: the same fact again is accepted, another fact there raises.
Appendable(facts, fact) ==
    \A f \in facts : f.version = fact.version => f = fact

CreatedFact == Fact(OutcomeVersion(0), "CREATED", "NONE", "PENDING")
\* Mutant: a claim that records the state claims usually start from.
ClaimFactFromPending(e) == Fact(ClaimVersion(attempts[e] + 1), "CLAIMED", "PENDING", "PROCESSING")
ClaimFact(e) == Fact(ClaimVersion(attempts[e] + 1), "CLAIMED", status[e], "PROCESSING")
DeadFact(e) == Fact(OutcomeVersion(attempts[e]), "MARK_DEAD", status[e], "DEAD")
DoneFact(e) == Fact(OutcomeVersion(attempts[e]), "MARK_DONE", status[e], "DONE")
FailedFact(e, to) == Fact(OutcomeVersion(attempts[e]), "MARK_FAILED", status[e], to)

-----------------------------------------------------------------------------
(* The API.                                                                *)

\* append_behavior: the event and, if asked for, its row and first fact.
\* Appending the same event again finds everything there and changes nothing.
AppendBehavior(e) ==
    /\ e \notin log
    /\ log' = log \cup {e}
    /\ IF e \in Enqueued
         THEN /\ status' = [status EXCEPT ![e] = "PENDING"]
              /\ ripe' = [ripe EXCEPT ![e] = TRUE]
              /\ trail' = [trail EXCEPT ![e] = @ \cup {CreatedFact}]
              /\ UNCHANGED <<attempts, lockedBy>>
         ELSE UNCHANGED rowVars
    /\ UNCHANGED <<projectionVars, workerVars>>

-----------------------------------------------------------------------------
(* Time.                                                                   *)

Held(e) == status[e] = "PROCESSING" /\ \E w \in Workers : \E c \in todo[w] : c.row = e

\* The retry delay or the lease of a row runs out.
TimePasses(e) ==
    /\ status[e] \in Open
    /\ ~ripe[e]
    /\ LeaseCoversWork => ~Held(e)
    /\ ripe' = [ripe EXCEPT ![e] = TRUE]
    /\ UNCHANGED <<log, status, attempts, lockedBy, trail, projectionVars, workerVars>>

-----------------------------------------------------------------------------
(* The worker: claim_pending.                                              *)

Exhausted == {e \in Enqueued : status[e] \in Open /\ attempts[e] >= MaxAttempts}

\* Mutant: an expired lease is not claimed again.
PendingOnly == {e \in Enqueued : status[e] = "PENDING" /\ ripe[e] /\ attempts[e] < MaxAttempts}

Claimable ==
    {e \in Enqueued : status[e] \in Open /\ ripe[e] /\ attempts[e] < MaxAttempts}

\* ORDER BY id LIMIT BatchLimit
Batch == {e \in Claimable : Cardinality({f \in Claimable : f < e}) < BatchLimit}

PollAppendable ==
    /\ \A e \in Exhausted : Appendable(trail[e], DeadFact(e))
    /\ \A e \in Batch : Appendable(trail[e], ClaimFact(e))

Idle(w) == phase[w] = "READY" /\ todo[w] = {}

\* Rows with no attempt left are given up, whoever holds them; the first
\* ripe rows are claimed.  (A poll that finds nothing changes nothing.)
Poll(w) ==
    /\ Idle(w)
    /\ Exhausted \cup Batch # {}
    /\ PollAppendable
    /\ status' = [e \in Enqueued |-> IF e \in Exhausted THEN "DEAD"
                                     ELSE IF e \in Batch THEN "PROCESSING"
                                     ELSE status[e]]
    /\ attempts' = [e \in Enqueued |-> IF e \in Batch THEN attempts[e] + 1 ELSE attempts[e]]
    /\ lockedBy' = [e \in Enqueued |-> IF e \in Exhausted THEN NoWorker
                                       ELSE IF e \in Batch THEN w
                                       ELSE lockedBy[e]]
    /\ ripe' = [e \in Enqueued |-> ripe[e] /\ e \notin Exhausted \cup Batch]
    /\ trail' = [e \in Enqueued |-> IF e \in Exhausted THEN trail[e] \cup {DeadFact(e)}
                                    ELSE IF e \in Batch THEN trail[e] \cup {ClaimFact(e)}
                                    ELSE trail[e]]
    /\ todo' = [todo EXCEPT ![w] = {[row |-> e, attempt |-> attempts[e] + 1] : e \in Batch}]
    /\ UNCHANGED <<log, projectionVars, phase, job>>

\* claim_pending raises: the whole poll is rolled back and run_worker lets
\* the exception end the process.
PollConflict(w) ==
    /\ Idle(w)
    /\ ~PollAppendable
    /\ phase' = [phase EXCEPT ![w] = "DOWN"]
    /\ UNCHANGED <<log, rowVars, projectionVars, todo, job>>

-----------------------------------------------------------------------------
(* The worker: apply_claim and mark_done, one transaction per claim.       *)

\* The claims are worked off in row order.
Heads(w) == {c \in todo[w] : \A d \in todo[w] : c.row <= d.row}

\* Mutant: the source event itself is not read.
EventsBefore(u, time) == {e \in log : UserOf[e] = u /\ TimeOf[e] < time}

EventsUpTo(u, time) == {e \in log : UserOf[e] = u /\ TimeOf[e] <= time}

ReplayVersions(u) == {r.version : r \in replays[u]}

SameInput(r, asOf, seen) == r.asOf = asOf /\ r.seen = seen

\* The transaction's snapshot: the user's events up to the source event's
\* time, a replay already recorded for that very input, and otherwise the
\* version after the highest one in use.
BeginApply(w) ==
    /\ phase[w] = "READY"
    /\ \E c \in Heads(w) :
         LET u == UserOf[c.row]
             asOf == TimeOf[c.row]
             seen == EventsUpTo(u, asOf)
             known == {r \in replays[u] : SameInput(r, asOf, seen)}
             current == profile[u].version
         IN  \/ \E r \in known :
                  job' = [job EXCEPT ![w] = [row |-> c.row, seen |-> seen, current |-> current,
                                             target |-> r.version, fresh |-> FALSE]]
             \/ /\ known = {}
                /\ \E top \in ReplayVersions(u) \cup {current} :
                     /\ \A v \in ReplayVersions(u) \cup {current} : v <= top
                     /\ job' = [job EXCEPT ![w] = [row |-> c.row, seen |-> seen, current |-> current,
                                                   target |-> top + 1, fresh |-> TRUE]]
    /\ phase' = [phase EXCEPT ![w] = "APPLYING"]
    /\ UNCHANGED <<log, rowVars, projectionVars, todo>>

\* Mutant: no unique key on profile_replay_run and on the REPLAY_APPLIED facts.
InsertsAnyReplay(j) == j.target >= j.current

\* The unique keys the inserts of apply_claim meet at the time they run: one
\* replay per input, one REPLAY_APPLIED fact per profile version.
ReplayInsertable(j) ==
    j.fresh => \A r \in replays[UserOf[j.row]] :
                  r.version # j.target /\ ~SameInput(r, TimeOf[j.row], j.seen)

\* mark_done reads the row again, under its lock, and asks nothing of it.
CommitApply(w) ==
    /\ phase[w] = "APPLYING"
    /\ LET j == job[w]
           u == UserOf[j.row]
       IN  /\ ReplayInsertable(j)
           /\ Appendable(trail[j.row], DoneFact(j.row))
           /\ replays' = IF j.fresh
                           THEN [replays EXCEPT ![u] = @ \cup
                                  {[version |-> j.target, asOf |-> TimeOf[j.row], seen |-> j.seen]}]
                           ELSE replays
           /\ profile' = IF j.target > j.current
                           THEN [profile EXCEPT ![u] = [version |-> j.target, seen |-> j.seen]]
                           ELSE profile
           /\ status' = [status EXCEPT ![j.row] = "DONE"]
           /\ lockedBy' = [lockedBy EXCEPT ![j.row] = NoWorker]
           /\ ripe' = [ripe EXCEPT ![j.row] = FALSE]
           /\ trail' = [trail EXCEPT ![j.row] = @ \cup {DoneFact(j.row)}]
           /\ todo' = [todo EXCEPT ![w] = {c \in @ : c.row # j.row}]
    /\ phase' = [phase EXCEPT ![w] = "READY"]
    /\ job' = [job EXCEPT ![w] = NoJob]
    /\ UNCHANGED <<log, attempts>>

\* Any exception of apply_claim or mark_done (a duplicate key, an audit
\* conflict, a lost connection): the transaction is rolled back.
AbortApply(w) ==
    /\ phase[w] = "APPLYING"
    /\ phase' = [phase EXCEPT ![w] = "ABORTED"]
    /\ job' = [job EXCEPT ![w] = NoJob]
    /\ UNCHANGED <<log, rowVars, projectionVars, todo>>

\* Mutant: an off-by-one.
DeadOneTooEarly(c) == IF c.attempt + 1 >= MaxAttempts THEN "DEAD" ELSE "PENDING"

\* dead is decided by the attempt number the worker claimed with.
FailedStatus(c) == IF c.attempt >= MaxAttempts THEN "DEAD" ELSE "PENDING"

\* mark_failed, in a transaction of its own: it too takes the row as it is.
MarkFailed(w) ==
    /\ phase[w] = "ABORTED"
    /\ \E c \in Heads(w) :
         LET e == c.row
             fact == FailedFact(e, FailedStatus(c))
         IN  /\ Appendable(trail[e], fact)
             /\ status' = [status EXCEPT ![e] = FailedStatus(c)]
             /\ lockedBy' = [lockedBy EXCEPT ![e] = NoWorker]
             /\ ripe' = [ripe EXCEPT ![e] = FALSE]
             /\ trail' = [trail EXCEPT ![e] = @ \cup {fact}]
             /\ todo' = [todo EXCEPT ![w] = @ \ {c}]
    /\ phase' = [phase EXCEPT ![w] = "READY"]
    /\ UNCHANGED <<log, attempts, projectionVars, job>>

\* mark_failed raises: the row keeps its state and the process ends.
MarkFailedConflict(w) ==
    /\ phase[w] = "ABORTED"
    /\ \E c \in Heads(w) : ~Appendable(trail[c.row], FailedFact(c.row, FailedStatus(c)))
    /\ phase' = [phase EXCEPT ![w] = "DOWN"]
    /\ todo' = [todo EXCEPT ![w] = {}]
    /\ UNCHANGED <<log, rowVars, projectionVars, job>>

-----------------------------------------------------------------------------
(* The worker process.                                                     *)

\* The process dies at any point; an open transaction is rolled back and the
\* claims it held in memory are gone.
Crash(w) ==
    /\ phase[w] # "DOWN"
    /\ phase' = [phase EXCEPT ![w] = "DOWN"]
    /\ todo' = [todo EXCEPT ![w] = {}]
    /\ job' = [job EXCEPT ![w] = NoJob]
    /\ UNCHANGED <<log, rowVars, projectionVars>>

\* The container's restart policy brings it back.
Restart(w) ==
    /\ phase[w] = "DOWN"
    /\ phase' = [phase EXCEPT ![w] = "READY"]
    /\ UNCHANGED <<log, rowVars, projectionVars, todo, job>>

Next ==
    \/ \E e \in Events : AppendBehavior(e)
    \/ \E e \in Enqueued : TimePasses(e)
    \/ \E w \in Workers :
         \/ Poll(w)
         \/ PollConflict(w)
         \/ BeginApply(w)
         \/ CommitApply(w)
         \/ AbortApply(w)
         \/ MarkFailed(w)
         \/ MarkFailedConflict(w)
         \/ Crash(w)
         \/ Restart(w)

Spec == Init /\ [][Next]_vars

\* A process that runs takes its next step and a dead one is restarted; a
\* process may die any number of times, but one that can poll again and again
\* polls at last.
Fairness ==
    /\ \A e \in Enqueued : WF_vars(TimePasses(e))
    /\ \A w \in Workers :
         /\ SF_vars(Poll(w) \/ PollConflict(w))
         /\ WF_vars(BeginApply(w))
         /\ WF_vars(CommitApply(w) \/ AbortApply(w))
         /\ WF_vars(MarkFailed(w) \/ MarkFailedConflict(w))
         /\ WF_vars(Restart(w))

FairSpec == Spec /\ Fairness

-----------------------------------------------------------------------------
(* Safety.                                                                 *)

\* Every variable has its type.
FactTypes == {"CREATED", "CLAIMED", "MARK_DONE", "MARK_FAILED", "MARK_DEAD"}
Statuses == {"NONE"} \cup Open \cup Settled
Facts == [version : Nat, type : FactTypes, from : Statuses, to : Statuses]
Claims == [row : Enqueued, attempt : Nat]
Jobs == [row : Enqueued, seen : SUBSET Events, current : Nat, target : Nat, fresh : BOOLEAN]

TypeOK ==
    /\ log \subseteq Events
    /\ status \in [Enqueued -> Statuses]
    /\ attempts \in [Enqueued -> Nat]
    /\ lockedBy \in [Enqueued -> Workers \cup {NoWorker}]
    /\ ripe \in [Enqueued -> BOOLEAN]
    /\ trail \in [Enqueued -> SUBSET Facts]
    /\ profile \in [Users -> [version : Nat, seen : SUBSET Events]]
    /\ replays \in [Users -> SUBSET [version : Nat, asOf : Nat, seen : SUBSET Events]]
    /\ phase \in [Workers -> Phases]
    /\ todo \in [Workers -> SUBSET Claims]
    /\ job \in [Workers -> Jobs \cup {NoJob}]
    /\ \A w \in Workers : phase[w] = "APPLYING" => job[w] \in Jobs

\* A row's status is what its newest audit fact says it became: no status
\* changes without evidence (the transactions of refresh_mysql.py that update
\* a row and append its fact).
AuditMatchesStatus ==
    \A e \in Enqueued :
        /\ status[e] = "NONE" <=> trail[e] = {}
        /\ \A f \in trail[e] :
             (\A g \in trail[e] : g.version <= f.version) => f.to = status[e]

\* The facts of a row form one history: a version is used once, and every
\* fact starts from the status the fact before it ended in, whichever worker
\* wrote them (_append_outbox_transition).
AuditIsOneHistory ==
    \A e \in Enqueued : \A f, g \in trail[e] :
        /\ f.version = g.version => f = g
        /\ (/\ f.version < g.version
            /\ \A h \in trail[e] : h.version <= f.version \/ h.version >= g.version)
           => g.from = f.to

\* A row marked DONE has been projected: a recorded replay as of its event's
\* time saw the event, and the profile is at that replay's version or beyond
\* (apply_claim and mark_done in one commit).
DoneMeansProjected ==
    \A e \in Enqueued : status[e] = "DONE" =>
        \E r \in replays[UserOf[e]] :
            r.asOf = TimeOf[e] /\ e \in r.seen /\ r.version <= profile[UserOf[e]].version

\* The replays of a user are numbered 1, 2, ... without gap or repetition, no
\* input is replayed into two versions, and the profile a reader gets is the
\* one of the last replay (apply_claim under concurrent workers).
ProfileIsLatestReplay ==
    \A u \in Users :
        /\ ReplayVersions(u) = 1 .. profile[u].version
        /\ \A r, s \in replays[u] :
             r.version = s.version \/ SameInput(r, s.asOf, s.seen) => r = s
        /\ \A r \in replays[u] : r.version = profile[u].version => r.seen = profile[u].seen

-----------------------------------------------------------------------------
(* What the outbox promises: every item of the ledger is a row.            *)

Ledger == INSTANCE RetryLedger WITH
    Items <- Enqueued,
    state <- [e \in Enqueued |-> IF status[e] \in Open THEN "OPEN" ELSE status[e]],
    tries <- attempts,
    version <- [u \in Users |-> profile[u].version]

\* Rows settle once and for good, are given up only when every attempt was
\* spent, and the profile's version moves one by one and only with a row
\* marked DONE, although mark_done and mark_failed ask nothing of the row.
KeepsTheLedger == Ledger!Spec

-----------------------------------------------------------------------------
(* Liveness.                                                               *)

\* Every enqueued row is at last DONE or DEAD, whatever attempts abort and
\* however often the process dies (claim_pending's retry and dead-letter rules).
EveryRowSettles ==
    \A e \in Enqueued : status[e] = "PENDING" ~> status[e] \in Settled

-----------------------------------------------------------------------------
(* Statements of the documents that the code does not keep.                *)

\* A row beyond its retries becomes DEAD and is left to a person
\* (docs/SAFETY_POLICY.md).
ExhaustedRowsSettle ==
    \A e \in Enqueued :
        (status[e] = "PENDING" /\ attempts[e] >= MaxAttempts) ~> status[e] \in Settled
============================================================================
