# RecPro: a verification development

RecPro is a library recommendation service: a FastAPI application (`src/backend/app`) with a
MySQL store that is only ever appended to or versioned, a profile worker process, in-memory
recommendation runs with server-sent progress, and an in-memory "Agent workspace" whose facts go
to an audit store. This directory models the parts whose correctness depends on interleaving,
retries, leases, crashes and versions, checks them with TLC on small instances, and proves
most of their safety properties with TLAPS for every value of their constants.

`PROJECT.json` lists components, runs, the source lines behind every definition, hazards,
findings, theorems, and for each checked property a mutation of the model that breaks it.

## 1. The system

| component | state | operations | talks to |
|---|---|---|---|
| profile outbox and worker (`profile/adapters/refresh_mysql.py`, `profile/application/refresh.py`, `worker.py`) | `profile_update_outbox` rows (status, attempts, lease), `profile_replay_run`, `user_profile` | append with the event; `claim_pending` (dead-letter pass and claim), `apply_claim`, `mark_done`, `mark_failed`; crash, restart | transition audit, behaviour events |
| state transition audit (`observability/adapters/mysql_transition.py`) | `domain_state_transition`, unique per aggregate and version | `append`: INSERT IGNORE and read back | called in the outbox's transactions |
| profile replay (`profile/replay.py`) | none | `compute_profile_snapshot` | called by `apply_claim` |
| behaviour and feedback API (`api/feedback.py`, `feedback/`) | events, impressions, feedback, item states | append event, impression, feedback | outbox |
| recommendation task store (`recommendation/adapters/g4_mysql.py`, `mysql.py`) | `recommendation_task`, `recommendation_task_context`, record and items, traces, policy decisions | `create_task`, `submit_clarification`, `get_task`, items | agents, transition audit, events |
| orchestrator and agents (`recommendation/agents`, `recommendation/application`) | per run; its facts in MySQL | ask the Agents in order, plan again once, end COMPLETED, DEGRADED_COMPLETED or WAITING_CLARIFICATION, persist | catalog, language model, task store |
| runs and progress broker (`recommendation/progress.py`, `api/recommendation_runs.py`) | in-memory runs, event history, subscriber queues | reserve, publish, complete, fail, subscribe, prune, close | task store, workspace |
| agent workspace (`agent_workspace/runtime.py`, `dispatcher.py`, ...) | in-memory workspaces, contexts, observation lanes, directives | create, change context, observe, dispatch, bridge run events | audit buffer, planner |
| workspace audit (`audit.py`, `application/audit_worker.py`) | bounded fact buffer, audit tables | capture, drain a batch, retry | workspace, MySQL |
| background planning (`application/background_planning.py`) | budget books, last planned version of a session | admit, reserve, call the planner, fall back | language model, workspace |
| identity (`identity/`) | accounts, roles, codes, sessions, refresh tokens, consents | provision, activate, login, refresh, logout, reset and change of password, role and status actions, consents | every route |
| knowledge review (`knowledge_review/`) | proposals, versioned action facts | act, read | librarians |
| connection pool and lifecycle (`platform/`) | pool, counters, leases | acquire, release, close | everything with a store |
| frontend, Agent workspace store (`frontend/src/stores/agentWorkspace.ts`, `frontend/src/api/agentWorkspaceClient.ts`) | what is shown of one workspace, generation, event stream | initialize, observe, stop, read the stream, reconnect | agent workspace |
| catalog, exploration, evaluation, language model, configuration, HTTP models, other frontend, scripts | read-only or external | | |

What is hard in it:

* several workers and a lease: a worker that outlives its lease still holds its claim in memory
  and settles a row that is no longer its own; nothing but a unique key of the audit table
  stands against it;
* every store call is "INSERT IGNORE, then read back" inside a transaction whose snapshot was
  taken earlier, so a race is neither an `IntegrityError` nor visible to the read;
* an agent run of up to 30 seconds between the check of a context and the append of the next;
* runs, drivers and workspace are found by task id alone, in memory, with slots, retention and a
  shutdown that waits;
* exceptions raised by bookkeeping (a full audit buffer) in the middle of control flow;
* session, account and token are read and written in a transaction each, so every check of a refresh or a
  login may be stale when the next one runs; versions compared at use are what is left;
* a view in the browser that is put together from snapshots and from a stream that replays, each of which
  may be old, while the session or its token changes;
* queues and pools with limits, readers and callers that are slow, give up or come late, and closes that
  must still end;
* processes that die and come back (`compose.yaml` restarts every service `unless-stopped`).

What makes each component correct: a row of the outbox settles once, with evidence, and never
without its projection; profile versions are gap-free and rest on one replay each; the contexts of a
task are one line and a retry adds no fact; the Agents of one task see one catalog, a task that is
called complete is whole, and a result is the stored one; a driver only reaches the run that started
it, and runs end; a stream has every event of its run and ends with the last one; an accepted
observation is worked off in its turn and close waits for it; planner calls keep their budget and a
late plan does not replace a newer one; what the browser shows of a workspace is of that workspace, in
order, and catches up; feedbacks on a resource and decisions on a proposal or a
consent are one line; a session that was revoked, or whose account has changed, stays ended, and the
pool's connections come back. Modules for all of these follow; what is left is in section 7.

## 2. Modules

| module | what it is |
|---|---|
| `RetryLedger` | abstract: items submitted once, tried at most `MaxAttempts` times, settled or given up for good; a reader's version moves by at most one and only with a settled item |
| `ProfileOutbox` | the outbox, its workers and the audit trail; implements `RetryLedger` |
| `ProfileOutboxProofs` | the TLAPS proofs about `ProfileOutbox` |
| `MCProfileOutbox` | TLC instances: who owns which event and when it occurred |
| `TaskLifecycle` | abstract: a task is created once, one context per answer, final when completed |
| `RecommendationTasks` | the G4 service as snapshot, run and commit of concurrent calls; implements `TaskLifecycle` |
| `BaselineTasks` | the rule pipeline's service on the same tables; implements `TaskLifecycle` too |
| `RecommendationTasksProofs` | the TLAPS proofs about `RecommendationTasks` and `BaselineTasks` |
| `MCRecommendationTasks` | TLC instances |
| `RecommendationRuns` | extends `RecommendationTasks` with the broker, the drivers, the audit buffer's room and the process |
| `MCRecommendationRuns` | TLC instance for the run `runs_stranded` |
| `WorkspaceObservations` | observations of the Agent workspaces: acceptance, dispatcher lanes, audit buffer, retention, close |
| `MCWorkspaceObservations` | TLC instance for the run `obs_close` |
| `RunStreams` | the event streams of one task's runs: history, subscriber queues, drops, resumption |
| `RecommendationRunsProofs` | the TLAPS proofs about `RecommendationRuns`, on top of `RecommendationTasksProofs`, and about `RunStreams` |
| `ConnectionPool` | the connection pool, its callers and its close |
| `AppRuntimeProofs` | the TLAPS proofs about `WorkspaceObservations`, `BackgroundPlanning` and `ConnectionPool` |
| `MCAppRuntime` | TLC: what a process keeps in memory (`WorkspaceObservations`, `RunStreams`, `ConnectionPool`) |
| `Orchestration` | runs of the Agents of one request, their dependencies, the catalog and the stored facts |
| `OrchestrationProofs` | the TLAPS proofs about `Orchestration` |
| `FeedbackFacts` | feedbacks of one reader, resource states and their audited transitions |
| `DecisionFacts` | review actions and consents: numbered facts, with or without a key |
| `FactsProofs` | the TLAPS proofs about `FeedbackFacts` and `DecisionFacts` |
| `BackgroundPlanning` | the planning budget, the coordinator and the lanes that wait for it |
| `MCServices` | TLC: what the services store (`RecommendationTasks`, `Orchestration`, `FeedbackFacts`, `DecisionFacts`) and `BackgroundPlanning` |
| `MCFeedbackFacts` | TLC instance for the run `feedback_replay` |
| `IdentitySessions` | accounts, codes, sessions and refresh tokens under concurrent service calls |
| `IdentitySessionsProofs` | the TLAPS proofs about `IdentitySessions` |
| `MCDemoServices` | TLC: `IdentitySessions` and `BaselineTasks` |
| `MCRunParts` | TLC: `RecommendationRuns` with one task, and with more tasks than slots |
| `WorkspaceView` | the browser's store of an Agent workspace, its stream, and the server's snapshots, events and queues behind them |
| `WorkspaceViewProofs` | the TLAPS proofs about `WorkspaceView` |
| `MCDeliveries` | TLC: `ProfileOutbox` and `WorkspaceView`, under fairness |
| `MCWorkspaceView` | TLC instance for the run `view_replay` |

`MCServices`, `MCAppRuntime`, `MCDemoServices` and `MCDeliveries` put components side by side that share no state. A variable `part`
says which of them moves in a behaviour; the others stay as they begin. That is enough for
properties of one component each, and avoids their product. (Fairness of the parts that do not move
asks for nothing, because none of the fair actions is enabled where its component begins.) `MCRunParts`, and
`MCDeliveries` for the view, use the same means for two instances of one component that are too large as one.
`RecommendationRuns` is a true composition: it extends the task store and drives its steps.

### ProfileOutbox

One action is one committed transaction, or the read that opens one. The worker reads its claims
under a lock in one transaction (`Poll` = the whole of `claim_pending`: the dead-letter pass, the
claim and the audit facts), then works them off in row order with one transaction each
(`BeginApply` is the snapshot of `apply_claim`, `CommitApply` is its commit with `mark_done`,
`AbortApply` any exception), and after an abort marks the row in another transaction
(`MarkFailed`). `PollConflict` and `MarkFailedConflict` are the exceptions that leave
`run_worker` and end the process; `Crash` is any other death, `Restart` the container policy.

| variable | code |
|---|---|
| `log` | `user_behavior_event` |
| `status`, `attempts`, `lockedBy` | the row of `profile_update_outbox` |
| `ripe` | `next_retry_at` (PENDING) or `lease_expires_at` (PROCESSING) compared with the clock |
| `trail` | the row's facts in `domain_state_transition`; the version is `2 * attempts` for a claim and `2 * attempts + 1` for an outcome |
| `profile`, `replays` | `user_profile` and `profile_replay_run`; a profile is the set of events it was computed from |
| `todo`, `phase`, `job` | the claims `process_batch` holds, where it stands and what the open transaction has read |

Time is one bit per row (`TimePasses`). With `LeaseCoversWork` FALSE a lease may run out while its
holder is alive, which the code allows (one lease covers a batch of up to `worker_batch_limit`
rows and no lease is renewed); safety is checked and proved without any assumption about leases.

### RecommendationTasks

A call is under way from the snapshot of its transaction (`BeginCreate`, `BeginClarify`) to its
commit (`Commit`), its end in an error (`CommitConflict`, `Fail`, `Unavailable`) and its return. What the
agents answer is the choice of a result status. A row another transaction committed since the
snapshot makes INSERT IGNORE write nothing and is not seen by the read that follows, so the append
raises (`CommitConflict`). This rests on MySQL's default isolation level REPEATABLE READ, which nothing in the
repository changes. `LoadExecution` is what the replay of a creation reads, `StoredResponse` what
the replay of a clarification reads, `TaskStatus` and `TaskContext` what `get_task` reads.

`BaselineTasks` extends it with the base class, `MySQLRecommendationTaskService`, which the demo's HTTP
application uses. The two differ in who decides (`Outcome`: it asks only when the request itself says too
little, and an answer always completes) and in what a loser does: its inserts are refused by the unique
keys (`UniqueKeyRefuses`), it rolls back, and reads the winner's row in a new snapshot (`LosesRace`,
`ReadsBack`). The G4 service raises there (`CommitConflict`).

### RecommendationRuns

The event loop makes each stretch between two awaits one action: `StartRun` (reserve, announce,
start the driver), `StrandRun` (the same when the announcement raises), `BeginRun` and the service
steps, `FinishRun` (complete or fail, then the bridge into the workspace, which may raise),
`PruneRun`, `DrainAudit`, `Close`, `Closed`, `RestartProcess`. Direct calls are those of the
synchronous routes and of other processes. `room` is what the workspace's audit buffer still
takes; a mirrored run spends one fact for its announcement, one per progress event and three at its end.

### WorkspaceObservations

Again one action is a stretch between two awaits. `Observe`, `Create`, `Bridge` and `BridgeAtOnce`
accept an observation in a request, at the creation of a workspace, or from a run or a feedback
(with a full queue the first is refused and the last is coordinated at once). `Begin` is a lane
that gets through the semaphore: it passes over the observation of a forgotten workspace, reports one that was
overtaken (`Supersede`), or starts its Agents (`Start`). `Complete` and `Raise` are the two ways
an observation ends.

| variable | code |
|---|---|
| `life` | presence in `_workspaces` |
| `context`, `processed` | `context_version`, `last_processed_context_version` |
| `queue`, `lane` | a lane of the dispatcher (the observation under way is the first of `queue`) and its task: before or behind the semaphore |
| `pending` | `_pending` of the dispatcher; `_idle` is `pending = 0` |
| `room` | what the audit buffer still takes |
| `door` | the broker is open, waits in `close`, was woken by `_idle`, or has closed |

A publication that finds no room raises, and every action says what has happened before that point and
what no longer does: a version taken and not queued, a version processed and not announced, a lane
dropped with its queue (`Lose`). A waiter on an `asyncio.Event` goes on some time after it was
woken, hence `WOKEN`; the drivers of runs are closed after the workspaces and keep bridging
meanwhile. A repeated, coalesced or refused observation changes none of these variables. The
orchestrator's and the Agents' status, directives, topics, planning (part of the
Agents' call) and the limit of 32 workspaces are left out. `CoordinateFacts` stands for the
facts `_coordinate` publishes, whose number depends on the type of the observation and on suppressed directives.

### RunStreams

| variable | code |
|---|---|
| `known` | `_runs[task_id]`, as the number of the task's run |
| `log` | per run the last sequence number and `terminal`; `events` is a deque, so its oldest event follows from the last one (`Oldest`) |
| `listeners` | `subscribers` of the runs |
| `stream` | one client: the response with its queue, what was delivered, and the `Last-Event-ID` it comes back with |

`StreamAsked` is the handler `stream_events`, which looks at the run; `StreamBegins` is the first
iteration of `body` and `events`, which looks again and takes the run there is by then;
`StreamBreaks` is that look when the run is gone. `Publishes` gives an event to each queue and drops
the subscribers whose queue is full, as `publish` does. `RunEnds` publishes one or two events, since a
completed run whose bridge raises is failed in the same stretch. The heartbeat is left out: it
changes nothing.

### ConnectionPool

`caller` is where a coroutine stands in `__call__` (`ENSURE`: before the lock `_initializing`,
`CREATE`: behind it, `ACQUIRE`: in `pool.acquire()`, `GOT`: with a connection, before the last look at
`_closed`) or what it holds (`LEASED`, `RELEASED`). `pool`, `free`, `used` are the driver's pool
(external: how the driver gives and takes connections is modelled as far as `platform/mysql.py` relies
on it), `active` and `waiting` the two counters, `shut` is `_closed`. `GiveUp` is the `finally` clause
of a call that raises, whether by a timeout, an error or a cancellation (`Cancelled` before the lock,
`AcquireFails` behind it).

### Orchestration

`Runs` are repetitions of one request, at the same time or after each other. `at` is the Agent a run
waits for, `moves` the list `transitions`, `trace` the list of dispatched answers, `tries` the attempts
in `call_with_retry`, `cache` the snapshot of the run's evidence reader, `late` the deadline, `stored`
what `persist_orchestration` and `append_orchestration_result` have committed. An answer is a word
for what the rest of the run depends on (a fallback, a missing channel, no items, ASK, REPLAN, an
action that cannot continue); which word an Agent says is free within its role (`Usual`, and for the
stages in `Shaky` also `Poor`). `Way` is the order of the Agents, `Answered` one dispatch with the
transitions up to the next; `Raise` is any exception, which rolls the connection back. `Persist`
is the transaction of all facts, `Conflict` the comparison of a row that is already there.

### FeedbackFacts and DecisionFacts

Both model "insert if it is not there, then look" in transactions with a snapshot. `PostBegins` is the
snapshot of `record_feedback` (was the feedback stored already, which version of the resource state
is seen), `PostCommits` the rest up to the commit, `PostFails` every exception. `resource` is
`user_resource_state` by place (resource and state type), `transitions` its rows in
`domain_state_transition`. The UPDATE has no version guard and overwrites whatever the row holds;
`VersionFree`, the unique key of the transition in the same transaction, is what refuses it.
An exposure is a feedback that sets no state.

`DecisionBegins` is the read a review (`list_actions`) or a consent (`next_consent_version`) numbers its
fact from; `DecisionAppended` is the append: inserted, or found to be the same one by its key;
`DecisionReturns` every other end. A consent has no key.

### BackgroundPlanning

`clock`, `session` and `device` are the clock and the two books of `InMemoryPlanningBudget`; `planned` is
`_last_versions`; `observed`, `plan` and `shown` belong to a workspace: what its lane has taken up, what
it awaits the planner for, and what `background_planning` is about. `Dispatch` is admission and
announcement, with the lock; `PlannerEnds` and `PlannerCancelled` come later, without it.
`AnnounceFails` is an announcement that raises (a full audit buffer): the attempt is spent.
Observations skipped inside a lane are the gap between two versions in `Takes`.

### IdentitySessions

Every store call of `IdentityService` is a transaction of its own; a service call is what it knows
between two of them (`call`: operation, where it stands, what it read). `login` is `LoginRead`,
`LoginVerify` or `LoginFailure`, `LoginComplete`, `LoginSession`; `refresh` is `RefreshRead`,
`RefreshSession`, `RefreshAccount`, `RefreshRotate`, and `RefreshRevoke` if it ends the session. What
changes an account (`ResetPassword`, `ChangePassword`, `RoleAction`, `StatusAction`) goes on with
`RevokeUserSessions`, unless the process dies in between (`FailCall`).

| variable | code |
|---|---|
| `account` | `iam_user_account` with the credential; `auth`, `role` are `auth_version`, `role_version`; `failed`, `locked` the lockout |
| `roles`, `applied` | the effective roles; the keys of role facts and status events |
| `code` | an `iam_action_token` that can still be redeemed (there is no other read of one) |
| `session`, `chain` | `iam_auth_session` and its refresh tokens in order of issue |

`Usable` is what `validate_principal` asks of a session. The role facts' own versions, the wording of
events and the checks of the actor are left out, and so are names and passwords: `LoginVerify` and
`LoginFailure` are the two outcomes.

### WorkspaceView

| variable | code |
|---|---|
| `history` | `workspace.events` with the last sequence number, and of each event whether `_publish` came to offer it to the subscribers; its deque of 512 is the suffix `Replay` takes |
| `view` | `snapshot`, `events`, `contextVersion` and an Agent of the store |
| `generation`, `running` | `generation` and `state` other than idle |
| `request` | a `create` or `observe` of the client, with the `token` and the workspace the store remembers of the call, and the snapshot it is answered with |
| `feed` | per generation the loop of `stream`: `last`, and the server's queue with what the connection has not delivered |

`Initialize` is the call at the start and at a changed session or token: it may be about the same
workspace. `Receive` is what follows the `await`, `TakesReply` the checks there, `ApplySnapshot` and
`ApplyEvent` the two functions that change what is shown. `Replay` is what a connection gets first,
`Offered` a subscriber's bounded queue: one that overflows is taken off, and the connection stays open and
is sent heartbeats only.

`PublishTo` is `_publish` in its order: the event is in the history (and the version it belongs to taken) before
`capture_event`, which raises when the audit buffer is full, and offered to the subscribers behind it. An
event whose capture raises is withheld: snapshots and replays have it, open streams do not, and the request
that has accepted the observation fails (`Accepts`). The buffer is one for all workspaces and drained by a
worker of its own, so whether it is full is a free choice here (`Captures`); a guest's workspace is not audited and never meets it
(`AuditedWorkspaces`). A stretch of the server ends with the publication that raises, so what it would have
published behind it is never there. One event stands for those the server publishes without awaiting (an accepted observation has two, the
end of an Agent and of its observation more). One Agent stands for all of them, working or not.

## 3. Runs

| run | instance | checks |
|---|---|---|
| `outbox_safety` | 2 workers, 2 rows of one reader (the second with an older time), 3 attempts, batch 2, any lease may run out early | `AuditMatchesStatus`, `AuditIsOneHistory`, `DoneMeansProjected`, `ProfileIsLatestReplay`, refinement `KeepsTheLedger` |
| `deliveries` | part OUTBOX: 2 workers, 2 rows, 2 attempts, batch 1, a lease outlives the work of a live holder, fairness | `EveryRowSettles` |
| | part CALM: 2 sessions (one audited, one a guest's), snapshots, store and queue of 3 events, started or stopped twice, one request at a time, 3 events of which one is withheld; part RACING: the same with 2 requests and 2 events, any of them withheld; part LONG: one session in one generation, one request, 4 events of which one is withheld; fairness | `ShortHistoryIsShownInOrder`, `ViewCatchesUp` |
| `outbox_dead_letter` | 2 workers, 1 row, 2 attempts, leases may run out, fairness | violates `ExhaustedRowsSettle` |
| `services_safety` | part TASKS: 2 concurrent calls, 1 task, 2 payloads, 2 keys, 2 answers, 3 contexts | `ContextsAreOneLine`, `RecordIsTheLastContexts`, `RetryAddsNoFact`, refinement `KeepsTheLifecycle` |
| | part AGENTS: 2 runs of a request, recall may fall short, 1 try, 2 catalog versions, the deadline | `OneCatalogPerTask`, `CompletedIsWhole`, `ResultIsTheStoredOne` |
| | part FEEDBACK: 2 feedbacks on one resource and an exposure, 2 calls, 4 versions | `ResourceStateIsOneLine` |
| | part DECISIONS: 1 proposal, 1 consent, 2 verdicts, 2 keys, 2 deciders, 2 decisions each | `DecisionsStand` |
| | part PLANNING: 3 workspaces in 2 sessions on 1 device, 2 per session, 2 per day, interval 2, days of 3, time 4, 2 versions | `PlannerCallsKeepPolicy`, `OutcomeNeverOlder` |
| `tasks_replay` | 1 call at a time | violates `ReplayIsTheOriginal` |
| `runs_safety` | part ALONE: 1 task, 2 calls, 2 slots, 4 facts of room, mirrored or not, close and restart, fairness; part CONTENDED: 3 tasks, 3 calls, 2 slots, close and restart, fairness | `DriversMatchRuns`, `DriversBounded`, `CloseWaitsForDrivers`, `TerminalRunIsFinal`, `DriversEnd` |
| `runs_stranded` | 1 task, 1 call, 1 fact of room, fairness | violates `AcceptedRunsEnd` |
| `runtime_safety` | part OBSERVATIONS: an audited and a guest workspace, 1 place behind the semaphore, 2 pending, 6 facts of room, 3 versions, fairness | `PendingCoversWork`, `QueueInOrder`, `CloseDrainsObservations`, `ObservationsEnd` |
| | part STREAMS: 1 reader, 2 runs, history and queue of 2, 5 events a run, fairness | `EventsWithoutHoles`, `EndsWithTheLastEvent`, `StreamsEnd` |
| | part POOL: 3 callers, 1 to 2 connections, fairness | `PoolCountersTrue`, `NoLeaseOnceShut`, `PoolCloseEnds` |
| `demo_services` | part IDENTITY: 1 account, 1 session, 1 code, 2 keys, 2 calls, lock after 1 failure, 4 `auth_version`s, 3 tokens in a chain | `ChainIsOneLine`, `RevokedSessionHasNoToken`, `EndedSessionStaysEnded`, `ChangeEndsSessions` |
| | part TASKS: 3 concurrent calls, 1 task, 2 payloads of which one is unclear, 2 keys, 2 answers | `LosersAreAnswered`, `AskedAtMostOnce` |
| `obs_close` | an audited workspace, 4 versions, fairness | violates `CloseEnds` |
| `feedback_replay` | 2 feedbacks on one resource, 1 call at a time | violates `RepeatedFeedbackChangesNothing` |
| `view_replay` | 1 session, 1 request at a time, snapshots of 2, 3 events kept, 4 events | violates `ReplayIsNoActivity` |

Why the bounds are enough. Two workers are what it takes for a late holder and a new one; three
attempts let a late outcome meet a claim that is neither the first nor the last; two rows of one
reader make two applies compete for one profile version, and the older time of the second row makes
replays that see fewer events than their predecessors. Readers do not share state, so one is
enough. Two calls are the least that race; three contexts let a task ask, be answered, ask again
and complete, so a replay can be older than the current context by one and by two. Two slots let a
second run start beside a live one if the task allowed it; two slots are full before a third task asks; four facts of room let a run be announced, progress, and end with and without
room for its three terminal facts. With two workspaces and one place a lane waits for another one;
with two pending observations one is queued behind the one under way and the queue is full; six facts
let a workspace be created and one observation go through, and run out at every point of the second. `MaxAttempts` and `BatchLimit` stand for the configured
`worker_max_attempts` and `worker_batch_limit`, `MaxConcurrent` for the broker's 8 (the dispatcher's 16), `MaxPending` for the dispatcher's 64, `MaxFacts` for
`agent_workspace_audit_max_facts`, `HistorySize` and `QueueSize` for the streams' 256, `MinSize` and `MaxSize`
for the pool's, the planning constants for `PlanningBudgetPolicy`. Bounds that are not in the code:
`MaxContext`, `MaxCatalog`, `MaxEvents`, `MaxRuns`, `MaxVersions`, `MaxDecisions`, `MaxVersion`, `MaxTime`,
`MaxAuth`, `MaxChain`, `MaxHistory` and `MaxGeneration`. `Recents`, `Kept` and `StreamQueue` stand for the view's 40, 80 and 512.

Two runs of one request are what it takes for a result to meet another one's facts; two versions of the
catalog are enough for one to change between two reads; `MaxTries` 1 makes a dependency fail once and be
given up, `Shaky` keeps to one stage the answers that fall short (each stage with its own set of
warnings leads to the same question, whether one was lost). Two feedbacks with two calls race for one
version in every order, and a third, repeated one for the next; two decisions race likewise, with the same
key, another key, or none. Workspaces of one session share its interval and those of one device its day; time 4 with
days of 3 crosses a day with both budgets open and with each of them spent. A queue of 2 under runs of 5
events overflows before the end, at the end, and at neither; two runs let one be replaced or pruned
under an open stream, and the same client comes back. Three callers on two connections: one
holds, one waits, one creates or closes. On an account two calls are the least that race and
sessions do not touch each other, so one is enough; three tokens let a parent, a successor and a third race;
four versions let an account be activated, changed and changed back. In the view, three events are the least in which an event is withheld between two that
are shown, and a history of three is still as short as a snapshot; a fourth one (part LONG) outgrows
snapshot, store and queue; two requests
let one be answered late, for a session or token that has been replaced, and two sessions let it be of
another workspace; two starts are the least that replace one another. One withheld event makes every hole a
view can have (`OneIsWithheld` bounds it where there are three events or more; the proof has no such bound). Calls and keys on accounts are symmetric, runs are in
`services_safety`; neither run checks liveness, for which the reduction would be unsound.

`services_safety`, `runtime_safety`, `demo_services`, `obs_close`, `feedback_replay` and `view_replay` switch deadlock
checking off: a broker or a pool that has closed has nothing left to do, and versions, runs, time,
chains and generations end with their bounds (`deliveries` lets the view rest there, `AtBound`). In the other instances some step always remains (a crash and a
restart, a call that may begin and return).

## 4. Fairness

* `ProfileOutbox`: time passes (`TimePasses`), a started transaction commits or aborts, an
  aborted claim is marked, and a dead process is restarted (all weak fairness: `run_worker` does
  nothing else and `compose.yaml` restarts it). Polling is strongly fair: a process may die
  arbitrarily often, but one that is able to poll again and again polls at last. Nothing makes an apply
  succeed, so a row may well end DEAD.
* `EveryRowSettles` also needs `LeaseCoversWork`; `outbox_dead_letter` shows what happens without it.
* `RecommendationRuns`: the event loop schedules each driver, the request deadline and the
  database end each service call, and a driver whose call has ended finishes. Nothing is assumed about the
  audit worker, which an operator starts, nor about close or restart.
* `WorkspaceObservations`: `asyncio.Semaphore` wakes its waiters in order, so a lane that waits is let in
  although others take the place again and again (strong fairness of `Begin`); an Agent's call
  returns or raises (weak fairness of `Complete \/ Raise`); a woken waiter runs (`Closed`). Nothing is
  assumed about requests, the audit worker or retention.
* `RunStreams`: the event loop goes on and the client reads on (weak fairness of `StreamDelivers` and
  `StreamEnds`). Nothing is assumed about the run, so `StreamsEnd` speaks of terminal runs only.
* `ConnectionPool`: connecting and acquiring are timed and every lease is closed in a `finally` clause (weak
  fairness); `asyncio.Lock` wakes its waiters in order, so a caller gets the lock although others take it
  again and again (strong fairness of `Ensure`).
* `WorkspaceView`: the client's loop opens its stream again (weak fairness of `FeedConnects`), and a
  connection that breaks now and then still brings events (strong fairness of `FeedDelivers`). Nothing is
  assumed about requests, which may all be lost, so `ViewCatchesUp` speaks of a view that has a stream. Nor is
  anything assumed about the audit buffer: the newest event may be withheld from an open stream for good, and once
  an event was withheld a snapshot that comes late may take a delivered one out of the view again. `ViewCatchesUp`
  excepts these two states, and the subscriber that was taken off; each exception is needed, TLC refutes the property without it.
* `TaskLifecycle` and `RetryLedger` are safety specifications and are refined as such.

## 5. Proofs

`ProfileOutboxProofs` proves, for any users, events, workers, retry limit, batch limit and lease
behaviour, from `OutboxAssumption` alone:

* `OutboxTypes`: `Spec => []TypeOK`;
* `OutboxInvariant`: `Spec => []OutboxInv`, the inductive invariant;
* `StatusHasEvidence`, `TrailIsOneHistory`, `DoneIsProjected`, `ProfileVersionsAreReplays`: the
  four safety invariants the runs check;
* `OutboxKeepsTheLedger`: `Spec => KeepsTheLedger`, the refinement of `RetryLedger`.

None of the safety invariants is inductive. That a late `mark_failed` cannot append to a row
another worker has settled follows from the version numbers only, so `OutboxInv` says, per row
(`RowOK`), which versions are taken: all versions up to `2 * attempts` belong to the past, and the
outcome version `2 * attempts + 1` is free exactly while the row is PROCESSING; the facts chain; a
row that is given up has spent its attempts. Per worker it says that a claim in memory was once
made (its attempt is at most the row's counter), and of an open transaction (`JobOK`) what its
snapshot can still be relied on for: the version it read is not beyond the current one, its target is
either a recorded replay or the successor of what it read, and what it has seen includes its own
event. With `ProfileIsLatestReplay` and `DoneMeansProjected` this is inductive; each action has one
step in the proof and each conjunct it disturbs one below it.

`RecommendationTasksProofs` proves, for any tasks, payloads, keys, answers and any number of
concurrent calls, from `TasksAssumption` alone:

* `TasksInvariant`: `Spec => []TasksInv`, the inductive invariant, and from it
* `TaskTypes`: `Spec => []TypeOK`;
* `ContextLine`, `RecordOfLastContext`: the invariants of `services_safety` about the task;
* `RetriesAddNoFact`: the action property `RetryAddsNoFact`;
* `TasksKeepTheLifecycle`: `Spec => KeepsTheLifecycle`, the refinement of `TaskLifecycle`.

What a clarification has read is stale by the time it commits. `TasksInv` keeps what is not: the
context it answers is still there and still waits (`CallOK`), because contexts are only added. With
the numbering of the line (`LineOK`) and the free version (`~Taken`), the context it answers must be
the last one, so the append goes to the end of the line, and every earlier context waits.
`RootOK` ties the immutable task row to the contexts: a task with a row and no context was
completed at once. Two lemmas, `CreateEffect` and `ClarifyEffect`, say what the commits do to the
task a reader sees; invariant, action property and refinement all rest on them.
For the rule pipeline the same two lemmas give `BaselineInvariant`, `BaselineContextLine`, `BaselineAsksOnce` and
`BaselineKeepsTheLifecycle`. The proofs carry `AskedAtMostOnce` in the form `AsksOnce`, by the version a reader sees, which
counts the contexts (`LatestIsLast`). `LosersGetAnswers` needs it too: answers that were
overtaken stay so only because their task has completed and takes no context any more (`OvertakenStays`).

`RecommendationRunsProofs` proves, on top of `TasksInvariant`, for any tasks, slots and calls:
`RunsInvariant` and from it `DriversHaveTheirRuns`, `ResultsOfRunsAreStored`, `DriversStayBounded`,
`CloseLeavesNoDriver` and `TerminalRunsAreFinal`. `RunsInv` adds to the statements themselves that a reply a call
holds is stored (`RepliesAreStored`), that the request of a driver's call is the driver's
(`CallsServeDrivers`), and that at most `MaxConcurrent` runs are live. A run replaces a terminal one only,
so the number of live runs grows by one exactly where `Reservable` has counted them; drivers
inject into live runs, hence `DriversBounded`.

It also proves `StreamsInvariant`, `StreamsHaveNoHoles` and `StreamsEndWithTheLastEvent` of `RunStreams`, for any readers,
runs and sizes. `StreamsInv` says that what a reader got and what waits for it are together one row of
consecutive numbers, and that the row of a reader that still listens reaches the last event of its run, or
is empty because the client has named that event (`StreamOK`). A delivery moves an event within the row, and a
publication goes on where it stops; a reader that is dropped keeps its row, which then ends early. The
empty row matters at the end: a stream may end without any event only if there was none it lacked.

`AppRuntimeProofs` proves `ObservationsInvariant`, `ObservationTypes`, `CountCoversWork`, `LanesKeepOrder`
and `CloseWaitsForLanes`, for any workspaces and bounds. `ObservationsInv` is type, count and order together: that
what is queued is at most what is counted is preserved when a lane is lost (its observations stop existing,
their count does not), and a lane's queue ends at or below the workspace's version, so a newer one
goes behind it. The proof takes it apart by what an action touches: lanes, count, rest.

`AppRuntimeProofs` goes on with `PlanningInvariant`, `CallsStayInPolicy` and `OutcomesNeverGoBack`, for any sessions, devices
and limits. The policy is kept by the reservations, which the coordinator counts under its lock, and
not by the calls, which come later. `PlanningInv` says that what is reserved covers what was called: the
last reservation of a session is no older than its last call, a device has reserved at least as often in a day
as it called. Of a lane it says that it plans for the newest version it has taken up, and shows none that is newer (`PlanLaneOK`): a lane that
waits for the planner takes nothing up, so its outcome cannot be overtaken.

Of the pool it proves `PoolInvariant`, `PoolTypes`, `CountersAreTrue`, `NoLeaseAfterClose`, for any number of
callers. `PoolInv` needs one thing beside the counters: a caller creates the pool only while it holds
the lock and there is none (`CreationIsLocked`); without it a second creation would forget what the
first pool has given out.

`OrchestrationProofs` proves `OrchestrationInvariant`, `OrchestrationTypes`, `MovesAreAllowed` (every status follows the one
before as `can_transition` allows, so `transition` never raises), `CatalogIsOne` and `ResultsAreStored`. `StatusesOK`
ties the last status and the number of plans to the Agent the run waits for; `EvidenceOK` says that every
evidence so far is of the cached snapshot; `ResultsOK` that facts once stored stay.
That a task that ends COMPLETED is whole (`CompletedTasksAreWhole`) is a statement about the last answer of every Agent, and
answers are kept in one list. `RoutesOK` (`RunsKeepTheirRoute`) says where in it they are: they come in the
order of the Agents, with at most one detour from ranking back to policy, so the place of an answer says
whose it is, and a run that is through and COMPLETED has all of them and nothing to warn of.

`FactsProofs` proves `FeedbackInvariant`, `FeedbacksAreOneLine`, `DecisionInvariant` and `DecisionsStandForAll`. What a call has seen
is past: the state it saw is one of the recorded transitions (`SeenIsPast`), so the version it writes
next is free only if the row is still the one it saw. `VersionIsDue` says the like for a decision:
the version it was given is at most the next one.

`IdentitySessionsProofs` proves `IdentityInvariant`, `IdentityTypes`, `TokensAreOneLine`, `RevocationIsComplete`, `EndIsFinal`, `ChangesEndSessions`, for any
accounts, sessions and calls. `IdentityInv` adds that no session was issued, and no call has read, a version
the account has not reached (`VersionsBehind`); versions only grow, so a session that has fallen behind
never catches up. The proof splits every step by what it does to one session (created, rotated,
over, revoked, or nothing; `OneSessionStep`).

`WorkspaceViewProofs` proves `ViewInvariant` and `ShortHistoriesAreShownInOrder`, for any workspaces, requests, generations and sizes.
`ViewInv` says that whatever is on its way is of the past: a reply is the snapshot of some moment of a history that
only grows (`ReplyOK`), and a stream brings events there are, in their order and none twice (`FeedOK`, `Ascends`). Events that are withheld
leave holes in what a stream brings, but no disorder, and this is what the invariant has in two layers. For
every short history the view is a `Trail`: events of it in their order, with the state they lead to, and an event is missing
below a shown one only if the stream has gone past it, so that no later delivery can turn up below what is shown.
If every event of the history was offered, the stream brings it one by one and as long as it is subscribed all of it
(`FollowsOn`), and the view is a `Prefix` that is never behind the stream. A late snapshot may replace
a `Trail` by the `Prefix` of its moment. The store tells late replies by their context version, and by their last event where the
versions are equal. That a greater version never brings fewer events needs `MarksOK`: a version counts the
accepted observations, so of two moments the one with the greater version is the later one. `AsksOK` says that a generation
asks for its workspace once and shows nothing before the answer; without it a second answer could open the stream again
behind a view that has gone on. `ViewAssumption`
asks that the server keeps at least the events a snapshot shows (`StreamQueue >= Recents`; in the code 512 and
40): with fewer kept, what a stream replays of a history as short as a snapshot could lack its first events.

All of these rest on the modules' named assumptions about their constants and on nothing else.

What stays with TLC: liveness and anything with ENABLED (`EveryRowSettles`, `DriversEnd`, `ObservationsEnd`,
`StreamsEnd`, `PoolCloseEnds`, `ViewCatchesUp`). Every safety property of a passing run is stated by a theorem. The violated
statements have no proof, of course.

## 6. What the code does not do

Six statements of documents and comments that the code contradicts have a run of their own:

* a late `mark_failed` takes the last outcome version of a row and leaves it PENDING with every
  attempt spent; the dead-letter pass of every later poll of every worker raises on it and claims
  nothing (`outbox_dead_letter`);
* a repeated create request after an answered clarification mixes the first context's status with
  the last context's record and items (`tasks_replay`);
* a run whose announcement meets a full audit buffer is never driven, never pruned and keeps its
  slot (`runs_stranded`);
* an observation that fails while the audit buffer is full takes its lane with it; what was queued there is
  lost, stays counted, and close waits for ever (`obs_close`);
* a feedback that is repeated after another one on the same resource sets the resource's state back to
  the older one, with a new version and a new transition fact, and is answered as a replay
  (`feedback_replay`);
* with more events than a snapshot shows, the browser appends the older ones its stream replays behind the
  newer ones and sets the Agents' states from them again: an Agent may be shown at work that has long
  completed (`view_replay`). The view is right again at the Agent's next event, or when so many old
  events came that the newer ones were pushed out and are shown once more.

More can be read off the code and the models and has no run:

* of two concurrent duplicates of a task request or a feedback one ends in an error, because INSERT IGNORE
  writes nothing and the read behind it is in the older snapshot (`CommitConflict`, `PostFails`); a retry
  succeeds. The append of a review has read nothing before in its transaction and does find the row; of
  two different decisions at a time one ends in an error (`DecisionReturns`);
* a bridged observation that meets a full queue is worked off ahead of older ones; one that is under way
  then sets `last_processed_context_version` back (`BridgeAtOnce`, runtime.py:724). `QueueInOrder` is about the
  lane and does not speak of it;
* a late event with an older time becomes the newest profile version and leaves newer events out
  (`BeginApply`, against docs/adr/0002, which computes the view in event order);
* a completed run whose bridge meets a full audit buffer is reported FAILED after it was reported
  completed, and keeps its result (`FinishRun`, `RunEnds`);
* a stream may be of a later context's run than the one the handler has checked, or break with an exception
  in a response that has begun (`StreamBegins`, `StreamBreaks`); a client that was away for more than 256
  events misses those in between, and a slow one is dropped without a word: the stream ends when the run
  does, short of its last events;
* `observe` remembers the key before it publishes, so the retry of an observation whose publication raised is
  answered as a repetition of one that was never queued (`Enter`);
* `_last_versions` of a session with two workspaces can go back when the older plan returns last (`PlannerEnds`); what
  a workspace shows does not;
* disabling an account that was never activated and enabling it again makes it ACTIVE without a credential
  (`StatusAction`); two password changes at a time may write the same `password_version`; a login may be
  answered with roles older than its `role_version`. A session that is created behind the revocation of a change,
  by a login that had read its versions before the change, is stopped by them (`LoginSession`,
  `EndedSessionStaysEnded`). A login that has verified the old password before a change and reaches
  `complete_login` behind it is not: the versions it is given are the new ones (`LoginVerify`, `LoginComplete`;
  identity/application.py:194 to 208), and its session is usable. `ChangeEndsSessions` speaks of the sessions there are at
  the change, no document orders a change against a login that is under way, and no property covers it;
* a subscriber of a workspace that falls 512 events behind is taken off, but its connection stays open with
  heartbeats, so the client sees no reason to reconnect (`Offered`, and the exception in `ViewCatchesUp`);
* an event whose capture meets a full audit buffer is in the history and in snapshots, but no open stream is
  offered it (agent_workspace/runtime.py:1104 to 1118). The next event that is offered moves the client's
  `Last-Event-ID` past it, so no reconnection brings it either: the view has a hole until a snapshot with it comes. The client that
  made the observation gets an error instead of a snapshot; a repetition of the observation is answered with one.
  Such a snapshot, if it was taken before the next event and comes after it, is of a greater context version than the
  view, which has missed the withheld one; it is not taken for old and the next event is out of the view again
  (`PublishTo`, `Accepts`, `IsOlder`; the exceptions in `ViewCatchesUp`);
* a workspace that nobody used for the retention time is forgotten: an open stream goes on with heartbeats, a
  client that reconnects or observes gets 404, and the loop of `stream` asks again every five
  seconds. The store only gets another workspace when it is started again (agentWorkspace.ts:146);
* a READINESS_CHANGED observation sets Agent states without an event; if its answer is older than what the
  browser shows, or lost, the browser does not learn of them (`runtime.py:343`);
* `update_declared_profile` reads the consent in an earlier transaction than it saves in.

## 7. Not modelled

Left out of the modelled components, because no property depends on it: the tables written in the same commit as
`user_profile` (change log, interests, negative tags) and as a context (traces, policy
decisions, agent facts), which follow that row; actor references and owner checks; the
wording and validation of responses; the intermediate statuses and event payloads of a run; the
in-memory mirror of a workspace that is not audited (it never raises); directives, topics, readiness, the wording of an Agent's state
and the limit of 32 workspaces; in the view, that a workspace is forgotten (its life is modelled in
`WorkspaceObservations`; in the view every request and stream would fail from then on); the declared profile, identifiers and the rights of actors; which
feedback fits which item.

Left out for what they are:

* the batches of the workspace audit worker. `Drain` models the room they give back. A fact that cannot be
  appended rolls its batch back and is first in the queue again; nothing in the repository says what should
  become of it, so there is no property to state, and a model of one queue with one consumer would restate
  the loop;
* the arithmetic of profile replay, ranking, policy and recall fusion: functions of numbers and
  texts without state, covered by the repository's unit tests; the models take their result as a free
  choice. Induction over such data would also be beyond the installed provers;
* the sanitizer and the validator of background planning, request models and contracts: checks of
  texts against fixed lists;
* catalog and exploration adapters, health probes, evaluation, language model clients: read only, or
  external;
* `platform/lifecycle.py`: one loop over a list at shutdown;
* the rest of the frontend: pages and stores that show the answer of one request;
* scripts, experiments and test tooling. They are the greater part of the repository's lines (the scripts
  generate, validate and execute reviewed changes of databases by hand, one process at a time), and
  they keep no state beside those databases. The share of all lines that the map covers is small for
  that reason: the state machines of this repository are in `src/backend/app` and the Agent workspace store.

What could be added: directives with their expiry and actions; the declared profile together with consents.
