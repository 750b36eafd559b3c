------------------------- MODULE RecommendationRuns -------------------------
(***************************************************************************)
(* Recommendation runs: POST /recommendation-runs reserves a run in the    *)
(* in-memory RecommendationProgressBroker (recommendation/progress.py) and *)
(* starts a background task, its driver, that calls the service of         *)
(* RecommendationTasks and then completes or fails the run                 *)
(* (api/recommendation_runs.py).  A run started from an Agent workspace is *)
(* mirrored into it, and every mirrored event of an audited workspace      *)
(* takes room in a bounded buffer and raises when there is none            *)
(* (agent_workspace/runtime.py, audit.py).                                 *)
(*                                                                         *)
(* The event loop makes every step between two awaits atomic.  Calls       *)
(* without a driver are those of the synchronous routes and of other       *)
(* processes.                                                              *)
(***************************************************************************)
EXTENDS RecommendationTasks

CONSTANTS
    MaxConcurrent,   \* runs that may be under way
    MaxFacts,        \* bound: agent_workspace_audit_max_facts
    Mirrored,        \* may runs be mirrored into an audited workspace
    NoRun,           \* no run of the task is known
    NoDriver         \* a call that no run started

Requests == CreateRequests \cup ClarifyRequests

RunRecords ==
    [request : Requests, context : Nat, terminal : BOOLEAN,
     status : Statuses \cup {"NONE", "ACCEPTED", "FAILED"}, result : Replies]

ASSUME RunsAssumption ==
    /\ MaxConcurrent \in Nat \ {0}
    /\ MaxFacts \in Nat
    /\ Mirrored \subseteq BOOLEAN
    /\ NoRun \notin RunRecords

VARIABLES
    runs,     \* the broker's run of every task
    driver,   \* the run a call works for
    room,     \* facts the audit buffer still takes
    door      \* the broker is open, closing (it waits) or closed

runVars == <<runs, driver, room, door>>
allVars == <<vars, runVars>>

\* The facts bridge_task_terminal captures: RECOMMENDATION_COMPLETED,
\* OBSERVATION_ACCEPTED, STATE_CHANGED.
TerminalFacts == 3

RunsInit ==
    /\ Init
    /\ runs = [t \in Tasks |-> NoRun]
    /\ driver = [c \in Calls |-> NoDriver]
    /\ room = MaxFacts
    /\ door = "OPEN"

-----------------------------------------------------------------------------
(* reserve.                                                                *)

Live == {t \in Tasks : runs[t] # NoRun /\ ~runs[t].terminal}

\* Mutants: a run under way, or a newer one, is replaced.
ReplacesLive(r) == runs[r.task] # NoRun => Version(r) > runs[r.task].context
ReplacesNewer(r) == runs[r.task] # NoRun => runs[r.task].terminal

\* Only a terminal run gives way, and only to a later context.  (The same
\* context is a replay or a conflict and changes nothing.)
Replaceable(r) ==
    runs[r.task] # NoRun => runs[r.task].terminal /\ Version(r) > runs[r.task].context

\* Mutants: a closed broker takes runs, or a full one.
TakesWhenClosed(r) == Replaceable(r) /\ Cardinality(Live) < MaxConcurrent
TakesWhenFull(r) == door = "OPEN" /\ Replaceable(r)

Reservable(r) == door = "OPEN" /\ Replaceable(r) /\ Cardinality(Live) < MaxConcurrent

\* clarify_run looks the task up first.
Known(r) == r.kind = "CLARIFY" => root[r.task] # NoRow

Reserve(r) ==
    runs' = [runs EXCEPT ![r.task] = [request |-> r, context |-> Version(r), terminal |-> FALSE,
                                      status |-> "ACCEPTED", result |-> NoReply]]

\* create_run announces a mirrored run in the workspace before it starts the
\* driver; clarify_run does not.
Announced(r, mirrored) == mirrored /\ r.kind = "CREATE"

StartRun(c, r, mirrored) ==
    /\ call[c] = NoCall /\ driver[c] = NoDriver
    /\ Known(r) /\ Reservable(r)
    /\ Announced(r, mirrored) => room > 0
    /\ Reserve(r)
    /\ driver' = [driver EXCEPT ![c] = [request |-> r, mirrored |-> mirrored]]
    /\ room' = IF Announced(r, mirrored) THEN room - 1 ELSE room
    /\ UNCHANGED <<vars, door>>

\* The announcement raises: the request fails, the run stays reserved and no
\* driver is started for it.
StrandRun(r, mirrored) ==
    /\ Known(r) /\ Reservable(r)
    /\ Announced(r, mirrored) /\ room = 0
    /\ Reserve(r)
    /\ UNCHANGED <<vars, driver, room, door>>

-----------------------------------------------------------------------------
(* The driver: execute and execute_clarification.                          *)

BeginRun(c) ==
    /\ driver[c] # NoDriver
    /\ LET r == driver[c].request
       IN  \/ r.kind = "CREATE" /\ BeginCreate(c, r)
           \/ r.kind = "CLARIFY" /\ BeginClarify(c, r)
           \/ Unavailable(c, r)
    /\ UNCHANGED runVars

\* A progress event of a mirrored run; without room it raises, which is one
\* of the ways the service call fails.
Progress(c) ==
    /\ driver[c] # NoDriver /\ driver[c].mirrored
    /\ Running(c)
    /\ room > 0
    /\ room' = room - 1
    /\ UNCHANGED <<vars, runs, driver, door>>

\* Mutant: an exception the driver does not catch.
EndsWithoutConflict(c) == call[c] # NoCall /\ call[c].phase \in {"STORED", "REPLAYED", "REJECTED", "FAILED"}

\* The service call has returned or raised.
ServiceEnded(c) == call[c] # NoCall /\ ~Running(c)

ReplyOf(c) == call[c].reply

\* complete or fail, then the bridge into the workspace; a bridge that raises
\* sends a completed run through fail too.
FinishRun(c) ==
    /\ driver[c] # NoDriver
    /\ ServiceEnded(c)
    /\ LET replied == call[c].phase \in {"STORED", "REPLAYED"}
           raises == driver[c].mirrored /\ room < TerminalFacts
       IN  /\ runs' = [runs EXCEPT ![driver[c].request.task] =
                 [@ EXCEPT !.terminal = TRUE,
                           !.status = IF replied /\ ~raises THEN ReplyOf(c).status ELSE "FAILED",
                           !.result = IF replied THEN ReplyOf(c) ELSE NoReply]]
           /\ room' = IF raises THEN 0
                      ELSE IF driver[c].mirrored THEN room - TerminalFacts ELSE room
    /\ driver' = [driver EXCEPT ![c] = NoDriver]
    /\ call' = [call EXCEPT ![c] = NoCall]
    /\ UNCHANGED <<storeVars, door>>

-----------------------------------------------------------------------------
(* Calls of the synchronous routes and of other processes.                 *)

DirectBegin(c) ==
    /\ driver[c] = NoDriver
    /\ \/ \E r \in CreateRequests : BeginCreate(c, r)
       \/ \E r \in ClarifyRequests : BeginClarify(c, r)
    /\ UNCHANGED runVars

DirectReturn(c) == driver[c] = NoDriver /\ Return(c) /\ UNCHANGED runVars

ServiceStep(c) == (Commit(c) \/ CommitConflict(c) \/ Fail(c)) /\ UNCHANGED runVars

-----------------------------------------------------------------------------
(* Retention, audit and the process.                                       *)

\* A terminal run is forgotten once its retention is over.
PruneRun(t) ==
    /\ runs[t] # NoRun /\ runs[t].terminal
    /\ runs' = [runs EXCEPT ![t] = NoRun]
    /\ UNCHANGED <<vars, driver, room, door>>

\* The audit worker, started by an operator, drains what it can.
DrainAudit ==
    /\ \E n \in room + 1 .. MaxFacts : room' = n
    /\ UNCHANGED <<vars, runs, driver, door>>

\* close refuses new runs and waits for the drivers there are.
Close ==
    /\ door = "OPEN"
    /\ door' = "CLOSING"
    /\ UNCHANGED <<vars, runs, driver, room>>

Closed ==
    /\ door = "CLOSING"
    /\ \A c \in Calls : driver[c] = NoDriver
    /\ door' = "CLOSED"
    /\ UNCHANGED <<vars, runs, driver, room>>

\* The process ends, orderly or not, and comes back with an empty broker and
\* an empty buffer; transactions of its drivers are rolled back.
RestartProcess ==
    /\ runs' = [t \in Tasks |-> NoRun]
    /\ driver' = [c \in Calls |-> NoDriver]
    /\ call' = [c \in Calls |-> IF driver[c] # NoDriver THEN NoCall ELSE call[c]]
    /\ room' = MaxFacts
    /\ door' = "OPEN"
    /\ UNCHANGED storeVars

RunsNext ==
    \/ \E r \in Requests, mirrored \in Mirrored :
         \/ \E c \in Calls : StartRun(c, r, mirrored)
         \/ StrandRun(r, mirrored)
    \/ \E c \in Calls :
         \/ BeginRun(c)
         \/ Progress(c)
         \/ ServiceStep(c)
         \/ FinishRun(c)
         \/ DirectBegin(c)
         \/ DirectReturn(c)
    \/ \E t \in Tasks : PruneRun(t)
    \/ DrainAudit
    \/ Close
    \/ Closed
    \/ RestartProcess

RunsSpec == RunsInit /\ [][RunsNext]_allVars

\* The event loop runs every driver, and the request deadline and the
\* database's answers end every service call.
RunsFairness ==
    \A c \in Calls :
        /\ WF_allVars(BeginRun(c))
        /\ WF_allVars(driver[c] # NoDriver /\ ServiceStep(c))
        /\ WF_allVars(FinishRun(c))

FairRunsSpec == RunsSpec /\ RunsFairness

-----------------------------------------------------------------------------
(* Safety.                                                                 *)

\* Every variable of the broker has its type.
RunsTypeOK ==
    /\ runs \in [Tasks -> RunRecords \cup {NoRun}]
    /\ driver \in [Calls -> [request : Requests, mirrored : BOOLEAN] \cup {NoDriver}]
    /\ room \in 0 .. MaxFacts
    /\ door \in {"OPEN", "CLOSING", "CLOSED"}

\* A driver publishes, completes and fails by task id alone, and yet it only
\* ever reaches the run that started it: while a driver is under way its run
\* is there, is not terminal, and no second driver works for the task
\* (_required, reserve, _prune).
DriversMatchRuns ==
    \A c \in Calls : driver[c] # NoDriver =>
        LET run == runs[driver[c].request.task]
        IN  /\ run # NoRun
            /\ ~run.terminal
            /\ run.request = driver[c].request
            /\ \A d \in Calls \ {c} :
                 driver[d] # NoDriver => driver[d].request.task # driver[c].request.task

\* The result a terminal run shows is in the store: its context is a stored
\* one with that status, and the items are those of the task's record,
\* whoever else answered, created or replayed the task meanwhile.
RunResultIsStored ==
    \A t \in Tasks : (runs[t] # NoRun /\ runs[t].result # NoReply) =>
        LET result == runs[t].result
        IN  /\ \/ \E x \in contexts[t] : x.version = result.context /\ x.status = result.status
               \/ result.context = 1 /\ root[t] # NoRow /\ root[t].status = result.status
            /\ result.shown \in {0, record[t]}

\* A terminal run is final until a later context takes its place or its
\* retention is over (docs: terminal states are kept).
TerminalRunIsFinal ==
    [][\A t \in Tasks : (runs[t] # NoRun /\ runs[t].terminal /\ runs'[t] # runs[t])
         => runs'[t] = NoRun \/ runs'[t].context > runs[t].context]_allVars

\* At most MaxConcurrent drivers are under way, although a slot is given back
\* by a run and taken by a request (reserve, complete, fail, _prune).
DriversBounded == Cardinality({c \in Calls : driver[c] # NoDriver}) <= MaxConcurrent

\* Once close has returned no driver is under way, so the pools may go.
CloseWaitsForDrivers == door = "CLOSED" => \A c \in Calls : driver[c] = NoDriver

-----------------------------------------------------------------------------
(* Liveness.                                                               *)

\* Every driver ends, and with it its run.
DriversEnd == \A c \in Calls : driver[c] # NoDriver ~> driver[c] = NoDriver

-----------------------------------------------------------------------------
(* Statements of the documents that the code does not keep.                *)

\* Accepted runs end (the broker's close waits for accepted runs; at most 8
\* runs are under way, each kept for ten minutes after it ended).
AcceptedRunsEnd ==
    \A t \in Tasks : (runs[t] # NoRun /\ ~runs[t].terminal)
        ~> (runs[t] = NoRun \/ runs[t].terminal)
============================================================================
