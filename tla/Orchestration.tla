--------------------------- MODULE Orchestration ---------------------------
(***************************************************************************)
(* One recommendation's way through the Agents, as the orchestrator leads  *)
(* it (recommendation/agents/orchestrator.py), with the dependencies of    *)
(* the Agents tried again until the deadline (agents/base.py), one         *)
(* snapshot of the catalog for the whole task (catalog/application), and   *)
(* every fact of the run appended in one transaction, against those an     *)
(* earlier run of the same request may have left                           *)
(* (application/persistent_orchestration.py, agent_logging_mysql.py).      *)
(*                                                                         *)
(* Runs are repetitions of one request: same task, same context, same      *)
(* deadline.  What an Agent answers is free within its role, since         *)
(* databases, indexes and language models answer as they like.             *)
(***************************************************************************)
EXTENDS Integers, Sequences

CONSTANTS
    Runs,         \* runs of the request, possibly at the same time
    Shaky,        \* stages whose Agent may fall back or be short of results
    MaxTries,     \* RetryPolicy.max_attempts
    MaxCatalog,   \* bound: versions of the catalog
    NoSnapshot,
    NoFacts

Stages == {"INTENT", "PROFILE", "PROBE", "POLICY", "RECALL", "RANK", "EXPLAIN"}

TaskStatuses ==
    {"CREATED", "UNDERSTANDING", "PROBING", "DECIDING", "WAITING_CLARIFICATION", "RECALLING",
     "RANKING", "REPLANNING", "EXPLAINING", "PERSISTING", "COMPLETED", "DEGRADED_COMPLETED"}

Facts ==
    [stage : Stages, attempt : 1 .. 2,
     says : {"READY", "FALLBACK", "DIRECT", "DEGRADED", "ASK", "OTHER", "CHANNEL", "NONE",
             "ITEMS", "EMPTY", "REPLAN"},
     evidence : Nat \cup {NoSnapshot}]

\* The facts a request leaves.
StoredFacts == [facts : Seq(Facts), moves : Seq(TaskStatuses)]

ASSUME OrchestrationAssumption ==
    /\ Shaky \subseteq Stages
    /\ MaxTries \in Nat \ {0}
    /\ MaxCatalog \in Nat \ {0}
    /\ NoSnapshot \notin Nat
    /\ NoFacts \notin StoredFacts

VARIABLES
    at,        \* the Agent a run waits for, or what else it is about
    replans,   \* replan_count
    moves,     \* the statuses of the task: transitions
    trace,     \* what the Agents answered: dispatches, trace
    tries,     \* attempts of the call a dependency is asked in
    cache,     \* _cached_snapshot of the run's evidence reader
    late,      \* deadline_at has passed
    catalog,   \* version of the catalog's data
    stored     \* the facts of the request in the database

progressVars == <<at, replans, moves, trace, tries>>
orchestrationVars == <<progressVars, cache, late, catalog, stored>>

OrchestrationInit ==
    /\ at = [r \in Runs |-> "NEW"]
    /\ replans = [r \in Runs |-> 0]
    /\ \E first \in {"CREATED", "WAITING_CLARIFICATION"} : moves = [r \in Runs |-> <<first>>]
    /\ trace = [r \in Runs |-> <<>>]
    /\ tries = [r \in Runs |-> 0]
    /\ cache = [r \in Runs |-> NoSnapshot]
    /\ late = FALSE
    /\ catalog = 1
    /\ stored = NoFacts

-----------------------------------------------------------------------------
(* Answers.                                                                *)

\* What an Agent said, in which attempt, on which catalog snapshot.
Fact(r, says, evidence) ==
    [stage |-> at[r], attempt |-> replans[r] + 1, says |-> says, evidence |-> evidence]

\* results[receiver]: a later result of an Agent replaces the earlier one.
FinalResults(facts) ==
    {facts[i] : i \in {j \in 1 .. Len(facts) :
                         \A k \in j + 1 .. Len(facts) : facts[k].stage # facts[j].stage}}

\* Answers that carry a warning, and of them those that miss a channel.
Warns(f) == f.says \in {"FALLBACK", "NONE", "EMPTY", "REPLAN", "CHANNEL", "DEGRADED"}
MissesChannel(f) == f.says \in {"CHANNEL", "DEGRADED"}

Unranked(facts) ==
    \A f \in FinalResults(facts) : f.stage = "RANK" => f.says # "ITEMS"

\* Mutant: the warnings of the Agents are not collected.
WithoutWarnings(facts) == Unranked(facts)

\* _collect_warnings, and no items to show.
Degraded(facts) == Unranked(facts) \/ \E f \in FinalResults(facts) : Warns(f)

\* _reconcile_runtime_degradation: the delivery strategy that is shown is the
\* policy's, unless a channel or every item was missing.
Delivery(facts) ==
    IF Unranked(facts) \/ \E f \in FinalResults(facts) : MissesChannel(f)
    THEN "DEGRADED" ELSE "DIRECT"

\* What the Agents answer in their roles.  No candidates rank to no items, and
\* no items explain to nothing.
Usual(r) ==
    CASE at[r] \in {"INTENT", "PROFILE", "PROBE", "RECALL"} -> {"READY"}
      [] at[r] = "POLICY" -> {"DIRECT", "ASK"}
      [] at[r] = "RANK" ->
           {"REPLAN", IF trace[r][Len(trace[r])].says \in {"NONE", "FALLBACK"}
                      THEN "EMPTY" ELSE "ITEMS"}
      [] at[r] = "EXPLAIN" ->
           {IF trace[r][Len(trace[r])].says = "ITEMS" THEN "READY" ELSE "FALLBACK"}
      [] OTHER -> {}

Poor(r) ==
    CASE at[r] \in {"INTENT", "EXPLAIN"} -> {"FALLBACK"}
      [] at[r] = "POLICY" -> {"DEGRADED", "OTHER"}
      [] at[r] = "RECALL" -> {"CHANNEL", "NONE"}
      [] at[r] = "RANK" -> {"OTHER"}
      [] OTHER -> {}

RoleAnswers(r) == Usual(r) \cup (IF at[r] \in Shaky THEN Poor(r) ELSE {})

-----------------------------------------------------------------------------
(* Dependencies.                                                           *)

\* The Agents that ask a dependency, and those of them that read the catalog.
Asks(r) == at[r] \in {"PROFILE", "PROBE", "RECALL"}
ReadsCatalog(r) == at[r] \in {"PROBE", "RECALL"}

\* call_with_retry has no attempt left, or no time.
GivesUp(r) == late \/ tries[r] = MaxTries

\* Mutant: every Agent reads the catalog for itself.
OwnSnapshot(r) == catalog

\* read_evidence_snapshot: the snapshot that was read first is the task's.
Snapshot(r) == IF cache[r] = NoSnapshot THEN catalog ELSE cache[r]

\* A dependency fails or times out and is asked again.
Retry(r) ==
    /\ Asks(r) /\ at[r] \in Shaky
    /\ ReadsCatalog(r) => cache[r] = NoSnapshot
    /\ ~GivesUp(r)
    /\ tries' = [tries EXCEPT ![r] = @ + 1]
    /\ UNCHANGED <<at, replans, moves, trace, cache, late, catalog, stored>>

-----------------------------------------------------------------------------
(* run.                                                                    *)

\* REQUEST_REPLAN is granted once.
Grants(r, says) == says = "REPLAN" /\ replans[r] = 0

\* An action of the Agent with which the task cannot go on.
Refused(r, says) == says = "OTHER" \/ (says = "ASK" /\ replans[r] = 1)

\* The run raises: its connection is rolled back and closed, and what it knew
\* is gone.
Raise(r) ==
    /\ at' = [at EXCEPT ![r] = "FAILED"]
    /\ replans' = [replans EXCEPT ![r] = 0]
    /\ moves' = [moves EXCEPT ![r] = <<>>]
    /\ trace' = [trace EXCEPT ![r] = <<>>]
    /\ tries' = [tries EXCEPT ![r] = 0]
    /\ cache' = [cache EXCEPT ![r] = NoSnapshot]

\* The task takes these statuses (transition, which finds every one of them
\* allowed) and goes on to its next Agent, with n plans made again.
Advance(r, facts, evidence, statuses, stage, n) ==
    /\ at' = [at EXCEPT ![r] = stage]
    /\ replans' = [replans EXCEPT ![r] = n]
    /\ moves' = [moves EXCEPT ![r] = @ \o statuses]
    /\ trace' = [trace EXCEPT ![r] = facts]
    /\ tries' = [tries EXCEPT ![r] = 0]
    /\ cache' = [cache EXCEPT ![r] = IF evidence = NoSnapshot THEN @ ELSE evidence]

Start(r) ==
    /\ at[r] = "NEW"
    /\ IF late THEN Raise(r)
       ELSE Advance(r, <<>>, NoSnapshot, <<"UNDERSTANDING">>, "INTENT", 0)
    /\ UNCHANGED <<late, catalog, stored>>

\* Where an answer takes the task: the statuses and the next Agent.
Way(r, says, facts) ==
    CASE at[r] = "INTENT" -> [statuses |-> <<"PROBING">>, stage |-> "PROFILE"]
      [] at[r] = "PROFILE" -> [statuses |-> <<>>, stage |-> "PROBE"]
      [] at[r] = "PROBE" -> [statuses |-> <<"DECIDING">>, stage |-> "POLICY"]
      [] at[r] = "POLICY" ->
           IF says = "ASK" THEN [statuses |-> <<"WAITING_CLARIFICATION">>, stage |-> "PERSIST"]
           ELSE [statuses |-> <<"RECALLING">>, stage |-> "RECALL"]
      [] at[r] = "RECALL" -> [statuses |-> <<"RANKING">>, stage |-> "RANK"]
      [] at[r] = "RANK" ->
           IF Grants(r, says) THEN [statuses |-> <<"REPLANNING">>, stage |-> "POLICY"]
           ELSE [statuses |-> <<"EXPLAINING">>, stage |-> "EXPLAIN"]
      [] OTHER ->
           [statuses |-> <<"PERSISTING",
                           IF Degraded(facts) THEN "DEGRADED_COMPLETED" ELSE "COMPLETED">>,
            stage |-> "PERSIST"]

\* The Agent's answer, if the task can go on with it and its next Agent can
\* still be asked in time.
Answered(r, says, evidence) ==
    LET facts == Append(trace[r], Fact(r, says, evidence))
        way == Way(r, says, facts)
    IN  /\ IF Refused(r, says) \/ (late /\ way.stage # "PERSIST")
           THEN Raise(r)
           ELSE Advance(r, facts, evidence, way.statuses, way.stage,
                        IF Grants(r, says) THEN replans[r] + 1 ELSE replans[r])
        /\ UNCHANGED <<late, catalog, stored>>

\* An Agent answers, from the catalog if it has to.
Answer(r) ==
    /\ at[r] \in Stages
    /\ Asks(r) => ~GivesUp(r)
    /\ \E says \in RoleAnswers(r) :
         Answered(r, says, IF ReadsCatalog(r) THEN Snapshot(r) ELSE NoSnapshot)

\* Its dependency is given up, and it answers without.
AnswerWithout(r) ==
    /\ Asks(r)
    /\ GivesUp(r)
    /\ Answered(r, "FALLBACK", NoSnapshot)

\* Anything else raises, the call is cancelled, or the process dies.
Break(r) ==
    /\ at[r] \in Stages \cup {"PERSIST"}
    /\ Raise(r)
    /\ UNCHANGED <<late, catalog, stored>>

-----------------------------------------------------------------------------
(* persist_orchestration.                                                  *)

FactsOf(r) == [facts |-> trace[r], moves |-> moves[r]]

\* Mutant: a row that is already there is taken for the own one.
TakenForOwn(r) == TRUE

\* Every row that is already there is compared with the run's own.
Repeats(r) == stored = FactsOf(r)

\* The facts of the run are appended and committed.
Persist(r) ==
    /\ at[r] = "PERSIST"
    /\ stored = NoFacts \/ Repeats(r)
    /\ stored' = IF stored = NoFacts THEN FactsOf(r) ELSE stored
    /\ at' = [at EXCEPT ![r] = "DONE"]
    /\ UNCHANGED <<replans, moves, trace, tries, cache, late, catalog>>

\* Those of another run are there, or not yet visible in this one's snapshot.
Conflict(r) ==
    /\ at[r] = "PERSIST"
    /\ stored # NoFacts
    /\ Raise(r)
    /\ UNCHANGED <<late, catalog, stored>>

-----------------------------------------------------------------------------
(* The rest of the world.                                                  *)

DeadlinePasses ==
    /\ ~late
    /\ late' = TRUE
    /\ UNCHANGED <<progressVars, cache, catalog, stored>>

CatalogChanges ==
    /\ catalog < MaxCatalog
    /\ catalog' = catalog + 1
    /\ UNCHANGED <<progressVars, cache, late, stored>>

RunStep(r) ==
    Start(r) \/ Retry(r) \/ Answer(r) \/ AnswerWithout(r) \/ Break(r) \/ Persist(r) \/ Conflict(r)

OrchestrationNext ==
    \/ \E r \in Runs : RunStep(r)
    \/ DeadlinePasses
    \/ CatalogChanges

OrchestrationSpec == OrchestrationInit /\ [][OrchestrationNext]_orchestrationVars

-----------------------------------------------------------------------------
(* Safety.                                                                 *)

\* Every variable has its type; a task is planned again at most once, and a
\* dependency is asked at most MaxTries times for one answer (call_with_retry).
OrchestrationTypeOK ==
    /\ at \in [Runs -> Stages \cup {"NEW", "PERSIST", "DONE", "FAILED"}]
    /\ replans \in [Runs -> 0 .. 1]
    /\ moves \in [Runs -> Seq(TaskStatuses)]
    /\ trace \in [Runs -> Seq(Facts)]
    /\ tries \in [Runs -> 0 .. MaxTries]
    /\ cache \in [Runs -> Nat \cup {NoSnapshot}]
    /\ late \in BOOLEAN
    /\ catalog \in 1 .. MaxCatalog
    /\ stored \in StoredFacts \cup {NoFacts}

\* The statuses that follow a status (shared_kernel/contracts/state.py).
Normal(from) ==
    CASE from \in {"CREATED", "WAITING_CLARIFICATION"} -> {"UNDERSTANDING"}
      [] from = "UNDERSTANDING" -> {"PROBING"}
      [] from = "PROBING" -> {"DECIDING"}
      [] from = "DECIDING" -> {"WAITING_CLARIFICATION", "RECALLING"}
      [] from = "RECALLING" -> {"RANKING"}
      [] from = "RANKING" -> {"REPLANNING", "EXPLAINING"}
      [] from = "REPLANNING" -> {"RECALLING"}
      [] from = "EXPLAINING" -> {"PERSISTING"}
      [] from = "PERSISTING" -> {"COMPLETED", "DEGRADED_COMPLETED"}
      [] OTHER -> {}

\* The orchestrator never attempts a transition that is not allowed, on any
\* way the answers may lead it, so transition never raises in a task's middle.
EveryMoveIsAllowed ==
    \A r \in Runs : \A i \in 1 .. Len(moves[r]) - 1 : moves[r][i + 1] \in Normal(moves[r][i])

\* All Agents of a task that saw the catalog saw the same version of it, also
\* in the second plan and although it changed meanwhile (_cached_snapshot).
OneCatalogPerTask ==
    \A r \in Runs : \A i, j \in 1 .. Len(trace[r]) :
        (trace[r][i].evidence # NoSnapshot /\ trace[r][j].evidence # NoSnapshot)
            => trace[r][i].evidence = trace[r][j].evidence

\* A task that ends COMPLETED has items, and a delivery strategy that agrees:
\* none of the Agents' last answers was a makeshift, whatever the answers that
\* a second plan replaced (_collect_warnings, _reconcile_runtime_degradation).
CompletedIsWhole ==
    \A r \in Runs : at[r] \in {"PERSIST", "DONE"} =>
        LET facts == trace[r]
        IN  moves[r][Len(moves[r])] = "COMPLETED" =>
              /\ facts[Len(facts) - 1].says = "ITEMS"
              /\ facts[Len(facts)].says = "READY"
              /\ Delivery(facts) = "DIRECT"
              /\ \A i \in (1 .. 3) \cup (Len(facts) - 3 .. Len(facts)) : ~Warns(facts[i])

\* Whoever got a result finds exactly the facts of that result in the store,
\* however often and however concurrently the request was repeated: no run's
\* facts are mixed with another's, and none is stored in part.
ResultIsTheStoredOne ==
    \A r \in Runs : at[r] = "DONE" => stored = FactsOf(r)
=============================================================================
