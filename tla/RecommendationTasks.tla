------------------------ MODULE RecommendationTasks ------------------------
(***************************************************************************)
(* The stored recommendation task: create_task and submit_clarification of *)
(* MySQLG4RecommendationTaskService, each one transaction that reads its   *)
(* snapshot, runs the agents and appends its rows, and the two readers     *)
(* get_task and _load_execution (recommendation/adapters/g4_mysql.py,      *)
(* mysql.py).  Calls run side by side: in one process, and in several.     *)
(*                                                                         *)
(* The transaction reads at REPEATABLE READ, the server's default, which   *)
(* no setting of the repository changes: a row another call has committed  *)
(* since the snapshot makes INSERT IGNORE write nothing and stays          *)
(* invisible to the SELECT that follows it.                                *)
(***************************************************************************)
EXTENDS Integers, FiniteSets

CONSTANTS
    Tasks,        \* tasks, one per reader and request_id
    Payloads,     \* the rest of a creation request
    Keys,         \* idempotency keys of clarifications
    Answers,      \* what a clarification answers
    Calls,        \* service calls that may be under way at a time
    MaxContext,   \* bound: the agents ask at most MaxContext - 1 times
    NoRow,        \* a row that is not there
    NoCall        \* a call that is not under way

ASSUME TasksAssumption ==
    /\ MaxContext \in Nat \ {0}
    /\ NoRow \notin [payload : Payloads, status : {"WAITING_CLARIFICATION", "COMPLETED"}]

VARIABLES
    root,         \* recommendation_task, an immutable row
    contexts,     \* recommendation_task_context
    record,       \* context_version of recommendation_record; 0 without one
    call          \* the calls under way

storeVars == <<root, contexts, record>>
vars == <<root, contexts, record, call>>

Statuses == {"WAITING_CLARIFICATION", "COMPLETED"}

Init ==
    /\ root = [t \in Tasks |-> NoRow]
    /\ contexts = [t \in Tasks |-> {}]
    /\ record = [t \in Tasks |-> 0]
    /\ call = [c \in Calls |-> NoCall]

-----------------------------------------------------------------------------
(* Requests and replies.                                                   *)

CreateRequests == [kind : {"CREATE"}, task : Tasks, payload : Payloads]
ClarifyRequests ==
    [kind : {"CLARIFY"}, task : Tasks, version : 1 .. MaxContext, key : Keys, answers : Answers]

\* What a reply tells: the status and the context version it is for, and the
\* context whose record and items it shows (0: none).
Reply(status, context, shown) == [status |-> status, context |-> context, shown |-> shown]

Shown(status, version) == IF status = "COMPLETED" THEN version ELSE 0

Latest(t) == {x \in contexts[t] : \A y \in contexts[t] : y.version <= x.version}

\* get_task: the latest context row, else the task row.
TaskStatus(t) == IF contexts[t] # {} THEN (CHOOSE x \in Latest(t) : TRUE).status
                 ELSE IF root[t] = NoRow THEN "NONE" ELSE root[t].status
TaskContext(t) == IF contexts[t] # {} THEN (CHOOSE x \in Latest(t) : TRUE).version
                  ELSE IF root[t] = NoRow THEN 0 ELSE 1

\* _load_execution: with a record, the status and the version of the task row.
LoadExecution(t) ==
    IF record[t] = 0 /\ contexts[t] # {}
      THEN Reply(TaskStatus(t), TaskContext(t), 0)
      ELSE Reply(root[t].status, 1, record[t])

\* response_json of the context row.
StoredResponse(x) == Reply(x.status, x.version, Shown(x.status, x.version))

-----------------------------------------------------------------------------
(* create_task.                                                            *)

Step(c, phase, request, reply) ==
    call' = [call EXCEPT ![c] = [phase |-> phase, request |-> request, reply |-> reply]]

NoReply == Reply("NONE", 0, 0)

\* The snapshot holds the task: the stored execution, or a key reused.
\* Without it the agents start.
BeginCreate(c, r) ==
    /\ call[c] = NoCall
    /\ \/ root[r.task] = NoRow /\ Step(c, "RUNNING", r, NoReply)
       \/ /\ root[r.task] # NoRow
          /\ IF root[r.task].payload = r.payload
               THEN Step(c, "REPLAYED", r, LoadExecution(r.task))
               ELSE Step(c, "REJECTED", r, NoReply)
    /\ UNCHANGED storeVars

\* The append of the task row, its first context or its record, in one commit.
CommitCreate(c, r, status) ==
    /\ root[r.task] = NoRow
    /\ root' = [root EXCEPT ![r.task] = [payload |-> r.payload, status |-> status]]
    /\ contexts' = IF status = "COMPLETED" THEN contexts
                   ELSE [contexts EXCEPT ![r.task] = @ \cup
                          {[version |-> 1, status |-> status, key |-> NoRow, answers |-> NoRow]}]
    /\ record' = [record EXCEPT ![r.task] = Shown(status, 1)]
    /\ Step(c, "STORED", r, Reply(status, 1, Shown(status, 1)))

-----------------------------------------------------------------------------
(* submit_clarification.                                                   *)

Keyed(t, key) == {x \in contexts[t] : x.key = key}

\* Mutant: a context that was answered, or never asked, takes answers.
AcceptsAnyLatest(r) == \E x \in Latest(r.task) : x.version = r.version

\* The context the answers are for is the latest one, and it waits.
Accepts(r) ==
    \E x \in Latest(r.task) : x.version = r.version /\ x.status = "WAITING_CLARIFICATION"

BeginClarify(c, r) ==
    /\ call[c] = NoCall
    /\ \/ /\ Keyed(r.task, r.key) = {}
          /\ IF Accepts(r) THEN Step(c, "RUNNING", r, NoReply)
                           ELSE Step(c, "REJECTED", r, NoReply)
       \/ \E x \in Keyed(r.task, r.key) :
            IF x.answers = r.answers THEN Step(c, "REPLAYED", r, StoredResponse(x))
                                     ELSE Step(c, "REJECTED", r, NoReply)
    /\ UNCHANGED storeVars

\* Mutants: the table lacks its unique keys, or the one on the version.
NeverTaken(r) == r.version = 0
TakenByKey(r) == \E x \in contexts[r.task] : x.key = r.key

\* A row under one of the unique keys the append meets, committed by another
\* call since the snapshot.
Taken(r) == \E x \in contexts[r.task] : x.version = r.version + 1 \/ x.key = r.key

CommitClarify(c, r, status) ==
    /\ ~Taken(r)
    /\ contexts' = [contexts EXCEPT ![r.task] = @ \cup
                     {[version |-> r.version + 1, status |-> status,
                       key |-> r.key, answers |-> r.answers]}]
    /\ record' = IF status = "COMPLETED" THEN [record EXCEPT ![r.task] = r.version + 1] ELSE record
    /\ Step(c, "STORED", r, Reply(status, r.version + 1, Shown(status, r.version + 1)))
    /\ UNCHANGED root

-----------------------------------------------------------------------------
(* Either call.                                                            *)

Running(c) == call[c] # NoCall /\ call[c].phase = "RUNNING"

Version(r) == IF r.kind = "CREATE" THEN 1 ELSE r.version + 1

Commit(c) ==
    /\ Running(c)
    /\ \E status \in Statuses :
         /\ status = "WAITING_CLARIFICATION" => Version(call[c].request) < MaxContext
         /\ \/ call[c].request.kind = "CREATE" /\ CommitCreate(c, call[c].request, status)
            \/ call[c].request.kind = "CLARIFY" /\ CommitClarify(c, call[c].request, status)

\* The row was there, the SELECT behind the INSERT IGNORE does not see it and
\* the append raises ValueError; the transaction is rolled back.
CommitConflict(c) ==
    /\ Running(c)
    /\ LET r == call[c].request
       IN  /\ IF r.kind = "CREATE" THEN root[r.task] # NoRow ELSE Taken(r)
           /\ Step(c, "CONFLICT", r, NoReply)
    /\ UNCHANGED storeVars

\* Anything else that ends a call before its commit: the deadline, a lost
\* connection, the end of the process.
Fail(c) ==
    /\ Running(c)
    /\ Step(c, "FAILED", call[c].request, NoReply)
    /\ UNCHANGED storeVars

\* No connection for the call: the pool has none in time or the server is away.
Unavailable(c, r) ==
    /\ call[c] = NoCall
    /\ Step(c, "FAILED", r, NoReply)
    /\ UNCHANGED storeVars

Return(c) ==
    /\ call[c] # NoCall /\ ~Running(c)
    /\ call' = [call EXCEPT ![c] = NoCall]
    /\ UNCHANGED storeVars

Next ==
    \E c \in Calls :
        \/ \E r \in CreateRequests : BeginCreate(c, r)
        \/ \E r \in ClarifyRequests : BeginClarify(c, r)
        \/ \E r \in CreateRequests \cup ClarifyRequests : Unavailable(c, r)
        \/ Commit(c)
        \/ CommitConflict(c)
        \/ Fail(c)
        \/ Return(c)

Spec == Init /\ [][Next]_vars

-----------------------------------------------------------------------------
(* Safety.                                                                 *)

\* Every variable has its type.
Phases == {"RUNNING", "STORED", "REPLAYED", "REJECTED", "CONFLICT", "FAILED"}
Replies == [status : Statuses \cup {"NONE"}, context : Nat, shown : Nat]
Rows == [version : Nat, status : Statuses, key : Keys \cup {NoRow}, answers : Answers \cup {NoRow}]
CallRecords ==
    [phase : Phases, request : CreateRequests \cup ClarifyRequests, reply : Replies]

TypeOK ==
    /\ root \in [Tasks -> [payload : Payloads, status : Statuses] \cup {NoRow}]
    /\ contexts \in [Tasks -> SUBSET Rows]
    /\ record \in [Tasks -> Nat]
    /\ call \in [Calls -> CallRecords \cup {NoCall}]

\* The contexts of a task are one line: numbered without gap or repetition,
\* each key used once, and only the last one no longer waits, whichever calls
\* raced to append them (the unique keys, _append_task and
\* append_continuation_context).
ContextsAreOneLine ==
    \A t \in Tasks :
        /\ {x.version : x \in contexts[t]} = 1 .. Cardinality(contexts[t])
        /\ \A x, y \in contexts[t] :
             /\ x.version = y.version => x = y
             /\ x.key = y.key => x = y
             /\ x.version < y.version => x.status = "WAITING_CLARIFICATION"

\* A task has its record exactly when it is completed, and the record is the
\* one of the context that completed it (_append_completed, get_task).
RecordIsTheLastContexts ==
    \A t \in Tasks : record[t] = Shown(TaskStatus(t), TaskContext(t))

Stored(r) ==
    IF r.kind = "CREATE"
      THEN root[r.task] # NoRow /\ root[r.task].payload = r.payload
      ELSE \E x \in Keyed(r.task, r.key) : x.answers = r.answers

\* A request that is stored adds no second fact, however often and from how
\* many processes it is tried (docs/api.md, 2.4 rule 5).
RetryAddsNoFact ==
    [][\A c \in Calls : call'[c] # call[c] /\ Running(c) /\ Stored(call[c].request)
         => UNCHANGED storeVars]_vars

\* The task every reader of get_task sees is created once, moves on one
\* context per answer and is final once completed.
Lifecycle == INSTANCE TaskLifecycle WITH
    stage <- [t \in Tasks |-> TaskStatus(t)],
    context <- [t \in Tasks |-> TaskContext(t)]

KeepsTheLifecycle == Lifecycle!Spec

-----------------------------------------------------------------------------
(* A statement of the documents that the code does not keep.               *)

\* The reply the first call with this request got.
Original(r) ==
    IF r.kind = "CREATE"
      THEN Reply(root[r.task].status, 1, Shown(root[r.task].status, 1))
      ELSE StoredResponse(CHOOSE x \in Keyed(r.task, r.key) : TRUE)

\* The same key with the same payload gets the original result
\* (docs/api.md, 2.4 rule 3).
ReplayIsTheOriginal ==
    \A c \in Calls : (call[c] # NoCall /\ call[c].phase = "REPLAYED")
        => call[c].reply = Original(call[c].request)
============================================================================
