--------------------- MODULE RecommendationTasksProofs ---------------------
(***************************************************************************)
(* Proofs about RecommendationTasks and BaselineTasks, for any tasks,      *)
(* payloads, keys and answers and any number of concurrent calls.          *)
(***************************************************************************)
EXTENDS BaselineTasks, FiniteSetTheorems, TLAPS

-----------------------------------------------------------------------------
(* The inductive invariant.  A call under way cannot rely on what it read, *)
(* only on what nobody takes back: the context it answers is still there   *)
(* and still waits.                                                        *)

\* The contexts of a task are numbered without gap, each version and each key
\* is used once, and all but the last wait.
LineOK(t) ==
    /\ IsFiniteSet(contexts[t])
    /\ {x.version : x \in contexts[t]} = 1 .. Cardinality(contexts[t])
    /\ \A x, y \in contexts[t] :
         /\ x.version = y.version => x = y
         /\ x.key = y.key => x = y
         /\ x.version < y.version => x.status = "WAITING_CLARIFICATION"

\* Contexts and record exist with the task row only, and a task without a
\* context was completed at once.
RootOK(t) ==
    /\ root[t] = NoRow => contexts[t] = {} /\ record[t] = 0
    /\ root[t] # NoRow /\ contexts[t] = {} => root[t].status = "COMPLETED"

\* A running clarification answers a context that is there and waits.
CallOK(c) ==
    (Running(c) /\ call[c].request.kind = "CLARIFY") =>
        \E x \in contexts[call[c].request.task] :
            x.version = call[c].request.version /\ x.status = "WAITING_CLARIFICATION"

TasksInv ==
    /\ TypeOK
    /\ \A t \in Tasks : LineOK(t) /\ RootOK(t)
    /\ RecordIsTheLastContexts
    /\ \A c \in Calls : CallOK(c)

-----------------------------------------------------------------------------
(* The latest context.                                                     *)

\* A task with contexts has one latest context, and its version is their
\* number.
LEMMA LatestIsLast ==
    ASSUME NEW t \in Tasks, TypeOK, LineOK(t), contexts[t] # {}
    PROVE  \E x \in contexts[t] :
             /\ Latest(t) = {x}
             /\ x.version = Cardinality(contexts[t])
             /\ TaskStatus(t) = x.status /\ TaskContext(t) = x.version
<1> DEFINE n == Cardinality(contexts[t])
<1>1. n \in Nat /\ n # 0
  BY FS_CardinalityType, FS_EmptySet DEF LineOK
<1>2. contexts[t] \subseteq Rows
  BY DEF TypeOK
<1>3. PICK x \in contexts[t] : x.version = n
  <2>1. n \in 1 .. n
    BY <1>1
  <2> QED BY <2>1 DEF LineOK
<1>4. \A y \in contexts[t] : y.version \in 1 .. n
  BY DEF LineOK
<1>5. Latest(t) = {x}
  <2>1. x \in Latest(t)
    BY <1>1, <1>3, <1>4 DEF Latest
  <2>2. ASSUME NEW y \in Latest(t) PROVE y = x
    <3>1. y \in contexts[t] /\ x.version <= y.version
      BY <2>2 DEF Latest
    <3>2. y.version = n
      BY <1>1, <1>3, <1>4, <3>1
    <3> QED BY <1>3, <3>1, <3>2 DEF LineOK
  <2> QED BY <2>1, <2>2
<1>6. TaskStatus(t) = x.status /\ TaskContext(t) = x.version
  BY <1>5 DEF TaskStatus, TaskContext
<1> QED BY <1>3, <1>5, <1>6

\* What get_task tells of a task that is there has its type.
LEMMA TaskTyped ==
    ASSUME NEW t \in Tasks, TypeOK, LineOK(t), root[t] # NoRow
    PROVE  TaskStatus(t) \in Statuses /\ TaskContext(t) \in Nat
<1>1. CASE contexts[t] = {}
  BY <1>1 DEF TypeOK, TaskStatus, TaskContext
<1>2. CASE contexts[t] # {}
  <2>1. PICK x \in contexts[t] : TaskStatus(t) = x.status /\ TaskContext(t) = x.version
    BY <1>2, LatestIsLast
  <2>2. x \in Rows
    BY <2>1 DEF TypeOK
  <2> QED BY <2>1, <2>2 DEF Rows
<1> QED BY <1>1, <1>2

-----------------------------------------------------------------------------
(* Types.                                                                  *)

\* Replies are built from typed parts.
LEMMA ReplyTyped ==
    ASSUME NEW s \in Statuses \cup {"NONE"}, NEW v \in Nat, NEW n \in Nat
    PROVE  Reply(s, v, n) \in Replies
BY DEF Reply, Replies

\* A step of a call leaves the table of calls typed.
LEMMA StepTyped ==
    ASSUME TypeOK, NEW c \in Calls, NEW phase \in Phases,
           NEW r \in CreateRequests \cup ClarifyRequests, NEW reply \in Replies,
           Step(c, phase, r, reply)
    PROVE  call' \in [Calls -> CallRecords \cup {NoCall}]
<1>1. [phase |-> phase, request |-> r, reply |-> reply] \in CallRecords
  BY DEF CallRecords
<1> QED BY <1>1 DEF TypeOK, Step

\* A running call has a request of its kind.
LEMMA RunningTyped ==
    ASSUME TypeOK, NEW c \in Calls, Running(c)
    PROVE  /\ call[c] \in CallRecords
           /\ call[c].request \in CreateRequests \cup ClarifyRequests
           /\ call[c].request.kind = "CREATE" => call[c].request \in CreateRequests
           /\ call[c].request.kind = "CLARIFY" => call[c].request \in ClarifyRequests
BY DEF TypeOK, Running, CallRecords, CreateRequests, ClarifyRequests

\* The empty database and no call under way.
LEMMA TasksInvInit == Init => TasksInv
<1> SUFFICES ASSUME Init PROVE TasksInv
  OBVIOUS
<1>1. TypeOK
  BY DEF Init, TypeOK
<1>2. ASSUME NEW t \in Tasks PROVE LineOK(t) /\ RootOK(t)
  BY <1>2, FS_EmptySet DEF Init, LineOK, RootOK
<1>3. RecordIsTheLastContexts
  BY DEF Init, RecordIsTheLastContexts, TaskStatus, TaskContext, Shown
<1>4. \A c \in Calls : CallOK(c)
  BY DEF Init, CallOK, Running
<1> QED BY <1>1, <1>2, <1>3, <1>4 DEF TasksInv

-----------------------------------------------------------------------------
(* Steps that leave the store alone.                                       *)

\* What the replays answer has the type of a reply.
LEMMA LoadExecutionTyped ==
    ASSUME NEW t \in Tasks, TypeOK, LineOK(t), root[t] # NoRow
    PROVE  LoadExecution(t) \in Replies
<1>1. TaskStatus(t) \in Statuses /\ TaskContext(t) \in Nat
  BY TaskTyped
<1>2. root[t].status \in Statuses /\ record[t] \in Nat
  BY DEF TypeOK
<1>3. 0 \in Nat /\ 1 \in Nat
  OBVIOUS
<1>4. Reply(TaskStatus(t), TaskContext(t), 0) \in Replies
  BY <1>1, <1>3, ReplyTyped
<1>5. Reply(root[t].status, 1, record[t]) \in Replies
  BY <1>2, <1>3, ReplyTyped
<1> QED BY <1>4, <1>5 DEF LoadExecution

\* The stored response of a context is a reply.
LEMMA StoredResponseTyped ==
    ASSUME NEW x \in Rows
    PROVE  StoredResponse(x) \in Replies
<1>1. x.status \in Statuses /\ x.version \in Nat /\ Shown(x.status, x.version) \in Nat
  BY DEF Rows, Shown
<1> QED BY <1>1, ReplyTyped DEF StoredResponse

\* The calls move on while the store stays as it is.
LEMMA CallsOnly ==
    ASSUME TasksInv, NEW c \in Calls, UNCHANGED storeVars,
           call' \in [Calls -> CallRecords \cup {NoCall}],
           \A d \in Calls \ {c} : call'[d] = call[d],
           CallOK(c)'
    PROVE  TasksInv'
<1>1. TypeOK'
  BY DEF TasksInv, TypeOK, storeVars
<1>2. ASSUME NEW t \in Tasks PROVE LineOK(t)' /\ RootOK(t)'
  BY <1>2 DEF TasksInv, LineOK, RootOK, storeVars
<1>3. RecordIsTheLastContexts'
  BY DEF TasksInv, RecordIsTheLastContexts, TaskStatus, TaskContext, Latest, Shown, storeVars
<1>4. ASSUME NEW d \in Calls PROVE CallOK(d)'
  <2>1. CASE d = c
    BY <2>1
  <2>2. CASE d # c
    <3>1. call'[d] = call[d] /\ contexts' = contexts
      BY <2>2 DEF storeVars
    <3> QED BY <3>1 DEF TasksInv, CallOK, Running
  <2> QED BY <2>1, <2>2
<1> QED BY <1>1, <1>2, <1>3, <1>4 DEF TasksInv

\* A step of a call to a phase in which it does not run.
LEMMA NotRunningStep ==
    ASSUME TasksInv, NEW c \in Calls, NEW phase \in Phases \ {"RUNNING"},
           NEW r \in CreateRequests \cup ClarifyRequests, NEW reply \in Replies,
           Step(c, phase, r, reply), UNCHANGED storeVars
    PROVE  TasksInv'
<1>1. TypeOK
  BY DEF TasksInv
<1>2. call' \in [Calls -> CallRecords \cup {NoCall}]
  BY <1>1, StepTyped
<1>3. call'[c].phase = phase /\ \A d \in Calls \ {c} : call'[d] = call[d]
  BY <1>1 DEF Step, TypeOK
<1>4. CallOK(c)'
  BY <1>3 DEF CallOK, Running
<1> QED BY <1>2, <1>3, <1>4, CallsOnly

\* The reply of a call that has none yet is a reply.
LEMMA NoReplyTyped == NoReply \in Replies
BY ReplyTyped DEF NoReply

\* The read that opens create_task preserves the invariant.
LEMMA BeginCreateStep ==
    ASSUME TasksInv, NEW c \in Calls, NEW r \in CreateRequests, BeginCreate(c, r)
    PROVE  TasksInv'
<1>1. TypeOK /\ r.task \in Tasks /\ r.kind = "CREATE"
  BY DEF TasksInv, CreateRequests
<1>2. CASE Step(c, "RUNNING", r, NoReply)
  <2>1. call' \in [Calls -> CallRecords \cup {NoCall}]
    BY <1>1, <1>2, NoReplyTyped, StepTyped DEF Phases
  <2>2. call'[c].request = r /\ \A d \in Calls \ {c} : call'[d] = call[d]
    BY <1>1, <1>2 DEF Step, TypeOK
  <2>3. CallOK(c)'
    BY <1>1, <2>2 DEF CallOK
  <2> QED BY <2>1, <2>2, <2>3, CallsOnly DEF BeginCreate
<1>3. CASE root[r.task] # NoRow /\ Step(c, "REPLAYED", r, LoadExecution(r.task))
  <2>1. LoadExecution(r.task) \in Replies
    BY <1>1, <1>3, LoadExecutionTyped DEF TasksInv
  <2> QED BY <1>3, <2>1, NotRunningStep DEF BeginCreate, Phases
<1>4. CASE Step(c, "REJECTED", r, NoReply)
  BY <1>4, NoReplyTyped, NotRunningStep DEF BeginCreate, Phases
<1> QED BY <1>2, <1>3, <1>4 DEF BeginCreate

\* The read that opens submit_clarification preserves the invariant: a call
\* that starts to run answers the latest context, which waits.
LEMMA BeginClarifyStep ==
    ASSUME TasksInv, NEW c \in Calls, NEW r \in ClarifyRequests, BeginClarify(c, r)
    PROVE  TasksInv'
<1>1. TypeOK /\ r.task \in Tasks
  BY DEF TasksInv, ClarifyRequests
<1>2. CASE Accepts(r) /\ Step(c, "RUNNING", r, NoReply)
  <2>1. call' \in [Calls -> CallRecords \cup {NoCall}]
    BY <1>1, <1>2, NoReplyTyped, StepTyped DEF Phases
  <2>2. call'[c].request = r /\ \A d \in Calls \ {c} : call'[d] = call[d]
    BY <1>1, <1>2 DEF Step, TypeOK
  <2>3. contexts' = contexts
    BY DEF BeginClarify, storeVars
  <2>4. CallOK(c)'
    BY <1>2, <2>2, <2>3 DEF CallOK, Accepts, Latest
  <2> QED BY <2>1, <2>2, <2>4, CallsOnly DEF BeginClarify
<1>3. CASE \E x \in Keyed(r.task, r.key) : Step(c, "REPLAYED", r, StoredResponse(x))
  <2>1. PICK x \in Keyed(r.task, r.key) : Step(c, "REPLAYED", r, StoredResponse(x))
    BY <1>3
  <2>2. StoredResponse(x) \in Replies
    BY <1>1, StoredResponseTyped DEF TypeOK, Keyed
  <2> QED BY <2>1, <2>2, NotRunningStep DEF BeginClarify, Phases
<1>4. CASE Step(c, "REJECTED", r, NoReply)
  BY <1>4, NoReplyTyped, NotRunningStep DEF BeginClarify, Phases
<1> QED BY <1>2, <1>3, <1>4 DEF BeginClarify

-----------------------------------------------------------------------------
(* Steps that append.                                                      *)

\* One more context at the end of a line leaves a line.
LEMMA AppendKeepsLine ==
    ASSUME NEW t \in Tasks, TypeOK, LineOK(t), NEW x,
           contexts'[t] = contexts[t] \cup {x},
           x.version = Cardinality(contexts[t]) + 1,
           \A y \in contexts[t] : y.key # x.key,
           \A y \in contexts[t] : y.status = "WAITING_CLARIFICATION"
    PROVE  /\ LineOK(t)'
           /\ Cardinality(contexts'[t]) = Cardinality(contexts[t]) + 1
<1> DEFINE n == Cardinality(contexts[t])
<1>1. n \in Nat
  BY FS_CardinalityType DEF LineOK
<1>2. \A y \in contexts[t] : y.version \in 1 .. n
  BY DEF LineOK
<1>3. x \notin contexts[t]
  OBVIOUS
<1>4. IsFiniteSet(contexts'[t]) /\ Cardinality(contexts'[t]) = n + 1
  <2>1. IsFiniteSet(contexts[t])
    BY DEF LineOK
  <2>2. /\ IsFiniteSet(contexts[t] \cup {x})
        /\ Cardinality(contexts[t] \cup {x}) = n + 1
    BY <1>3, <2>1, FS_AddElement
  <2> QED BY <2>2
<1>5. {y.version : y \in contexts'[t]} = 1 .. n + 1
  <2>1. {y.version : y \in contexts'[t]} = {y.version : y \in contexts[t]} \cup {n + 1}
    OBVIOUS
  <2>2. 1 .. n + 1 = (1 .. n) \cup {n + 1}
    BY <1>1
  <2> QED BY <2>1, <2>2 DEF LineOK
<1>6. ASSUME NEW y \in contexts'[t], NEW z \in contexts'[t]
      PROVE  /\ y.version = z.version => y = z
             /\ y.key = z.key => y = z
             /\ y.version < z.version => y.status = "WAITING_CLARIFICATION"
  <2>1. CASE y \in contexts[t] /\ z \in contexts[t]
    BY <2>1 DEF LineOK
  <2>2. CASE y = x /\ z = x
    BY <1>1, <2>2
  <2>3. CASE y \in contexts[t] /\ z = x
    BY <1>1, <1>2, <2>3
  <2>4. CASE y = x /\ z \in contexts[t]
    BY <1>1, <1>2, <2>4
  <2> QED BY <1>6, <2>1, <2>2, <2>3, <2>4
<1> QED BY <1>4, <1>5, <1>6 DEF LineOK

\* The call that commits leaves the calls of the others as they are.
LEMMA StoredStep ==
    ASSUME TypeOK, NEW c \in Calls, NEW r \in CreateRequests \cup ClarifyRequests,
           NEW s \in Statuses, NEW v \in Nat,
           Step(c, "STORED", r, Reply(s, v, Shown(s, v)))
    PROVE  /\ call' \in [Calls -> CallRecords \cup {NoCall}]
           /\ ~Running(c)'
           /\ \A d \in Calls \ {c} : call'[d] = call[d]
<1>1. Reply(s, v, Shown(s, v)) \in Replies
  BY ReplyTyped DEF Shown
<1>2. call' \in [Calls -> CallRecords \cup {NoCall}]
  BY <1>1, StepTyped DEF Phases
<1>3. call'[c].phase = "STORED" /\ \A d \in Calls \ {c} : call'[d] = call[d]
  BY DEF Step, TypeOK
<1> QED BY <1>2, <1>3 DEF Running

\* What a running clarification relies on outlives every append.
LEMMA CallsSurvive ==
    ASSUME TasksInv, NEW c \in Calls, ~Running(c)',
           \A d \in Calls \ {c} : call'[d] = call[d],
           \A t \in Tasks : contexts[t] \subseteq contexts'[t]
    PROVE  \A d \in Calls : CallOK(d)'
<1> SUFFICES ASSUME NEW d \in Calls PROVE CallOK(d)'
  OBVIOUS
<1>1. CASE d = c
  BY <1>1 DEF CallOK
<1>2. CASE d # c
  <2>1. call'[d] = call[d] /\ (Running(d)' <=> Running(d))
    BY <1>2 DEF Running
  <2> SUFFICES ASSUME Running(d), call[d].request.kind = "CLARIFY"
               PROVE  \E x \in contexts'[call[d].request.task] :
                        /\ x.version = call[d].request.version
                        /\ x.status = "WAITING_CLARIFICATION"
    BY <2>1 DEF CallOK
  <2>2. call[d].request.task \in Tasks
    BY RunningTyped DEF TasksInv, ClarifyRequests
  <2> QED BY <2>2 DEF TasksInv, CallOK
<1> QED BY <1>1, <1>2

\* What get_task tells of a task follows from its rows alone.
LEMMA SameRowsSameView ==
    ASSUME NEW t \in Tasks, root'[t] = root[t], contexts'[t] = contexts[t]
    PROVE  /\ TaskStatus(t)' = TaskStatus(t) /\ TaskContext(t)' = TaskContext(t)
           /\ LineOK(t) => LineOK(t)'
BY DEF TaskStatus, TaskContext, Latest, LineOK

\* A task is created: its root, and either its first context or its record.
LEMMA CreateEffect ==
    ASSUME TasksInv, NEW c \in Calls, NEW r \in CreateRequests, NEW s \in Statuses,
           CommitCreate(c, r, s)
    PROVE  /\ TasksInv'
           /\ TaskStatus(r.task) = "NONE" /\ TaskContext(r.task) = 0
           /\ TaskStatus(r.task)' = s /\ TaskContext(r.task)' = 1
           /\ \A t \in Tasks \ {r.task} :
                TaskStatus(t)' = TaskStatus(t) /\ TaskContext(t)' = TaskContext(t)
<1> DEFINE t == r.task
           row == [payload |-> r.payload, status |-> s]
           x == [version |-> 1, status |-> s, key |-> NoRow, answers |-> NoRow]
<1>1. TypeOK /\ t \in Tasks /\ r.payload \in Payloads
  BY DEF TasksInv, CreateRequests
<1>2. LineOK(t) /\ root[t] = NoRow /\ contexts[t] = {} /\ record[t] = 0
  BY <1>1 DEF TasksInv, RootOK, CommitCreate
<1>3. row # NoRow
  BY <1>1, TasksAssumption DEF Statuses
<1>4. /\ root'[t] = row /\ record'[t] = Shown(s, 1)
      /\ contexts'[t] = IF s = "COMPLETED" THEN {} ELSE {x}
      /\ \A u \in Tasks \ {t} : /\ root'[u] = root[u] /\ record'[u] = record[u]
                                /\ contexts'[u] = contexts[u]
  BY <1>1, <1>2 DEF CommitCreate, TypeOK
<1>5. /\ call' \in [Calls -> CallRecords \cup {NoCall}]
      /\ ~Running(c)'
      /\ \A d \in Calls \ {c} : call'[d] = call[d]
  BY <1>1, StoredStep DEF CommitCreate
<1>6. TypeOK'
  <2>1. root' \in [Tasks -> [payload : Payloads, status : Statuses] \cup {NoRow}]
    BY <1>1 DEF CommitCreate, TypeOK
  <2>2. x \in Rows
    BY DEF Rows
  <2>3. contexts' \in [Tasks -> SUBSET Rows]
    BY <2>2 DEF TasksInv, CommitCreate, TypeOK
  <2>4. record' \in [Tasks -> Nat]
    BY DEF TasksInv, CommitCreate, TypeOK, Shown
  <2> QED BY <1>5, <2>1, <2>3, <2>4 DEF TypeOK
<1>7. LineOK(t)'
  <2>1. CASE s = "COMPLETED"
    BY <1>2, <1>4, <2>1, SameRowsSameView DEF LineOK
  <2>2. CASE s # "COMPLETED"
    <3>1. contexts'[t] = contexts[t] \cup {x}
      BY <1>2, <1>4, <2>2
    <3>2. Cardinality(contexts[t]) = 0
      BY <1>2, FS_EmptySet
    <3>3. x.version = Cardinality(contexts[t]) + 1
      BY <3>2
    <3> QED BY <1>1, <1>2, <3>1, <3>3, AppendKeepsLine
  <2> QED BY <2>1, <2>2
<1>8. TaskStatus(t)' = s /\ TaskContext(t)' = 1
  <2>1. CASE s = "COMPLETED"
    BY <1>3, <1>4, <2>1 DEF TaskStatus, TaskContext
  <2>2. CASE s # "COMPLETED"
    <3>1. Latest(t)' = {x}
      BY <1>4, <2>2 DEF Latest
    <3>2. (CHOOSE y \in {x} : TRUE) = x
      OBVIOUS
    <3>3. contexts'[t] # {} /\ x.status = s /\ x.version = 1
      BY <1>4, <2>2
    <3> HIDE DEF x
    <3> QED BY <3>1, <3>2, <3>3 DEF TaskStatus, TaskContext
  <2> QED BY <2>1, <2>2
<1>9. TaskStatus(t) = "NONE" /\ TaskContext(t) = 0
  BY <1>2 DEF TaskStatus, TaskContext
<1>10. ASSUME NEW u \in Tasks \ {t}
       PROVE  /\ TaskStatus(u)' = TaskStatus(u) /\ TaskContext(u)' = TaskContext(u)
              /\ LineOK(u)' /\ RootOK(u)'
  <2>1. LineOK(u) /\ RootOK(u)
    BY DEF TasksInv
  <2> QED BY <1>4, <2>1, SameRowsSameView DEF RootOK
<1>11. RootOK(t)'
  <2>1. root'[t] # NoRow /\ root'[t].status = s
    BY <1>3, <1>4
  <2>2. contexts'[t] = {} => s = "COMPLETED"
    BY <1>4
  <2> QED BY <2>1, <2>2 DEF RootOK
<1>12. RecordIsTheLastContexts'
  <2> SUFFICES ASSUME NEW u \in Tasks
               PROVE  record'[u] = Shown(TaskStatus(u)', TaskContext(u)')
    BY DEF RecordIsTheLastContexts, Shown
  <2>1. CASE u = t
    BY <1>4, <1>8, <2>1
  <2>2. CASE u # t
    BY <1>4, <1>10, <2>2 DEF TasksInv, RecordIsTheLastContexts
  <2> QED BY <2>1, <2>2
<1>13. \A d \in Calls : CallOK(d)'
  <2>1. \A u \in Tasks : contexts[u] \subseteq contexts'[u]
    BY <1>2, <1>4
  <2> QED BY <1>5, <2>1, CallsSurvive
<1>14. TasksInv'
  <2>1. \A u \in Tasks : LineOK(u)' /\ RootOK(u)'
    BY <1>7, <1>10, <1>11
  <2> QED BY <1>6, <1>12, <1>13, <2>1 DEF TasksInv
<1> QED BY <1>8, <1>9, <1>10, <1>14

\* A clarification is answered: the next context, and its record if that
\* completes the task.
LEMMA ClarifyEffect ==
    ASSUME TasksInv, NEW c \in Calls, NEW r \in ClarifyRequests, NEW s \in Statuses,
           Running(c), call[c].request = r, CommitClarify(c, r, s)
    PROVE  /\ TasksInv'
           /\ TaskStatus(r.task) = "WAITING_CLARIFICATION"
           /\ TaskStatus(r.task)' = s /\ TaskContext(r.task)' = TaskContext(r.task) + 1
           /\ \A t \in Tasks \ {r.task} :
                TaskStatus(t)' = TaskStatus(t) /\ TaskContext(t)' = TaskContext(t)
<1> DEFINE t == r.task
           n == Cardinality(contexts[t])
           x == [version |-> r.version + 1, status |-> s, key |-> r.key, answers |-> r.answers]
<1>1. TypeOK /\ t \in Tasks /\ r.version \in Nat /\ r.kind = "CLARIFY"
  BY TasksAssumption DEF TasksInv, ClarifyRequests
<1>2. LineOK(t) /\ RootOK(t) /\ IsFiniteSet(contexts[t]) /\ n \in Nat
  BY <1>1, FS_CardinalityType DEF TasksInv, LineOK
<1>3. PICK w \in contexts[t] : w.version = r.version /\ w.status = "WAITING_CLARIFICATION"
  BY <1>1 DEF TasksInv, CallOK
<1>4. \A y \in contexts[t] : y.version # r.version + 1 /\ y.key # r.key
  BY DEF CommitClarify, Taken
<1>5. r.version = n
  <2>1. {y.version : y \in contexts[t]} = 1 .. n
    BY <1>2 DEF LineOK
  <2>2. r.version \in 1 .. n /\ r.version + 1 \notin 1 .. n
    BY <1>3, <1>4, <2>1
  <2> QED BY <1>1, <1>2, <2>2
<1>6. \A y \in contexts[t] : y.status = "WAITING_CLARIFICATION"
  <2> SUFFICES ASSUME NEW y \in contexts[t] PROVE y.status = "WAITING_CLARIFICATION"
    OBVIOUS
  <2>1. y.version \in 1 .. n
    BY <1>2 DEF LineOK
  <2>2. CASE y.version = n
    BY <1>2, <1>3, <1>5, <2>2 DEF LineOK
  <2>3. CASE y.version < n
    BY <1>2, <1>3, <1>5, <2>3 DEF LineOK
  <2> QED BY <1>2, <2>1, <2>2, <2>3
<1>7. /\ root' = root
      /\ contexts'[t] = contexts[t] \cup {x}
      /\ record'[t] = IF s = "COMPLETED" THEN r.version + 1 ELSE record[t]
      /\ \A u \in Tasks \ {t} : record'[u] = record[u] /\ contexts'[u] = contexts[u]
  BY <1>1 DEF CommitClarify, TypeOK
<1>8. /\ call' \in [Calls -> CallRecords \cup {NoCall}]
      /\ ~Running(c)'
      /\ \A d \in Calls \ {c} : call'[d] = call[d]
  BY <1>1, StoredStep DEF CommitClarify
<1>9. TypeOK'
  <2>1. x \in Rows
    BY <1>1 DEF Rows, ClarifyRequests
  <2>2. contexts' \in [Tasks -> SUBSET Rows]
    BY <1>1, <2>1 DEF CommitClarify, TypeOK
  <2>3. record' \in [Tasks -> Nat]
    BY <1>1 DEF CommitClarify, TypeOK
  <2> QED BY <1>1, <1>7, <1>8, <2>2, <2>3 DEF TypeOK
<1>10. LineOK(t)' /\ Cardinality(contexts'[t]) = n + 1
  <2>1. x.version = Cardinality(contexts[t]) + 1 /\ \A y \in contexts[t] : y.key # x.key
    BY <1>4, <1>5
  <2> QED BY <1>1, <1>2, <1>6, <1>7, <2>1, AppendKeepsLine
<1>11. TaskStatus(t) = "WAITING_CLARIFICATION" /\ TaskContext(t) = n
  BY <1>1, <1>2, <1>3, <1>6, LatestIsLast
<1>12. TaskStatus(t)' = s /\ TaskContext(t)' = n + 1
  <2>1. \A y \in contexts'[t] : y.version <= x.version
    <3>1. \A y \in contexts[t] : y.version \in 1 .. n
      BY <1>2 DEF LineOK
    <3> QED BY <1>2, <1>5, <1>7, <3>1
  <2>2. \A y \in contexts[t] : ~(x.version <= y.version)
    <3>1. \A y \in contexts[t] : y.version \in 1 .. n
      BY <1>2 DEF LineOK
    <3> QED BY <1>2, <1>5, <3>1
  <2>3. Latest(t)' = {x}
    BY <1>7, <2>1, <2>2 DEF Latest
  <2>4. (CHOOSE y \in {x} : TRUE) = x
    OBVIOUS
  <2>5. contexts'[t] # {} /\ x.status = s /\ x.version = n + 1
    BY <1>5, <1>7
  <2> HIDE DEF x
  <2> QED BY <2>3, <2>4, <2>5 DEF TaskStatus, TaskContext
<1>13. ASSUME NEW u \in Tasks \ {t}
       PROVE  /\ TaskStatus(u)' = TaskStatus(u) /\ TaskContext(u)' = TaskContext(u)
              /\ LineOK(u)' /\ RootOK(u)'
  <2>1. LineOK(u) /\ RootOK(u)
    BY DEF TasksInv
  <2> QED BY <1>7, <2>1, SameRowsSameView DEF RootOK
<1>14. RootOK(t)'
  <2>1. root[t] # NoRow
    BY <1>2, <1>3 DEF RootOK
  <2> QED BY <1>7, <2>1 DEF RootOK
<1>15. RecordIsTheLastContexts'
  <2> SUFFICES ASSUME NEW u \in Tasks
               PROVE  record'[u] = Shown(TaskStatus(u)', TaskContext(u)')
    BY DEF RecordIsTheLastContexts, Shown
  <2>1. CASE u = t
    <3>1. record[t] = 0
      BY <1>1, <1>11 DEF TasksInv, RecordIsTheLastContexts, Shown
    <3> QED BY <1>5, <1>7, <1>12, <2>1, <3>1 DEF Shown
  <2>2. CASE u # t
    BY <1>7, <1>13, <2>2 DEF TasksInv, RecordIsTheLastContexts
  <2> QED BY <2>1, <2>2
<1>16. \A d \in Calls : CallOK(d)'
  <2>1. \A u \in Tasks : contexts[u] \subseteq contexts'[u]
    BY <1>7
  <2> QED BY <1>8, <2>1, CallsSurvive
<1>17. TasksInv'
  <2>1. \A u \in Tasks : LineOK(u)' /\ RootOK(u)'
    BY <1>10, <1>13, <1>14
  <2> QED BY <1>9, <1>15, <1>16, <2>1 DEF TasksInv
<1> QED BY <1>11, <1>12, <1>13, <1>17

-----------------------------------------------------------------------------
(* Every step.                                                             *)

\* Every step preserves the invariant.
LEMMA TasksInvStep == TasksInv /\ [Next]_vars => TasksInv'
<1> SUFFICES ASSUME TasksInv, [Next]_vars PROVE TasksInv'
  OBVIOUS
<1>t. TypeOK
  BY DEF TasksInv
<1>1. ASSUME NEW c \in Calls, NEW r \in CreateRequests, BeginCreate(c, r) PROVE TasksInv'
  BY <1>1, BeginCreateStep
<1>2. ASSUME NEW c \in Calls, NEW r \in ClarifyRequests, BeginClarify(c, r) PROVE TasksInv'
  BY <1>2, BeginClarifyStep
<1>3. ASSUME NEW c \in Calls, NEW r \in CreateRequests \cup ClarifyRequests, Unavailable(c, r)
      PROVE  TasksInv'
  BY <1>3, NoReplyTyped, NotRunningStep DEF Unavailable, Phases
<1>4. ASSUME NEW c \in Calls, Commit(c) PROVE TasksInv'
  <2>1. CASE \E s \in Statuses : call[c].request.kind = "CREATE" /\ CommitCreate(c, call[c].request, s)
    BY <1>4, <1>t, <2>1, RunningTyped, CreateEffect DEF Commit
  <2>2. CASE \E s \in Statuses : call[c].request.kind = "CLARIFY" /\ CommitClarify(c, call[c].request, s)
    BY <1>4, <1>t, <2>2, RunningTyped, ClarifyEffect DEF Commit
  <2> QED BY <1>4, <2>1, <2>2 DEF Commit
<1>5. ASSUME NEW c \in Calls, CommitConflict(c) PROVE TasksInv'
  <2>1. call[c].request \in CreateRequests \cup ClarifyRequests
    BY <1>5, <1>t, RunningTyped DEF CommitConflict
  <2> QED BY <1>5, <2>1, NoReplyTyped, NotRunningStep DEF CommitConflict, Phases
<1>6. ASSUME NEW c \in Calls, Fail(c) PROVE TasksInv'
  <2>1. call[c].request \in CreateRequests \cup ClarifyRequests
    BY <1>6, <1>t, RunningTyped DEF Fail
  <2> QED BY <1>6, <2>1, NoReplyTyped, NotRunningStep DEF Fail, Phases
<1>7. ASSUME NEW c \in Calls, Return(c) PROVE TasksInv'
  <2>1. call' \in [Calls -> CallRecords \cup {NoCall}]
    BY <1>7, <1>t DEF Return, TypeOK
  <2>2. call'[c] = NoCall /\ \A d \in Calls \ {c} : call'[d] = call[d]
    BY <1>7, <1>t DEF Return, TypeOK
  <2>3. CallOK(c)'
    BY <2>2 DEF CallOK, Running
  <2> QED BY <1>7, <2>1, <2>2, <2>3, CallsOnly DEF Return
<1>8. CASE UNCHANGED vars
  <2>1. \A d \in Calls : CallOK(d)'
    BY <1>8 DEF TasksInv, CallOK, Running, vars, storeVars
  <2>2. TypeOK'
    BY <1>8, <1>t DEF TypeOK, vars, storeVars
  <2>3. \A t \in Tasks : LineOK(t)' /\ RootOK(t)'
    BY <1>8 DEF TasksInv, LineOK, RootOK, vars, storeVars
  <2>4. RecordIsTheLastContexts'
    BY <1>8 DEF TasksInv, RecordIsTheLastContexts, TaskStatus, TaskContext, Latest, Shown, vars, storeVars
  <2> QED BY <2>1, <2>2, <2>3, <2>4 DEF TasksInv
<1> QED BY <1>1, <1>2, <1>3, <1>4, <1>5, <1>6, <1>7, <1>8 DEF Next

\* The inductive invariant holds always, however many calls race.
THEOREM TasksInvariant == Spec => []TasksInv
BY TasksInvInit, TasksInvStep, PTL DEF Spec

\* Every variable keeps its type.
THEOREM TaskTypes == Spec => []TypeOK
<1>1. TasksInv => TypeOK
  BY DEF TasksInv
<1> QED BY <1>1, TasksInvariant, PTL

\* The contexts of a task are one line, whichever calls raced to append them.
THEOREM ContextLine == Spec => []ContextsAreOneLine
<1>1. TasksInv => ContextsAreOneLine
  BY DEF TasksInv, LineOK, ContextsAreOneLine
<1> QED BY <1>1, TasksInvariant, PTL

\* A task has a record exactly when its latest context completed it.
THEOREM RecordOfLastContext == Spec => []RecordIsTheLastContexts
<1>1. TasksInv => RecordIsTheLastContexts
  BY DEF TasksInv
<1> QED BY <1>1, TasksInvariant, PTL

-----------------------------------------------------------------------------
(* What a step may never do.                                               *)

\* A step leaves the store alone, creates a task or answers one.
StoreMoves ==
    \/ UNCHANGED storeVars
    \/ \E c \in Calls, r \in CreateRequests, s \in Statuses :
         Running(c) /\ call[c].request = r /\ CommitCreate(c, r, s)
    \/ \E c \in Calls, r \in ClarifyRequests, s \in Statuses :
         Running(c) /\ call[c].request = r /\ CommitClarify(c, r, s)

\* Every step of the G4 service is such a step.
LEMMA StoreStep == ASSUME TasksInv, [Next]_vars PROVE StoreMoves
<1>1. CASE \E c \in Calls : Commit(c)
  <2>1. PICK c \in Calls : Commit(c)
    BY <1>1
  <2>2. /\ Running(c)
        /\ call[c].request.kind = "CREATE" => call[c].request \in CreateRequests
        /\ call[c].request.kind = "CLARIFY" => call[c].request \in ClarifyRequests
    BY <2>1, RunningTyped DEF Commit, TasksInv
  <2> QED BY <2>1, <2>2 DEF Commit, StoreMoves
<1>2. CASE UNCHANGED vars
  BY <1>2 DEF vars, storeVars, StoreMoves
<1> QED BY <1>1, <1>2
        DEF Next, BeginCreate, BeginClarify, Unavailable, CommitConflict, Fail, Return, StoreMoves

\* A stored request adds no second fact, from whichever call it is tried.
THEOREM RetriesAddNoFact == Spec => RetryAddsNoFact
<1>1. ASSUME TasksInv, [Next]_vars, NEW d \in Calls,
             call'[d] # call[d], Running(d), Stored(call[d].request)
      PROVE  UNCHANGED storeVars
  <2>t. TypeOK
    BY <1>1 DEF TasksInv
  <2>1. ASSUME NEW c \in Calls, NEW r \in CreateRequests, NEW s \in Statuses,
               Running(c), call[c].request = r, CommitCreate(c, r, s)
        PROVE  FALSE
    <3>1. c = d
      BY <1>1, <2>1, <2>t, StoredStep DEF CommitCreate
    <3> QED BY <1>1, <2>1, <3>1 DEF Stored, CommitCreate, CreateRequests
  <2>2. ASSUME NEW c \in Calls, NEW r \in ClarifyRequests, NEW s \in Statuses,
               Running(c), call[c].request = r, CommitClarify(c, r, s)
        PROVE  FALSE
    <3>1. c = d
      <4>1. r.version + 1 \in Nat
        BY TasksAssumption DEF ClarifyRequests
      <4> QED BY <1>1, <2>2, <2>t, <4>1, StoredStep DEF CommitClarify
    <3> QED BY <1>1, <2>2, <3>1 DEF Stored, CommitClarify, Taken, Keyed, ClarifyRequests
  <2> QED BY <1>1, <2>1, <2>2, StoreStep DEF StoreMoves
<1>2. TasksInv /\ [Next]_vars =>
        [\A c \in Calls : call'[c] # call[c] /\ Running(c) /\ Stored(call[c].request)
           => UNCHANGED storeVars]_vars
  BY <1>1
<1> QED BY <1>2, TasksInvariant, PTL DEF Spec, RetryAddsNoFact

-----------------------------------------------------------------------------
(* The task a reader sees.                                                 *)

\* The empty store is the initial lifecycle.
LEMMA LifecycleInit == Init => Lifecycle!Init
BY DEF Init, Lifecycle!Init, TaskStatus, TaskContext

\* A task moves to stage s and its next context, and no other task moves.
LEMMA EnterStep ==
    ASSUME NEW t \in Tasks, NEW s \in Statuses,
           TaskStatus(t)' = s, TaskContext(t)' = TaskContext(t) + 1,
           \A u \in Tasks \ {t} :
             TaskStatus(u)' = TaskStatus(u) /\ TaskContext(u)' = TaskContext(u)
    PROVE  Lifecycle!Enter(t, s)
BY DEF Lifecycle!Enter

\* Such a step is a step of the lifecycle or leaves it as it is.
LEMMA LifecycleStep == ASSUME TasksInv, StoreMoves PROVE [Lifecycle!Next]_(Lifecycle!lifecycleVars)
<1>1. CASE UNCHANGED storeVars
  BY <1>1 DEF storeVars, Lifecycle!lifecycleVars, TaskStatus, TaskContext, Latest
<1>2. ASSUME NEW c \in Calls, NEW r \in CreateRequests, NEW s \in Statuses,
             CommitCreate(c, r, s)
      PROVE  Lifecycle!Next
  <2>1. r.task \in Tasks /\ s \in Lifecycle!Stages
    BY DEF CreateRequests, Statuses, Lifecycle!Stages
  <2>2. TaskStatus(r.task) = "NONE" /\ Lifecycle!Enter(r.task, s)
    BY <1>2, <2>1, CreateEffect, EnterStep
  <2> QED BY <2>1, <2>2 DEF Lifecycle!Next, Lifecycle!Create
<1>3. ASSUME NEW c \in Calls, NEW r \in ClarifyRequests, NEW s \in Statuses,
             Running(c), call[c].request = r, CommitClarify(c, r, s)
      PROVE  Lifecycle!Next
  <2>1. r.task \in Tasks /\ s \in Lifecycle!Stages
    BY DEF ClarifyRequests, Statuses, Lifecycle!Stages
  <2>2. TaskStatus(r.task) = "WAITING_CLARIFICATION" /\ Lifecycle!Enter(r.task, s)
    BY <1>3, <2>1, ClarifyEffect, EnterStep
  <2> QED BY <2>1, <2>2 DEF Lifecycle!Next, Lifecycle!Answer
<1> QED BY <1>1, <1>2, <1>3 DEF StoreMoves

\* The stored task implements its lifecycle: created once, one context per
\* answer, final once completed.
THEOREM TasksKeepTheLifecycle == Spec => KeepsTheLifecycle
<1>1. TasksInv /\ [Next]_vars => [Lifecycle!Next]_(Lifecycle!lifecycleVars)
  BY LifecycleStep, StoreStep
<1> QED BY <1>1, LifecycleInit, TasksInvariant, PTL DEF Spec, KeepsTheLifecycle, Lifecycle!Spec

-----------------------------------------------------------------------------
(* The rule pipeline.  Its steps move the store alike, so the invariant    *)
(* holds for it too, with what it knows beside: who asks, and who loses.   *)

\* That a task asks at most once, in the numbers a reader sees.
AsksOnce ==
    \A t \in Tasks : root[t] # NoRow =>
        /\ contexts[t] = {} <=> root[t].payload \notin Unclear
        /\ TaskContext(t) <= 2
        /\ TaskContext(t) = 2 => TaskStatus(t) = "COMPLETED"

BaselineInv == TasksInv /\ AsksOnce /\ LosersAreAnswered

\* Every step of the rule pipeline's service moves the store alike.
LEMMA BaselineStoreStep == ASSUME TasksInv, [BaselineNext]_vars PROVE StoreMoves
<1>1. CASE \E c \in Calls : BaselineCommit(c)
  <2>1. PICK c \in Calls : BaselineCommit(c)
    BY <1>1
  <2>2. /\ Running(c)
        /\ call[c].request.kind = "CREATE" => call[c].request \in CreateRequests
        /\ call[c].request.kind = "CLARIFY" => call[c].request \in ClarifyRequests
    BY <2>1, RunningTyped DEF BaselineCommit, TasksInv
  <2>3. Outcome(call[c].request) \in Statuses
    BY DEF Outcome, Statuses
  <2> QED BY <2>1, <2>2, <2>3 DEF BaselineCommit, StoreMoves
<1>2. CASE UNCHANGED vars
  BY <1>2 DEF vars, storeVars, StoreMoves
<1> QED BY <1>1, <1>2
        DEF BaselineNext, BeginCreate, BeginClarify, Unavailable, LosesRace, Fail, Return, StoreMoves

\* A call that loses a race preserves the invariant of the store.
LEMMA LosesRaceStep == ASSUME TasksInv, NEW c \in Calls, LosesRace(c) PROVE TasksInv'
<1> DEFINE r == call[c].request
<1>1. TypeOK /\ Running(c)
  BY DEF TasksInv, LosesRace
<1>2. /\ r \in CreateRequests \cup ClarifyRequests
      /\ r.kind = "CREATE" => r \in CreateRequests
      /\ r.kind = "CLARIFY" => r \in ClarifyRequests
  BY <1>1, RunningTyped
<1>3. CASE r.kind = "CREATE" /\ Step(c, "REPLAYED", r, LoadExecution(r.task))
  <2>1. r.task \in Tasks /\ root[r.task] # NoRow
    BY <1>2, <1>3 DEF LosesRace, UniqueKeyRefuses, CreateRequests
  <2>2. LoadExecution(r.task) \in Replies
    BY <2>1, LoadExecutionTyped DEF TasksInv
  <2> QED BY <1>2, <1>3, <2>2, NotRunningStep DEF LosesRace, Phases
<1>4. CASE Step(c, "REJECTED", r, NoReply) \/ Step(c, "CONFLICT", r, NoReply)
  BY <1>2, <1>4, NoReplyTyped, NotRunningStep DEF LosesRace, Phases
<1>5. CASE r.kind = "CLARIFY" /\ \E x \in Keyed(r.task, r.key) : Step(c, "REPLAYED", r, StoredResponse(x))
  <2>1. PICK x \in Keyed(r.task, r.key) : Step(c, "REPLAYED", r, StoredResponse(x))
    BY <1>5
  <2>2. r.task \in Tasks
    BY <1>2, <1>5 DEF ClarifyRequests
  <2>3. StoredResponse(x) \in Replies
    BY <1>1, <2>2, StoredResponseTyped DEF TypeOK, Keyed
  <2> QED BY <1>2, <2>1, <2>3, NotRunningStep DEF LosesRace, Phases
<1> QED BY <1>3, <1>4, <1>5 DEF LosesRace, ReadsBack

\* Every step of the rule pipeline's service preserves the invariant of the
\* store.
LEMMA BaselineTasksInvStep == TasksInv /\ [BaselineNext]_vars => TasksInv'
<1> SUFFICES ASSUME TasksInv, [BaselineNext]_vars PROVE TasksInv'
  OBVIOUS
<1>1. ASSUME NEW c \in Calls, BaselineCommit(c) PROVE TasksInv'
  <2>1. /\ Running(c)
        /\ call[c].request.kind = "CREATE" => call[c].request \in CreateRequests
        /\ call[c].request.kind = "CLARIFY" => call[c].request \in ClarifyRequests
    BY <1>1, RunningTyped DEF BaselineCommit, TasksInv
  <2>2. Outcome(call[c].request) \in Statuses
    BY DEF Outcome, Statuses
  <2> QED BY <1>1, <2>1, <2>2, CreateEffect, ClarifyEffect DEF BaselineCommit
<1>2. ASSUME NEW c \in Calls, LosesRace(c) PROVE TasksInv'
  BY <1>2, LosesRaceStep
<1>3. CASE [Next]_vars
  BY <1>3, TasksInvStep
<1> QED BY <1>1, <1>2, <1>3 DEF BaselineNext, Next

\* A new task has asked if it is unclear.
LEMMA AskedOnCreate ==
    ASSUME TasksInv, AsksOnce, NEW c \in Calls, NEW r \in CreateRequests,
           CommitCreate(c, r, Outcome(r))
    PROVE  AsksOnce'
<1>1. Outcome(r) \in Statuses /\ TypeOK /\ r.task \in Tasks /\ r.kind = "CREATE"
  BY DEF Outcome, Statuses, TasksInv, CreateRequests
<1>2. contexts[r.task] = {}
  BY <1>1 DEF CommitCreate, TasksInv, RootOK
<1>3. /\ root'[r.task].payload = r.payload
      /\ contexts'[r.task] = {} <=> r.payload \notin Unclear
      /\ \A u \in Tasks \ {r.task} : root'[u] = root[u] /\ contexts'[u] = contexts[u]
  BY <1>1, <1>2 DEF CommitCreate, TypeOK, Outcome
<1>4. /\ TaskContext(r.task)' = 1
      /\ \A u \in Tasks \ {r.task} :
           TaskStatus(u)' = TaskStatus(u) /\ TaskContext(u)' = TaskContext(u)
  BY <1>1, CreateEffect
<1>5. ASSUME NEW u \in Tasks, u # r.task, root'[u] # NoRow
      PROVE  /\ contexts'[u] = {} <=> root'[u].payload \notin Unclear
             /\ TaskContext(u)' <= 2
             /\ TaskContext(u)' = 2 => TaskStatus(u)' = "COMPLETED"
  BY <1>3, <1>4, <1>5 DEF AsksOnce
<1>6. ASSUME NEW u \in Tasks, u = r.task
      PROVE  /\ contexts'[u] = {} <=> root'[u].payload \notin Unclear
             /\ TaskContext(u)' <= 2
             /\ TaskContext(u)' = 2 => TaskStatus(u)' = "COMPLETED"
  BY <1>3, <1>4, <1>6
<1> QED BY <1>5, <1>6 DEF AsksOnce

\* A task that is answered completes.
LEMMA AskedOnClarify ==
    ASSUME TasksInv, AsksOnce, NEW c \in Calls, NEW r \in ClarifyRequests,
           Running(c), call[c].request = r, CommitClarify(c, r, Outcome(r))
    PROVE  AsksOnce'
<1>1. /\ Outcome(r) = "COMPLETED" /\ Outcome(r) \in Statuses /\ TypeOK
      /\ r.task \in Tasks /\ r.kind = "CLARIFY"
  BY DEF Outcome, Statuses, TasksInv, ClarifyRequests
<1>2. /\ TaskStatus(r.task) = "WAITING_CLARIFICATION"
      /\ TaskStatus(r.task)' = "COMPLETED" /\ TaskContext(r.task)' = TaskContext(r.task) + 1
      /\ \A u \in Tasks \ {r.task} :
           TaskStatus(u)' = TaskStatus(u) /\ TaskContext(u)' = TaskContext(u)
  BY <1>1, ClarifyEffect
<1>3. /\ root' = root /\ contexts'[r.task] # {}
      /\ \A u \in Tasks \ {r.task} : contexts'[u] = contexts[u]
  BY <1>1 DEF CommitClarify, TypeOK
<1>4. contexts[r.task] # {} /\ root[r.task] # NoRow /\ LineOK(r.task)
  BY <1>1 DEF TasksInv, CallOK, RootOK
<1>5. TaskContext(r.task) \in Nat
  BY <1>1, <1>4, TaskTyped
<1>6. TaskContext(r.task) <= 1
  BY <1>1, <1>2, <1>4, <1>5 DEF AsksOnce
<1>7. ASSUME NEW u \in Tasks, u # r.task, root'[u] # NoRow
      PROVE  /\ contexts'[u] = {} <=> root'[u].payload \notin Unclear
             /\ TaskContext(u)' <= 2
             /\ TaskContext(u)' = 2 => TaskStatus(u)' = "COMPLETED"
  BY <1>2, <1>3, <1>7 DEF AsksOnce
<1>8. ASSUME NEW u \in Tasks, u = r.task
      PROVE  /\ contexts'[u] = {} <=> root'[u].payload \notin Unclear
             /\ TaskContext(u)' <= 2
             /\ TaskContext(u)' = 2 => TaskStatus(u)' = "COMPLETED"
  BY <1>1, <1>2, <1>3, <1>4, <1>5, <1>6, <1>8 DEF AsksOnce
<1> QED BY <1>7, <1>8 DEF AsksOnce

\* Every step keeps the bound on the questions of a task.
LEMMA AskedStep ==
    ASSUME TasksInv, AsksOnce, [BaselineNext]_vars
    PROVE  AsksOnce'
<1>1. CASE UNCHANGED storeVars
  BY <1>1 DEF storeVars, AsksOnce, TaskStatus, TaskContext, Latest
<1>2. ASSUME NEW c \in Calls, BaselineCommit(c) PROVE AsksOnce'
  <2>1. /\ Running(c)
        /\ call[c].request.kind = "CREATE" => call[c].request \in CreateRequests
        /\ call[c].request.kind = "CLARIFY" => call[c].request \in ClarifyRequests
    BY <1>2, RunningTyped DEF BaselineCommit, TasksInv
  <2> QED BY <1>2, <2>1, AskedOnCreate, AskedOnClarify DEF BaselineCommit
<1> QED BY <1>1, <1>2
        DEF BaselineNext, BeginCreate, BeginClarify, Unavailable, LosesRace, Fail, Return, vars, storeVars

\* Answers that are overtaken stay so: their task is completed.
LEMMA OvertakenStays ==
    ASSUME TasksInv, AsksOnce, StoreMoves,
           NEW r \in CreateRequests \cup ClarifyRequests, Overtaken(r)
    PROVE  Overtaken(r)'
<1>1. /\ TypeOK /\ r \in ClarifyRequests
      /\ r.task \in Tasks /\ r.version \in Nat /\ r.version >= 1
  BY TasksAssumption DEF TasksInv, Overtaken, CreateRequests, ClarifyRequests
<1>2. /\ contexts[r.task] # {} /\ root[r.task] # NoRow /\ LineOK(r.task)
  BY <1>1 DEF TasksInv, RootOK, Overtaken
<1>3. TaskStatus(r.task) = "COMPLETED"
  <2>1. TaskContext(r.task) = Cardinality(contexts[r.task])
    BY <1>1, <1>2, LatestIsLast
  <2>2. r.version + 1 \in 1 .. Cardinality(contexts[r.task])
    BY <1>2 DEF LineOK, Overtaken
  <2>3. TaskContext(r.task) <= 2
    BY <1>1, <1>2 DEF AsksOnce
  <2>4. Cardinality(contexts[r.task]) \in Nat
    BY <1>2, FS_CardinalityType DEF LineOK
  <2>5. TaskContext(r.task) = 2
    BY <1>1, <2>1, <2>2, <2>3, <2>4
  <2> QED BY <1>1, <1>2, <2>5 DEF AsksOnce
<1>4. contexts'[r.task] = contexts[r.task]
  <2>1. CASE UNCHANGED storeVars
    BY <2>1 DEF storeVars
  <2>2. ASSUME NEW c \in Calls, NEW q \in CreateRequests, NEW s \in Statuses, CommitCreate(c, q, s)
        PROVE  contexts'[r.task] = contexts[r.task]
    BY <1>1, <1>2, <2>2 DEF CommitCreate, TypeOK
  <2>3. ASSUME NEW c \in Calls, NEW q \in ClarifyRequests, NEW s \in Statuses,
               Running(c), call[c].request = q, CommitClarify(c, q, s)
        PROVE  contexts'[r.task] = contexts[r.task]
    <3>1. q.task # r.task
      BY <1>3, <2>3, ClarifyEffect
    <3> QED BY <1>1, <2>3, <3>1 DEF CommitClarify, TypeOK
  <2> QED BY <2>1, <2>2, <2>3 DEF StoreMoves
<1> QED BY <1>1, <1>4 DEF Overtaken, Stored, Keyed, ClarifyRequests

\* An IntegrityError leaves the service where answers were overtaken.
LEMMA ConflictStep ==
    ASSUME TypeOK, NEW c \in Calls, LosesRace(c), call'[c].phase = "CONFLICT"
    PROVE  /\ Overtaken(call[c].request)' /\ call'[c].request = call[c].request
           /\ \A d \in Calls \ {c} : call'[d] = call[d]
<1> DEFINE r == call[c].request
<1>1. r.kind = "CLARIFY" /\ Keyed(r.task, r.key) = {} /\ Step(c, "CONFLICT", r, NoReply)
  BY DEF LosesRace, ReadsBack, Step, TypeOK
<1>2. call'[c].request = r /\ \A d \in Calls \ {c} : call'[d] = call[d]
  BY <1>1 DEF Step, TypeOK
<1>3. \E x \in contexts[r.task] : x.version = r.version + 1 /\ x.key # r.key
  BY <1>1 DEF LosesRace, UniqueKeyRefuses, Taken, Keyed
<1>4. contexts' = contexts /\ call[c].request' = call'[c].request
  BY DEF LosesRace, storeVars
<1> QED BY <1>1, <1>2, <1>3, <1>4 DEF Overtaken, Stored, Keyed

\* Only a lost race ends a call with an IntegrityError.
LEMMA OnlyLosersConflict ==
    ASSUME TypeOK, [BaselineNext]_vars, NEW d \in Calls
    PROVE  \/ call'[d] = call[d]
           \/ call'[d] = NoCall
           \/ call'[d].phase # "CONFLICT"
           \/ LosesRace(d)
<1>1. ASSUME NEW c \in Calls, NEW phase \in Phases \ {"CONFLICT"}, NEW r, NEW reply,
             Step(c, phase, r, reply)
      PROVE  call'[d] = call[d] \/ call'[d].phase # "CONFLICT"
  BY <1>1 DEF Step, TypeOK
<1>2. ASSUME NEW c \in Calls, NEW r \in CreateRequests, BeginCreate(c, r)
      PROVE  call'[d] = call[d] \/ call'[d].phase # "CONFLICT"
  BY <1>1, <1>2 DEF BeginCreate, Phases
<1>3. ASSUME NEW c \in Calls, NEW r \in ClarifyRequests, BeginClarify(c, r)
      PROVE  call'[d] = call[d] \/ call'[d].phase # "CONFLICT"
  BY <1>1, <1>3 DEF BeginClarify, Phases
<1>4. ASSUME NEW c \in Calls, NEW r \in CreateRequests \cup ClarifyRequests, Unavailable(c, r)
      PROVE  call'[d] = call[d] \/ call'[d].phase # "CONFLICT"
  BY <1>1, <1>4 DEF Unavailable, Phases
<1>5. ASSUME NEW c \in Calls, BaselineCommit(c)
      PROVE  call'[d] = call[d] \/ call'[d].phase # "CONFLICT"
  BY <1>1, <1>5 DEF BaselineCommit, CommitCreate, CommitClarify, Phases
<1>6. ASSUME NEW c \in Calls, Fail(c)
      PROVE  call'[d] = call[d] \/ call'[d].phase # "CONFLICT"
  BY <1>1, <1>6 DEF Fail, Phases
<1>7. ASSUME NEW c \in Calls, Return(c)
      PROVE  call'[d] = call[d] \/ call'[d] = NoCall
  BY <1>7 DEF Return, TypeOK
<1>8. ASSUME NEW c \in Calls, LosesRace(c)
      PROVE  call'[d] = call[d] \/ LosesRace(d)
  <2>1. CASE d = c
    BY <1>8, <2>1
  <2>2. CASE d # c
    BY <1>8, <2>2 DEF LosesRace, ReadsBack, Step, TypeOK
  <2> QED BY <2>1, <2>2
<1>9. CASE UNCHANGED vars
  BY <1>9 DEF vars
<1> QED BY <1>2, <1>3, <1>4, <1>5, <1>6, <1>7, <1>8, <1>9 DEF BaselineNext

\* Every step leaves the losers answered.
LEMMA LosersStep == ASSUME BaselineInv, [BaselineNext]_vars PROVE LosersAreAnswered'
<1>i. TasksInv /\ TypeOK /\ AsksOnce /\ LosersAreAnswered /\ StoreMoves
  BY BaselineStoreStep DEF BaselineInv, TasksInv
<1> SUFFICES ASSUME NEW d \in Calls, call'[d] # NoCall, call'[d].phase = "CONFLICT"
             PROVE  Overtaken(call[d].request)'
  BY DEF LosersAreAnswered
<1>1. CASE call'[d] = call[d]
  <2>1. Overtaken(call[d].request)
    BY <1>i, <1>1 DEF LosersAreAnswered
  <2>2. call[d].request \in CreateRequests \cup ClarifyRequests
    BY <1>i, <1>1 DEF TypeOK, CallRecords
  <2> QED BY <1>i, <1>1, <2>1, <2>2, OvertakenStays DEF Overtaken, Stored, Keyed
<1>2. CASE LosesRace(d)
  BY <1>i, <1>2, ConflictStep
<1> QED BY <1>i, <1>1, <1>2, OnlyLosersConflict

\* The invariant of the rule pipeline's service holds always.
THEOREM BaselineInvariant == BaselineSpec => []BaselineInv
<1>1. Init => BaselineInv
  <2>1. Init => AsksOnce /\ LosersAreAnswered
    BY DEF Init, AsksOnce, LosersAreAnswered
  <2> QED BY <2>1, TasksInvInit DEF BaselineInv
<1>2. BaselineInv /\ [BaselineNext]_vars => BaselineInv'
  BY BaselineTasksInvStep, AskedStep, LosersStep DEF BaselineInv
<1> QED BY <1>1, <1>2, PTL DEF BaselineSpec

\* An IntegrityError only answers a client whom another one overtook.
THEOREM LosersGetAnswers == BaselineSpec => []LosersAreAnswered
<1>1. BaselineInv => LosersAreAnswered
  BY DEF BaselineInv
<1> QED BY <1>1, BaselineInvariant, PTL

\* A task asks at most once, and of the answers that race one is stored, which
\* completes it: the latest version counts the contexts.
THEOREM BaselineAsksOnce == BaselineSpec => []AskedAtMostOnce
<1>1. ASSUME BaselineInv, NEW t \in Tasks, root[t] # NoRow
      PROVE  /\ contexts[t] = {} <=> root[t].payload \notin Unclear
             /\ Cardinality(contexts[t]) <= 2
             /\ Cardinality(contexts[t]) = 2 => TaskStatus(t) = "COMPLETED"
  <2>1. contexts[t] = {} => Cardinality(contexts[t]) = 0
    BY FS_EmptySet
  <2>2. contexts[t] # {} => TaskContext(t) = Cardinality(contexts[t])
    BY <1>1, LatestIsLast DEF BaselineInv, TasksInv
  <2> QED BY <1>1, <2>1, <2>2 DEF BaselineInv, AsksOnce
<1>2. BaselineInv => AskedAtMostOnce
  BY <1>1 DEF AskedAtMostOnce
<1> QED BY <1>2, BaselineInvariant, PTL

\* Under the rule pipeline too the contexts of a task are one line.
THEOREM BaselineContextLine == BaselineSpec => []ContextsAreOneLine
<1>1. BaselineInv => ContextsAreOneLine
  BY DEF BaselineInv, TasksInv, LineOK, ContextsAreOneLine
<1> QED BY <1>1, BaselineInvariant, PTL

\* Under the rule pipeline too the stored task implements its lifecycle.
THEOREM BaselineKeepsTheLifecycle == BaselineSpec => KeepsTheLifecycle
<1>1. BaselineInv /\ [BaselineNext]_vars => [Lifecycle!Next]_(Lifecycle!lifecycleVars)
  BY LifecycleStep, BaselineStoreStep DEF BaselineInv
<1> QED BY <1>1, LifecycleInit, BaselineInvariant, PTL
        DEF BaselineSpec, KeepsTheLifecycle, Lifecycle!Spec
=============================================================================
