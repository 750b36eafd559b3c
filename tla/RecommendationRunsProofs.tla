---------------------- MODULE RecommendationRunsProofs ----------------------
(***************************************************************************)
(* Proofs about RecommendationRuns, for any tasks, calls and bounds of the *)
(* broker and the audit buffer, on those about RecommendationTasks.        *)
(* Proofs about RunStreams, the readers of that broker: for any readers    *)
(* and any size of their queues.                                           *)
(***************************************************************************)
EXTENDS RecommendationRuns, RecommendationTasksProofs, RunStreams, SequenceTheorems

-----------------------------------------------------------------------------
(* The inductive invariant.  Drivers are as few as the runs under way      *)
(* because each has one of its own; a run's result is stored because the   *)
(* reply of its call is, and what is stored stays.                         *)

\* The runs under way, of which there are at most MaxConcurrent.
LiveBounded == IsFiniteSet(Live) /\ Cardinality(Live) <= MaxConcurrent

\* A driver's call is about its run's request.
CallsServeDrivers ==
    \A c \in Calls : (driver[c] # NoDriver /\ call[c] # NoCall) => call[c].request = driver[c].request

\* What a reply tells is in the store.
ReplyStored(t, reply) ==
    reply # NoReply =>
        /\ \/ \E x \in contexts[t] : x.version = reply.context /\ x.status = reply.status
           \/ reply.context = 1 /\ root[t] # NoRow /\ root[t].status = reply.status
        /\ reply.shown \in {0, record[t]}

RepliesAreStored == \A c \in Calls : call[c] # NoCall => ReplyStored(call[c].request.task, call[c].reply)

BrokerInv == RunsTypeOK /\ DriversMatchRuns /\ LiveBounded /\ CloseWaitsForDrivers

RunsInv == TasksInv /\ BrokerInv /\ CallsServeDrivers /\ RepliesAreStored /\ RunResultIsStored

\* The same, run by run.
LEMMA ResultsByRun ==
    RunResultIsStored <=> \A t \in Tasks : runs[t] # NoRun => ReplyStored(t, runs[t].result)
BY DEF RunResultIsStored, ReplyStored

-----------------------------------------------------------------------------
(* Replies and the store.                                                  *)

\* What is stored stays.
Stays(t) ==
    /\ contexts[t] \subseteq contexts'[t]
    /\ root[t] # NoRow => root'[t] = root[t]
    /\ record[t] # 0 => record'[t] = record[t]

\* A reply that was stored is so after a step that keeps the store.
LEMMA StoredStays ==
    ASSUME NEW t, NEW reply, Stays(t), ReplyStored(t, reply)
    PROVE  ReplyStored(t, reply)'
BY DEF Stays, ReplyStored, NoReply

\* A call takes a step to a reply that is stored; those of the others stay so.
LEMMA RepliesStay ==
    ASSUME TypeOK, RepliesAreStored, \A t \in Tasks : Stays(t),
           NEW c \in Calls, NEW phase, NEW r \in Requests, NEW reply,
           Step(c, phase, r, reply), ReplyStored(r.task, reply)'
    PROVE  RepliesAreStored'
<1>1. SUFFICES ASSUME NEW d \in Calls, call'[d] # NoCall,
                      NEW t, t = call'[d].request.task, NEW told, told = call'[d].reply
               PROVE  ReplyStored(t, told)'
  BY DEF RepliesAreStored, ReplyStored
<1>2. CASE d = c
  <2>1. t = r.task /\ told = reply
    BY <1>1, <1>2 DEF TypeOK, Step
  <2> QED BY <2>1 DEF ReplyStored
<1>3. CASE d # c
  <2>1. call'[d] = call[d] /\ call[d] \in CallRecords
    BY <1>1, <1>3 DEF TypeOK, Step
  <2>2. t \in Tasks
    BY <1>1, <2>1 DEF CallRecords, CreateRequests, ClarifyRequests
  <2>3. ReplyStored(t, told)
    BY <1>1, <2>1 DEF RepliesAreStored
  <2> QED BY <2>2, <2>3, StoredStays
<1> QED BY <1>2, <1>3

\* Nothing happens to the store.
LEMMA StoreStays ==
    ASSUME UNCHANGED storeVars
    PROVE  \A t \in Tasks : Stays(t)
BY DEF Stays, storeVars

\* Steps without a reply, and replies that are read from the store.
LEMMA PlainReplies ==
    ASSUME TasksInv, NEW t \in Tasks
    PROVE  /\ ReplyStored(t, NoReply)
           /\ root[t] # NoRow => ReplyStored(t, LoadExecution(t))
           /\ \A x \in contexts[t] : ReplyStored(t, StoredResponse(x))
<1>1. TypeOK /\ LineOK(t) /\ RootOK(t) /\ record[t] = Shown(TaskStatus(t), TaskContext(t))
  BY DEF TasksInv, RecordIsTheLastContexts
<1>2. ASSUME root[t] # NoRow PROVE ReplyStored(t, LoadExecution(t))
  <2>1. CASE record[t] = 0 /\ contexts[t] # {}
    <3>1. PICK x \in contexts[t] : TaskStatus(t) = x.status /\ TaskContext(t) = x.version
      BY <1>1, <2>1, LatestIsLast
    <3> QED BY <2>1, <3>1 DEF LoadExecution, Reply, ReplyStored
  <2>2. CASE ~(record[t] = 0 /\ contexts[t] # {})
    BY <1>2, <2>2 DEF LoadExecution, Reply, ReplyStored
  <2> QED BY <2>1, <2>2
<1>3. ASSUME NEW x \in contexts[t] PROVE ReplyStored(t, StoredResponse(x))
  <2>1. Shown(x.status, x.version) \in {0, record[t]}
    <3>1. CASE x.status = "COMPLETED"
      <4>1. PICK y \in contexts[t] : /\ y.version = Cardinality(contexts[t])
                                     /\ TaskStatus(t) = y.status /\ TaskContext(t) = y.version
        BY <1>1, LatestIsLast
      <4>2. Cardinality(contexts[t]) \in Nat /\ x.version \in 1 .. Cardinality(contexts[t])
        BY <1>1, FS_CardinalityType DEF LineOK
      <4>3. x = y
        <5>1. ~(x.version < y.version)
          BY <1>1, <3>1 DEF LineOK
        <5>2. x.version = y.version
          BY <4>1, <4>2, <5>1
        <5> QED BY <1>1, <5>2 DEF LineOK
      <4> QED BY <1>1, <4>1, <4>3
    <3>2. CASE x.status # "COMPLETED"
      BY <3>2 DEF Shown
    <3> QED BY <3>1, <3>2
  <2> QED BY <2>1 DEF StoredResponse, Reply, ReplyStored
<1>4. ReplyStored(t, NoReply)
  BY DEF ReplyStored
<1> QED BY <1>2, <1>3, <1>4

\* A step that leaves the store alone and gives a call a reply stored before.
LEMMA ReadReplies ==
    ASSUME TasksInv, RepliesAreStored, UNCHANGED storeVars,
           NEW c \in Calls, NEW phase, NEW r \in Requests, NEW reply,
           Step(c, phase, r, reply), ReplyStored(r.task, reply)
    PROVE  RepliesAreStored'
<1>1. r.task \in Tasks /\ TypeOK
  BY DEF TasksInv, Requests, CreateRequests, ClarifyRequests
<1>2. \A t \in Tasks : Stays(t)
  BY StoreStays
<1>3. ReplyStored(r.task, reply)'
  BY <1>1, <1>2, StoredStays
<1> QED BY <1>1, <1>2, <1>3, RepliesStay

\* An append: what was stored stays, and the reply of the call is stored.
LEMMA CreateReplies ==
    ASSUME TasksInv, RepliesAreStored, NEW c \in Calls, NEW r \in CreateRequests, NEW s \in Statuses,
           CommitCreate(c, r, s)
    PROVE  RepliesAreStored' /\ \A t \in Tasks : Stays(t)
<1>1. /\ TypeOK /\ r.task \in Tasks /\ r \in Requests
      /\ root[r.task] = NoRow /\ contexts[r.task] = {} /\ record[r.task] = 0
  BY DEF TasksInv, RootOK, CommitCreate, CreateRequests, Requests
<1>2. ASSUME NEW t \in Tasks PROVE Stays(t)
  <2>1. CASE t = r.task
    BY <1>1, <2>1 DEF Stays
  <2>2. CASE t # r.task
    BY <1>1, <2>2 DEF Stays, CommitCreate, TypeOK
  <2> QED BY <2>1, <2>2
<1>3. ReplyStored(r.task, Reply(s, 1, Shown(s, 1)))'
  <2>1. root'[r.task] = [payload |-> r.payload, status |-> s] /\ record'[r.task] = Shown(s, 1)
    BY <1>1 DEF CommitCreate, TypeOK
  <2>2. root'[r.task] # NoRow /\ root'[r.task].status = s
    BY <2>1, TasksAssumption DEF CreateRequests, Statuses
  <2> QED BY <2>1, <2>2 DEF ReplyStored, Reply
<1> QED BY <1>1, <1>2, <1>3, RepliesStay DEF CommitCreate

\* The same for an answer to a clarification.
LEMMA ClarifyReplies ==
    ASSUME TasksInv, RepliesAreStored, NEW c \in Calls, NEW r \in ClarifyRequests, NEW s \in Statuses,
           Running(c), call[c].request = r, CommitClarify(c, r, s)
    PROVE  RepliesAreStored' /\ \A t \in Tasks : Stays(t)
<1> DEFINE x == [version |-> r.version + 1, status |-> s, key |-> r.key, answers |-> r.answers]
<1>1. /\ TypeOK /\ r.task \in Tasks /\ r \in Requests
      /\ record[r.task] = Shown(TaskStatus(r.task), TaskContext(r.task))
  BY DEF TasksInv, RecordIsTheLastContexts, ClarifyRequests, Requests
<1>2. record[r.task] = 0
  BY <1>1, ClarifyEffect DEF Shown
<1>3. /\ contexts' = [contexts EXCEPT ![r.task] = contexts[r.task] \cup {x}]
      /\ root' = root
      /\ record' = IF s = "COMPLETED" THEN [record EXCEPT ![r.task] = r.version + 1] ELSE record
      /\ Step(c, "STORED", r, Reply(s, r.version + 1, Shown(s, r.version + 1)))
  BY <1>1 DEF CommitClarify, TypeOK
<1>4. ASSUME NEW t \in Tasks PROVE Stays(t)
  <2>1. CASE t = r.task
    BY <1>1, <1>2, <1>3, <2>1 DEF Stays, TypeOK
  <2>2. CASE t # r.task
    BY <1>1, <1>3, <2>2 DEF Stays, TypeOK
  <2> QED BY <2>1, <2>2
<1>5. ReplyStored(r.task, Reply(s, r.version + 1, Shown(s, r.version + 1)))'
  <2>1. x \in contexts'[r.task] /\ x.version = r.version + 1 /\ x.status = s
    BY <1>1, <1>3 DEF TypeOK
  <2>2. Shown(s, r.version + 1) \in {0, record'[r.task]}
    BY <1>1, <1>3 DEF Shown, TypeOK
  <2> QED BY <2>1, <2>2 DEF ReplyStored, Reply
<1> QED BY <1>1, <1>3, <1>4, <1>5, RepliesStay

\* Every step of the services keeps what replies tell in the store.
LEMMA ServiceReplies ==
    ASSUME TasksInv, RepliesAreStored, [Next]_vars
    PROVE  RepliesAreStored' /\ \A t \in Tasks : Stays(t)
<1> USE DEF Requests
<1>t. TypeOK
  BY DEF TasksInv
<1>1. ASSUME NEW c \in Calls, Commit(c)
      PROVE  RepliesAreStored' /\ \A t \in Tasks : Stays(t)
  <2>1. /\ Running(c)
        /\ call[c].request.kind = "CREATE" => call[c].request \in CreateRequests
        /\ call[c].request.kind = "CLARIFY" => call[c].request \in ClarifyRequests
    BY <1>1, <1>t, RunningTyped DEF Commit
  <2> QED BY <1>1, <2>1, CreateReplies, ClarifyReplies DEF Commit
<1>2. ASSUME NEW c \in Calls, NEW r \in CreateRequests, BeginCreate(c, r)
      PROVE  RepliesAreStored' /\ UNCHANGED storeVars
  <2>1. r.task \in Tasks /\ UNCHANGED storeVars
    BY <1>2 DEF CreateRequests, BeginCreate
  <2>2. CASE Step(c, "RUNNING", r, NoReply) \/ Step(c, "REJECTED", r, NoReply)
    BY <2>1, <2>2, PlainReplies, ReadReplies
  <2>3. CASE root[r.task] # NoRow /\ Step(c, "REPLAYED", r, LoadExecution(r.task))
    BY <2>1, <2>3, PlainReplies, ReadReplies
  <2> QED BY <1>2, <2>1, <2>2, <2>3 DEF BeginCreate
<1>3. ASSUME NEW c \in Calls, NEW r \in ClarifyRequests, BeginClarify(c, r)
      PROVE  RepliesAreStored' /\ UNCHANGED storeVars
  <2>1. r.task \in Tasks /\ UNCHANGED storeVars
    BY <1>3 DEF ClarifyRequests, BeginClarify
  <2>2. CASE Step(c, "RUNNING", r, NoReply) \/ Step(c, "REJECTED", r, NoReply)
    BY <2>1, <2>2, PlainReplies, ReadReplies
  <2>3. CASE \E x \in Keyed(r.task, r.key) : Step(c, "REPLAYED", r, StoredResponse(x))
    BY <2>1, <2>3, PlainReplies, ReadReplies DEF Keyed
  <2> QED BY <1>3, <2>1, <2>2, <2>3 DEF BeginClarify
<1>4. ASSUME NEW c \in Calls, NEW r \in Requests, Unavailable(c, r)
      PROVE  RepliesAreStored' /\ UNCHANGED storeVars
  <2>1. r.task \in Tasks /\ UNCHANGED storeVars /\ Step(c, "FAILED", r, NoReply)
    BY <1>4 DEF CreateRequests, ClarifyRequests, Unavailable
  <2> QED BY <2>1, PlainReplies, ReadReplies
<1>5. ASSUME NEW c \in Calls, CommitConflict(c) \/ Fail(c)
      PROVE  RepliesAreStored' /\ UNCHANGED storeVars
  <2>1. call[c].request \in Requests
    BY <1>5, <1>t, RunningTyped DEF CommitConflict, Fail
  <2>2. call[c].request.task \in Tasks /\ UNCHANGED storeVars
    BY <1>5, <2>1 DEF CreateRequests, ClarifyRequests, CommitConflict, Fail
  <2>3. \E phase \in {"CONFLICT", "FAILED"} : Step(c, phase, call[c].request, NoReply)
    BY <1>5 DEF CommitConflict, Fail
  <2> QED BY <2>1, <2>2, <2>3, PlainReplies, ReadReplies
<1>6. ASSUME NEW c \in Calls, Return(c)
      PROVE  RepliesAreStored' /\ UNCHANGED storeVars
  BY <1>6, <1>t DEF Return, TypeOK, RepliesAreStored, ReplyStored, storeVars
<1>7. CASE UNCHANGED vars
  <2>1. UNCHANGED storeVars /\ call' = call
    BY <1>7 DEF vars, storeVars
  <2> QED BY <2>1, StoreStays DEF RepliesAreStored, ReplyStored, storeVars
<1> QED BY <1>1, <1>2, <1>3, <1>4, <1>5, <1>6, <1>7, StoreStays DEF Next

-----------------------------------------------------------------------------
(* The broker.                                                             *)

DriverRecords == [request : Requests, mirrored : BOOLEAN]

\* Everything about the broker, in parts that a step of it disturbs.
LEMMA BrokerTyped ==
    ASSUME BrokerInv
    PROVE  /\ runs \in [Tasks -> RunRecords \cup {NoRun}]
           /\ driver \in [Calls -> DriverRecords \cup {NoDriver}]
           /\ room \in 0 .. MaxFacts
           /\ door \in {"OPEN", "CLOSING", "CLOSED"}
           /\ MaxFacts \in Nat /\ MaxConcurrent \in Nat
BY RunsAssumption DEF BrokerInv, RunsTypeOK, DriverRecords

\* A reserved run is one more under way, and no driver worked for its task.
LEMMA ReserveMoves ==
    ASSUME BrokerInv, NEW r \in Requests, Reservable(r), Reserve(r)
    PROVE  /\ runs' \in [Tasks -> RunRecords \cup {NoRun}]
           /\ LiveBounded'
           /\ r.task \in Tasks
           /\ runs'[r.task] # NoRun /\ ~runs'[r.task].terminal /\ runs'[r.task].request = r
           /\ runs'[r.task].result = NoReply
           /\ \A t \in Tasks \ {r.task} : runs'[t] = runs[t]
           /\ \A c \in Calls : driver[c] # NoDriver => driver[c].request.task # r.task
           /\ runs[r.task] # NoRun => runs'[r.task].context > runs[r.task].context
<1> DEFINE run == [request |-> r, context |-> Version(r), terminal |-> FALSE,
                   status |-> "ACCEPTED", result |-> NoReply]
<1>1. /\ runs \in [Tasks -> RunRecords \cup {NoRun}]
      /\ r.task \in Tasks
      /\ runs' = [runs EXCEPT ![r.task] = run]
  BY BrokerTyped DEF Requests, CreateRequests, ClarifyRequests, Reserve
<1>2. Version(r) \in Nat
  BY TasksAssumption DEF Version, Requests, CreateRequests, ClarifyRequests
<1>3. run \in RunRecords
  BY <1>2, NoReplyTyped DEF RunRecords
<1>4. /\ run # NoRun /\ ~run.terminal /\ run.request = r /\ run.result = NoReply
      /\ run.context = Version(r)
  BY <1>3, RunsAssumption
<1> HIDE DEF run
<1>5. /\ runs' \in [Tasks -> RunRecords \cup {NoRun}]
      /\ runs'[r.task] = run
      /\ \A t \in Tasks \ {r.task} : runs'[t] = runs[t]
  BY <1>1, <1>3
<1>6. /\ runs[r.task] # NoRun => runs[r.task].terminal /\ Version(r) > runs[r.task].context
      /\ Cardinality(Live) < MaxConcurrent
  BY DEF Reservable, Replaceable
<1>7. LiveBounded'
  <2>1. Live' = Live \cup {r.task} /\ r.task \notin Live
    BY <1>1, <1>4, <1>5, <1>6 DEF Live
  <2>2. IsFiniteSet(Live) /\ Cardinality(Live) \in Nat /\ MaxConcurrent \in Nat
    BY FS_CardinalityType, BrokerTyped DEF BrokerInv, LiveBounded
  <2>3. IsFiniteSet(Live') /\ Cardinality(Live') = Cardinality(Live) + 1
    BY <2>1, <2>2, FS_AddElement
  <2> QED BY <1>6, <2>2, <2>3 DEF LiveBounded
<1>8. \A c \in Calls : driver[c] # NoDriver => driver[c].request.task # r.task
  BY <1>6 DEF BrokerInv, DriversMatchRuns
<1> QED BY <1>1, <1>4, <1>5, <1>6, <1>7, <1>8

\* No more runs under way, and those that were are as bounded.
LEMMA FewerLive ==
    ASSUME BrokerInv, Live' \subseteq Live
    PROVE  LiveBounded'
<1>1. IsFiniteSet(Live) /\ Cardinality(Live) \in Nat /\ Cardinality(Live) <= MaxConcurrent /\ MaxConcurrent \in Nat
  BY FS_CardinalityType, BrokerTyped DEF BrokerInv, LiveBounded
<1>2. IsFiniteSet(Live') /\ Cardinality(Live') <= Cardinality(Live) /\ Cardinality(Live') \in Nat
  BY <1>1, FS_Subset, FS_CardinalityType
<1> QED BY <1>1, <1>2 DEF LiveBounded

\* A started run has the one driver of its task.
LEMMA StartRunMoves ==
    ASSUME BrokerInv, NEW c \in Calls, NEW r \in Requests, NEW mirrored \in BOOLEAN,
           StartRun(c, r, mirrored)
    PROVE  BrokerInv'
<1>1. /\ driver[c] = NoDriver /\ Reservable(r) /\ Reserve(r) /\ door = "OPEN" /\ door' = door
      /\ driver' = [driver EXCEPT ![c] = [request |-> r, mirrored |-> mirrored]]
      /\ Announced(r, mirrored) => room > 0
      /\ room' = IF Announced(r, mirrored) THEN room - 1 ELSE room
  BY DEF StartRun, Reservable
<1>2. /\ runs' \in [Tasks -> RunRecords \cup {NoRun}]
      /\ LiveBounded'
      /\ r.task \in Tasks
      /\ runs'[r.task] # NoRun /\ ~runs'[r.task].terminal /\ runs'[r.task].request = r
      /\ \A t \in Tasks \ {r.task} : runs'[t] = runs[t]
      /\ \A d \in Calls : driver[d] # NoDriver => driver[d].request.task # r.task
  BY <1>1, ReserveMoves
<1>3. /\ driver' \in [Calls -> DriverRecords \cup {NoDriver}]
      /\ driver'[c] = [request |-> r, mirrored |-> mirrored]
      /\ \A d \in Calls \ {c} : driver'[d] = driver[d]
  BY <1>1, BrokerTyped DEF DriverRecords
<1>4. RunsTypeOK'
  BY <1>1, <1>2, <1>3, BrokerTyped DEF RunsTypeOK, DriverRecords
<1>5. DriversMatchRuns'
  <2>1. SUFFICES ASSUME NEW d \in Calls, driver'[d] # NoDriver,
                        NEW t, t = driver'[d].request.task
                 PROVE  /\ runs'[t] # NoRun /\ ~runs'[t].terminal
                        /\ runs'[t].request = driver'[d].request
                        /\ \A e \in Calls \ {d} :
                             driver'[e] # NoDriver => driver'[e].request.task # t
    BY DEF DriversMatchRuns
  <2>2. CASE d = c
    BY <1>2, <1>3, <2>1, <2>2
  <2>3. CASE d # c
    <3>1. driver'[d] = driver[d] /\ driver[d] \in DriverRecords
      BY <1>3, <2>1, <2>3
    <3>2. t \in Tasks \ {r.task}
      BY <1>2, <2>1, <3>1 DEF DriverRecords, Requests, CreateRequests, ClarifyRequests
    <3>3. /\ runs[t] # NoRun /\ ~runs[t].terminal /\ runs[t].request = driver[d].request
          /\ \A e \in Calls \ {d} : driver[e] # NoDriver => driver[e].request.task # t
      BY <2>1, <3>1 DEF BrokerInv, DriversMatchRuns
    <3> QED BY <1>2, <1>3, <3>1, <3>2, <3>3
  <2> QED BY <2>2, <2>3
<1>6. CloseWaitsForDrivers'
  BY <1>1 DEF CloseWaitsForDrivers
<1> QED BY <1>2, <1>4, <1>5, <1>6 DEF BrokerInv

\* A stranded run has no driver, and no other driver is its own.
LEMMA StrandRunMoves ==
    ASSUME BrokerInv, NEW r \in Requests, NEW mirrored \in BOOLEAN, StrandRun(r, mirrored)
    PROVE  BrokerInv'
<1>1. Reservable(r) /\ Reserve(r) /\ UNCHANGED <<driver, room, door>>
  BY DEF StrandRun
<1>2. /\ runs' \in [Tasks -> RunRecords \cup {NoRun}]
      /\ LiveBounded'
      /\ \A t \in Tasks \ {r.task} : runs'[t] = runs[t]
      /\ \A d \in Calls : driver[d] # NoDriver => driver[d].request.task # r.task
  BY <1>1, ReserveMoves
<1>3. RunsTypeOK' /\ CloseWaitsForDrivers'
  BY <1>1, <1>2 DEF BrokerInv, RunsTypeOK, CloseWaitsForDrivers
<1>4. DriversMatchRuns'
  <2>1. ASSUME NEW d \in Calls, driver[d] # NoDriver
        PROVE  runs'[driver[d].request.task] = runs[driver[d].request.task]
    <3>1. driver[d] \in DriverRecords
      BY <2>1, BrokerTyped
    <3>2. driver[d].request.task \in Tasks \ {r.task}
      BY <1>2, <2>1, <3>1 DEF DriverRecords, Requests, CreateRequests, ClarifyRequests
    <3> QED BY <1>2, <3>2
  <2> QED BY <1>1, <2>1 DEF BrokerInv, DriversMatchRuns
<1> QED BY <1>2, <1>3, <1>4 DEF BrokerInv

\* A driver ends, and with it its run.
LEMMA FinishRunMoves ==
    ASSUME BrokerInv, TypeOK, CallsServeDrivers, NEW c \in Calls, FinishRun(c)
    PROVE  /\ BrokerInv'
           /\ driver[c].request.task \in Tasks
           /\ ~runs[driver[c].request.task].terminal
           /\ \A t \in Tasks \ {driver[c].request.task} : runs'[t] = runs[t]
           /\ call[c] # NoCall /\ call[c].request = driver[c].request
           /\ runs'[driver[c].request.task] # NoRun
           /\ runs'[driver[c].request.task].result \in {NoReply, call[c].reply}
<1>1. driver[c] # NoDriver /\ driver[c] \in DriverRecords /\ call[c] # NoCall /\ call[c] \in CallRecords
  BY BrokerTyped DEF FinishRun, ServiceEnded, TypeOK
<1>2. PICK t : t = driver[c].request.task
  OBVIOUS
<1>3. t \in Tasks /\ runs[t] # NoRun /\ ~runs[t].terminal /\ runs[t] \in RunRecords
  <2>1. t \in Tasks
    BY <1>1, <1>2 DEF DriverRecords, Requests, CreateRequests, ClarifyRequests
  <2>2. runs[t] # NoRun /\ ~runs[t].terminal
    BY <1>1, <1>2 DEF BrokerInv, DriversMatchRuns
  <2> QED BY <2>1, <2>2, BrokerTyped
<1> DEFINE replied == call[c].phase \in {"STORED", "REPLAYED"}
           raises == driver[c].mirrored /\ room < TerminalFacts
<1>4. /\ runs' = [runs EXCEPT ![t] =
                   [runs[t] EXCEPT !.terminal = TRUE,
                                   !.status = IF replied /\ ~raises THEN call[c].reply.status ELSE "FAILED",
                                   !.result = IF replied THEN call[c].reply ELSE NoReply]]
      /\ room' = IF raises THEN 0 ELSE IF driver[c].mirrored THEN room - TerminalFacts ELSE room
      /\ driver' = [driver EXCEPT ![c] = NoDriver]
      /\ door' = door
  <2>1. runs \in [Tasks -> RunRecords \cup {NoRun}]
    BY BrokerTyped
  <2> QED BY <1>2, <1>3, <2>1 DEF FinishRun, ReplyOf
<1>5. PICK status : status = IF replied /\ ~raises THEN call[c].reply.status ELSE "FAILED"
  OBVIOUS
<1>6. PICK result : result = IF replied THEN call[c].reply ELSE NoReply
  OBVIOUS
<1>7. /\ status \in Statuses \cup {"NONE", "ACCEPTED", "FAILED"}
      /\ result \in Replies /\ result \in {NoReply, call[c].reply}
  BY <1>1, <1>5, <1>6, NoReplyTyped DEF CallRecords, Replies
<1>8. PICK run : run = [runs[t] EXCEPT !.terminal = TRUE, !.status = status, !.result = result]
  OBVIOUS
<1>9. run \in RunRecords /\ run # NoRun /\ run.terminal /\ run.result = result
  BY <1>3, <1>7, <1>8, RunsAssumption DEF RunRecords
<1>10. runs' = [runs EXCEPT ![t] = run]
  BY <1>4, <1>5, <1>6, <1>8
<1>11. /\ runs' \in [Tasks -> RunRecords \cup {NoRun}]
       /\ runs'[t] = run /\ \A u \in Tasks \ {t} : runs'[u] = runs[u]
  BY <1>3, <1>9, <1>10, BrokerTyped
<1>12. /\ driver' \in [Calls -> DriverRecords \cup {NoDriver}]
       /\ driver'[c] = NoDriver /\ \A d \in Calls \ {c} : driver'[d] = driver[d]
  BY <1>4, BrokerTyped
<1>13. room' \in 0 .. MaxFacts
  BY <1>4, BrokerTyped DEF TerminalFacts
<1>14. RunsTypeOK'
  BY <1>4, <1>11, <1>12, <1>13, BrokerTyped DEF RunsTypeOK, DriverRecords
<1>15. LiveBounded'
  <2>1. Live' \subseteq Live
    BY <1>9, <1>11 DEF Live
  <2> QED BY <2>1, FewerLive
<1>16. DriversMatchRuns'
  <2>1. SUFFICES ASSUME NEW d \in Calls, driver'[d] # NoDriver,
                        NEW u, u = driver'[d].request.task
                 PROVE  /\ runs'[u] # NoRun /\ ~runs'[u].terminal
                        /\ runs'[u].request = driver'[d].request
                        /\ \A e \in Calls \ {d} :
                             driver'[e] # NoDriver => driver'[e].request.task # u
    BY DEF DriversMatchRuns
  <2>2. d # c /\ driver'[d] = driver[d] /\ driver[d] \in DriverRecords
    BY <1>12, <2>1
  <2>3. u \in Tasks /\ u # t
    BY <1>1, <1>2, <2>1, <2>2 DEF BrokerInv, DriversMatchRuns, DriverRecords, Requests, CreateRequests,
                                   ClarifyRequests
  <2>4. /\ runs[u] # NoRun /\ ~runs[u].terminal /\ runs[u].request = driver[d].request
        /\ \A e \in Calls \ {d} : driver[e] # NoDriver => driver[e].request.task # u
    BY <2>1, <2>2 DEF BrokerInv, DriversMatchRuns
  <2> QED BY <1>11, <1>12, <2>2, <2>3, <2>4
<1>17. CloseWaitsForDrivers'
  BY <1>4, <1>12 DEF BrokerInv, CloseWaitsForDrivers
<1>18. BrokerInv'
  BY <1>14, <1>15, <1>16, <1>17 DEF BrokerInv
<1>19. call[c].request = driver[c].request
  BY <1>1 DEF CallsServeDrivers
<1> QED BY <1>1, <1>2, <1>3, <1>7, <1>9, <1>11, <1>18, <1>19

\* Retention, audit and close; and steps that leave the broker alone.
LEMMA AsideMoves ==
    ASSUME BrokerInv,
           \/ \E t \in Tasks : PruneRun(t)
           \/ \E c \in Calls : Progress(c)
           \/ DrainAudit \/ Close \/ Closed
           \/ UNCHANGED runVars
    PROVE  BrokerInv'
<1>1. ASSUME NEW t \in Tasks, PruneRun(t) PROVE BrokerInv'
  <2>1. /\ runs[t] # NoRun /\ runs[t].terminal
        /\ runs' = [runs EXCEPT ![t] = NoRun] /\ UNCHANGED <<driver, room, door>>
    BY <1>1 DEF PruneRun
  <2>2. RunsTypeOK' /\ CloseWaitsForDrivers'
    BY <2>1, BrokerTyped DEF BrokerInv, RunsTypeOK, CloseWaitsForDrivers
  <2>3. LiveBounded'
    <3>1. Live' \subseteq Live
      BY <2>1, BrokerTyped DEF Live
    <3> QED BY <3>1, FewerLive
  <2>4. ASSUME NEW d \in Calls, driver[d] # NoDriver
        PROVE  runs'[driver[d].request.task] = runs[driver[d].request.task]
    <3>1. driver[d] \in DriverRecords
      BY <2>4, BrokerTyped
    <3>2. driver[d].request.task \in Tasks /\ driver[d].request.task # t
      BY <2>1, <2>4, <3>1 DEF BrokerInv, DriversMatchRuns, DriverRecords, Requests, CreateRequests,
                              ClarifyRequests
    <3> QED BY <2>1, <3>2, BrokerTyped
  <2>5. DriversMatchRuns'
    BY <2>1, <2>4 DEF BrokerInv, DriversMatchRuns
  <2> QED BY <2>2, <2>3, <2>5 DEF BrokerInv
<1>2. ASSUME NEW c \in Calls, Progress(c) PROVE BrokerInv'
  BY <1>2, BrokerTyped DEF Progress, BrokerInv, RunsTypeOK, DriversMatchRuns, LiveBounded, Live,
                           CloseWaitsForDrivers
<1>3. CASE DrainAudit
  BY <1>3, BrokerTyped DEF DrainAudit, BrokerInv, RunsTypeOK, DriversMatchRuns, LiveBounded, Live,
                           CloseWaitsForDrivers
<1>4. CASE Close \/ Closed
  <2>1. /\ UNCHANGED <<runs, driver, room>> /\ door' \in {"CLOSING", "CLOSED"}
        /\ door' = "CLOSED" => \A c \in Calls : driver[c] = NoDriver
    BY <1>4 DEF Close, Closed
  <2>2. RunsTypeOK' /\ CloseWaitsForDrivers'
    BY <2>1, BrokerTyped DEF RunsTypeOK, DriverRecords, CloseWaitsForDrivers
  <2>3. DriversMatchRuns' /\ LiveBounded'
    BY <2>1 DEF BrokerInv, DriversMatchRuns, LiveBounded, Live
  <2> QED BY <2>2, <2>3 DEF BrokerInv
<1>5. CASE UNCHANGED runVars
  BY <1>5 DEF runVars, BrokerInv, RunsTypeOK, DriversMatchRuns, LiveBounded, Live, CloseWaitsForDrivers
<1> QED BY <1>1, <1>2, <1>3, <1>4, <1>5

\* The process comes back with an empty broker; what is stored stays.
LEMMA RestartMoves ==
    ASSUME RunsInv, RestartProcess
    PROVE  RunsInv'
<1>1. /\ runs' = [t \in Tasks |-> NoRun] /\ driver' = [c \in Calls |-> NoDriver]
      /\ call' = [c \in Calls |-> IF driver[c] # NoDriver THEN NoCall ELSE call[c]]
      /\ room' = MaxFacts /\ door' = "OPEN" /\ UNCHANGED storeVars
  BY DEF RestartProcess
<1>2. TypeOK /\ BrokerInv /\ MaxFacts \in Nat /\ MaxConcurrent \in Nat
  BY BrokerTyped DEF RunsInv, TasksInv
<1>3. \A c \in Calls : call'[c] \in {NoCall, call[c]}
  BY <1>1
<1>4. TasksInv'
  <2>1. TypeOK'
    BY <1>1, <1>2 DEF TypeOK, storeVars
  <2>2. \A t \in Tasks : LineOK(t)' /\ RootOK(t)'
    BY <1>1 DEF RunsInv, TasksInv, LineOK, RootOK, storeVars
  <2>3. RecordIsTheLastContexts'
    BY <1>1 DEF RunsInv, TasksInv, RecordIsTheLastContexts, TaskStatus, TaskContext, Latest, Shown, storeVars
  <2>4. ASSUME NEW c \in Calls PROVE CallOK(c)'
    <3>1. CASE call'[c] = NoCall
      BY <3>1 DEF CallOK, Running
    <3>2. CASE call'[c] = call[c]
      BY <1>1, <3>2 DEF RunsInv, TasksInv, CallOK, Running, storeVars
    <3> QED BY <1>3, <3>1, <3>2
  <2> QED BY <2>1, <2>2, <2>3, <2>4 DEF TasksInv
<1>5. BrokerInv'
  <2>1. RunsTypeOK'
    BY <1>1, <1>2 DEF RunsTypeOK
  <2>2. Live' = {}
    BY <1>1 DEF Live
  <2>3. LiveBounded'
    BY <1>2, <2>2, FS_EmptySet DEF LiveBounded
  <2>4. DriversMatchRuns' /\ CloseWaitsForDrivers'
    BY <1>1 DEF DriversMatchRuns, CloseWaitsForDrivers
  <2> QED BY <2>1, <2>3, <2>4 DEF BrokerInv
<1>6. CallsServeDrivers' /\ RunResultIsStored'
  BY <1>1 DEF CallsServeDrivers, RunResultIsStored
<1>7. RepliesAreStored'
  <2>1. ASSUME NEW c \in Calls, call'[c] # NoCall PROVE call'[c] = call[c] /\ call[c] # NoCall
    BY <1>3, <2>1
  <2> QED BY <1>1, <2>1 DEF RunsInv, RepliesAreStored, ReplyStored, storeVars
<1> QED BY <1>4, <1>5, <1>6, <1>7 DEF RunsInv

\* A call's step that the broker takes no part in.
LEMMA ServiceMoves ==
    ASSUME RunsInv, [Next]_vars, UNCHANGED runVars, CallsServeDrivers'
    PROVE  RunsInv'
<1>1. TasksInv' /\ BrokerInv'
  BY TasksInvStep, AsideMoves DEF RunsInv
<1>2. RepliesAreStored' /\ \A t \in Tasks : Stays(t)
  BY ServiceReplies DEF RunsInv
<1>3. RunResultIsStored'
  <2>1. ASSUME NEW t \in Tasks, runs[t] # NoRun, NEW told, told = runs[t].result
        PROVE  ReplyStored(t, told)'
    <3>1. ReplyStored(t, told)
      BY <2>1, ResultsByRun DEF RunsInv
    <3> QED BY <1>2, <3>1, StoredStays
  <2>2. runs' = runs
    BY DEF runVars
  <2> QED BY <2>1, <2>2 DEF RunResultIsStored, ReplyStored
<1> QED BY <1>1, <1>2, <1>3 DEF RunsInv

\* A step of the broker that the calls and the store take no part in; a new
\* result there is one without a reply.
LEMMA BrokerMoves ==
    ASSUME RunsInv, BrokerInv', UNCHANGED vars,
           \A c \in Calls : call[c] = NoCall \/ driver'[c] = driver[c],
           \A t \in Tasks : \/ runs'[t] \in {NoRun, runs[t]}
                            \/ runs'[t].result = NoReply
    PROVE  RunsInv'
<1>1. UNCHANGED <<storeVars, call>>
  BY DEF vars, storeVars
<1>2. TasksInv'
  <2>1. [Next]_vars /\ TasksInv
    BY DEF RunsInv
  <2> QED BY <2>1, TasksInvStep
<1>3. CallsServeDrivers'
  BY <1>1 DEF RunsInv, CallsServeDrivers
<1>4. RepliesAreStored'
  BY <1>1 DEF RunsInv, RepliesAreStored, ReplyStored, storeVars
<1>5. RunResultIsStored'
  BY <1>1 DEF RunsInv, RunResultIsStored, storeVars
<1> QED BY <1>2, <1>3, <1>4, <1>5 DEF RunsInv

-----------------------------------------------------------------------------
(* Every step.                                                             *)

\* No run and no driver, and the store is empty.
LEMMA RunsInvInit == RunsInit => RunsInv
<1> SUFFICES ASSUME RunsInit PROVE RunsInv
  OBVIOUS
<1>1. TasksInv
  BY TasksInvInit DEF RunsInit
<1>2. BrokerInv
  <2>1. RunsTypeOK
    BY RunsAssumption DEF RunsInit, RunsTypeOK
  <2>2. Live = {}
    BY DEF RunsInit, Live
  <2>3. LiveBounded
    BY <2>2, FS_EmptySet, RunsAssumption DEF LiveBounded
  <2>4. DriversMatchRuns /\ CloseWaitsForDrivers
    BY DEF RunsInit, DriversMatchRuns, CloseWaitsForDrivers
  <2> QED BY <2>1, <2>3, <2>4 DEF BrokerInv
<1>3. CallsServeDrivers /\ RepliesAreStored /\ RunResultIsStored
  BY DEF RunsInit, Init, CallsServeDrivers, RepliesAreStored, RunResultIsStored
<1> QED BY <1>1, <1>2, <1>3 DEF RunsInv

\* Every step keeps the parts together.
LEMMA RunsInvStep == RunsInv /\ [RunsNext]_allVars => RunsInv'
<1> SUFFICES ASSUME RunsInv, [RunsNext]_allVars PROVE RunsInv'
  OBVIOUS
<1>t. TypeOK /\ BrokerInv /\ CallsServeDrivers
  BY DEF RunsInv, TasksInv
<1>1. ASSUME NEW c \in Calls, NEW r \in Requests, NEW mirrored \in BOOLEAN, StartRun(c, r, mirrored)
      PROVE  RunsInv'
  <2>1. BrokerInv'
    BY <1>1, <1>t, StartRunMoves
  <2>2. /\ Reservable(r) /\ Reserve(r) /\ UNCHANGED vars /\ call[c] = NoCall
        /\ driver' = [driver EXCEPT ![c] = [request |-> r, mirrored |-> mirrored]]
    BY <1>1 DEF StartRun
  <2>3. /\ runs'[r.task].result = NoReply
        /\ \A t \in Tasks \ {r.task} : runs'[t] = runs[t]
    BY <1>t, <2>2, ReserveMoves
  <2>4. \A d \in Calls : call[d] = NoCall \/ driver'[d] = driver[d]
    BY <1>t, <2>2, BrokerTyped
  <2> QED BY <2>1, <2>2, <2>3, <2>4, BrokerMoves
<1>2. ASSUME NEW r \in Requests, NEW mirrored \in BOOLEAN, StrandRun(r, mirrored)
      PROVE  RunsInv'
  <2>1. BrokerInv'
    BY <1>2, <1>t, StrandRunMoves
  <2>2. Reservable(r) /\ Reserve(r) /\ UNCHANGED vars /\ driver' = driver
    BY <1>2 DEF StrandRun
  <2>3. /\ runs'[r.task].result = NoReply
        /\ \A t \in Tasks \ {r.task} : runs'[t] = runs[t]
    BY <1>t, <2>2, ReserveMoves
  <2> QED BY <2>1, <2>2, <2>3, BrokerMoves
<1>3. ASSUME NEW c \in Calls, BeginRun(c)
      PROVE  RunsInv'
  <2>1. PICK r \in Requests : /\ r = driver[c].request
                              /\ \/ r \in CreateRequests /\ BeginCreate(c, r)
                                 \/ r \in ClarifyRequests /\ BeginClarify(c, r)
                                 \/ Unavailable(c, r)
    <3>1. driver[c] \in DriverRecords
      BY <1>3, <1>t, BrokerTyped DEF BeginRun
    <3> QED BY <1>3, <3>1 DEF BeginRun, DriverRecords, Requests, CreateRequests, ClarifyRequests
  <2>2. \E phase, reply : Step(c, phase, r, reply)
    BY <2>1 DEF BeginCreate, BeginClarify, Unavailable
  <2>3. call'[c].request = r /\ \A d \in Calls \ {c} : call'[d] = call[d]
    BY <1>t, <2>2 DEF Step, TypeOK
  <2>4. UNCHANGED runVars
    BY <1>3 DEF BeginRun
  <2>5. CallsServeDrivers'
    BY <1>t, <2>1, <2>3, <2>4 DEF CallsServeDrivers, runVars
  <2>6. Next
    BY <2>1 DEF Next, Requests
  <2> QED BY <2>4, <2>5, <2>6, ServiceMoves
<1>4. ASSUME NEW c \in Calls, ServiceStep(c)
      PROVE  RunsInv'
  <2>1. Running(c) /\ UNCHANGED runVars /\ Next
    BY <1>4 DEF ServiceStep, Commit, CommitConflict, Fail, Next
  <2>2. \E phase, reply : Step(c, phase, call[c].request, reply)
    BY <1>4 DEF ServiceStep, Commit, CommitCreate, CommitClarify, CommitConflict, Fail
  <2>3. call'[c].request = call[c].request /\ call[c] # NoCall /\ \A d \in Calls \ {c} : call'[d] = call[d]
    BY <1>t, <2>1, <2>2 DEF Step, TypeOK, Running
  <2>4. CallsServeDrivers'
    BY <1>t, <2>1, <2>3 DEF CallsServeDrivers, runVars
  <2> QED BY <2>1, <2>4, ServiceMoves
<1>5. ASSUME NEW c \in Calls, DirectBegin(c) \/ DirectReturn(c)
      PROVE  RunsInv'
  <2>1. driver[c] = NoDriver /\ UNCHANGED runVars /\ Next
    BY <1>5 DEF DirectBegin, DirectReturn, Next
  <2>2. \A d \in Calls \ {c} : call'[d] = call[d]
    BY <1>5, <1>t DEF DirectBegin, DirectReturn, BeginCreate, BeginClarify, Return, Step, TypeOK
  <2>3. CallsServeDrivers'
    BY <1>t, <2>1, <2>2 DEF CallsServeDrivers, runVars
  <2> QED BY <2>1, <2>3, ServiceMoves
<1>6. ASSUME NEW c \in Calls, FinishRun(c)
      PROVE  RunsInv'
  <2>1. PICK t : t = driver[c].request.task
    OBVIOUS
  <2>2. /\ BrokerInv' /\ t \in Tasks
        /\ \A u \in Tasks \ {t} : runs'[u] = runs[u]
        /\ call[c] # NoCall /\ call[c].request = driver[c].request
        /\ runs'[t].result \in {NoReply, call[c].reply}
    BY <1>6, <1>t, <2>1, FinishRunMoves
  <2>3. /\ call' = [call EXCEPT ![c] = NoCall] /\ UNCHANGED storeVars /\ ~Running(c)
        /\ driver' = [driver EXCEPT ![c] = NoDriver]
    BY <1>6 DEF FinishRun, ServiceEnded
  <2>4. Next
    BY <2>2, <2>3 DEF Next, Return
  <2>5. TasksInv'
    BY <2>4, TasksInvStep DEF RunsInv
  <2>6. RepliesAreStored'
    BY <2>4, ServiceReplies DEF RunsInv
  <2>7. CallsServeDrivers'
    BY <1>t, <2>3, BrokerTyped DEF CallsServeDrivers, TypeOK
  <2>8. RunResultIsStored'
    <3>1. ReplyStored(t, call[c].reply) /\ ReplyStored(t, NoReply)
      BY <2>1, <2>2 DEF RunsInv, RepliesAreStored, ReplyStored
    <3>2. ASSUME NEW u \in Tasks, runs'[u] # NoRun, NEW told, told = runs'[u].result
          PROVE  ReplyStored(u, told)
      <4>1. CASE u = t
        BY <2>2, <3>1, <3>2, <4>1
      <4>2. CASE u # t
        BY <2>2, <3>2, <4>2, ResultsByRun DEF RunsInv
      <4> QED BY <4>1, <4>2
    <3> QED BY <2>3, <3>2 DEF RunResultIsStored, ReplyStored, storeVars
  <2> QED BY <2>2, <2>5, <2>6, <2>7, <2>8 DEF RunsInv
<1>7. ASSUME \/ \E t \in Tasks : PruneRun(t)
             \/ \E c \in Calls : Progress(c)
             \/ DrainAudit \/ Close \/ Closed
      PROVE  RunsInv'
  <2>1. BrokerInv'
    BY <1>7, <1>t, AsideMoves
  <2>2. UNCHANGED <<vars, driver>>
    BY <1>7 DEF PruneRun, Progress, DrainAudit, Close, Closed
  <2>3. \A t \in Tasks : runs'[t] \in {NoRun, runs[t]}
    BY <1>7, <1>t, BrokerTyped DEF PruneRun, Progress, DrainAudit, Close, Closed
  <2> QED BY <2>1, <2>2, <2>3, BrokerMoves
<1>8. CASE RestartProcess
  BY <1>8, RestartMoves
<1>9. CASE UNCHANGED allVars
  <2>1. UNCHANGED vars /\ UNCHANGED runVars /\ CallsServeDrivers'
    BY <1>9, <1>t DEF allVars, vars, runVars, CallsServeDrivers
  <2> QED BY <2>1, ServiceMoves
<1>10. Mirrored \subseteq BOOLEAN
  BY RunsAssumption
<1> QED
  <2>1. CASE \E r \in Requests, mirrored \in Mirrored :
               (\E c \in Calls : StartRun(c, r, mirrored)) \/ StrandRun(r, mirrored)
    BY <1>1, <1>2, <1>10, <2>1
  <2>2. CASE \E c \in Calls : BeginRun(c) \/ ServiceStep(c) \/ FinishRun(c) \/ DirectBegin(c) \/ DirectReturn(c)
    BY <1>3, <1>4, <1>5, <1>6, <2>2
  <2>3. CASE \/ \E t \in Tasks : PruneRun(t)
             \/ \E c \in Calls : Progress(c)
             \/ DrainAudit \/ Close \/ Closed
    BY <1>7, <2>3
  <2> QED BY <1>8, <1>9, <2>1, <2>2, <2>3 DEF RunsNext

\* The parts hold together in every reachable state.
THEOREM RunsInvariant == RunsSpec => []RunsInv
BY RunsInvInit, RunsInvStep, PTL DEF RunsSpec

-----------------------------------------------------------------------------
(* The properties.                                                         *)

\* A driver only ever reaches the run that started it (progress.py: publish,
\* complete and fail know the run by its task alone).
THEOREM DriversHaveTheirRuns == RunsSpec => []DriversMatchRuns
<1>1. RunsInv => DriversMatchRuns
  BY DEF RunsInv, BrokerInv
<1> QED BY <1>1, RunsInvariant, PTL

\* The result a terminal run shows is one the store holds.
THEOREM ResultsOfRunsAreStored == RunsSpec => []RunResultIsStored
<1>1. RunsInv => RunResultIsStored
  BY DEF RunsInv
<1> QED BY <1>1, RunsInvariant, PTL

\* Every driver has a run of its own under way, so there are as few.
THEOREM DriversStayBounded == RunsSpec => []DriversBounded
<1>1. ASSUME BrokerInv PROVE DriversBounded
  <2> DEFINE drivers == {c \in Calls : driver[c] # NoDriver}
             f == [c \in drivers |-> driver[c].request.task]
  <2>1. ASSUME NEW c \in drivers
        PROVE  /\ f[c] \in Live
               /\ \A d \in drivers : f[d] = f[c] => d = c
    <3>1. driver[c] \in DriverRecords
      BY <1>1, <2>1, BrokerTyped
    <3>2. f[c] \in Tasks
      BY <2>1, <3>1 DEF DriverRecords, Requests, CreateRequests, ClarifyRequests
    <3>3. runs[f[c]] # NoRun /\ ~runs[f[c]].terminal
      BY <1>1, <2>1 DEF BrokerInv, DriversMatchRuns
    <3>4. \A d \in drivers \ {c} : f[d] # f[c]
      BY <1>1, <2>1 DEF BrokerInv, DriversMatchRuns
    <3> QED BY <3>2, <3>3, <3>4 DEF Live
  <2>2. f \in Injection(drivers, Live)
    BY <2>1 DEF Injection, IsInjective
  <2>3. Cardinality(drivers) <= Cardinality(Live) /\ IsFiniteSet(drivers)
    <3> HIDE DEF drivers, f
    <3> QED BY <1>1, <2>2, FS_Injection DEF BrokerInv, LiveBounded
  <2>4. /\ Cardinality(drivers) \in Nat /\ Cardinality(Live) \in Nat /\ MaxConcurrent \in Nat
        /\ Cardinality(Live) <= MaxConcurrent
    BY <1>1, <2>3, FS_CardinalityType, BrokerTyped DEF BrokerInv, LiveBounded
  <2> QED BY <2>3, <2>4 DEF DriversBounded
<1>2. RunsInv => DriversBounded
  BY <1>1 DEF RunsInv
<1> QED BY <1>2, RunsInvariant, PTL

\* Once the broker's close has returned there is no driver left.
THEOREM CloseLeavesNoDriver == RunsSpec => []CloseWaitsForDrivers
<1>1. RunsInv => CloseWaitsForDrivers
  BY DEF RunsInv, BrokerInv
<1> QED BY <1>1, RunsInvariant, PTL

\* A terminal run stays as it is until it is forgotten or a later context of
\* its task takes its place.
THEOREM TerminalRunsAreFinal == RunsSpec => TerminalRunIsFinal
<1>1. ASSUME RunsInv, [RunsNext]_allVars, NEW t \in Tasks,
             runs[t] # NoRun, runs[t].terminal, runs'[t] # runs[t]
      PROVE  runs'[t] = NoRun \/ runs'[t].context > runs[t].context
  <2>1. BrokerInv /\ TypeOK /\ CallsServeDrivers
    BY <1>1 DEF RunsInv, TasksInv
  <2>2. ASSUME NEW r \in Requests, Reservable(r), Reserve(r)
        PROVE  runs'[t].context > runs[t].context
    <3>1. t = r.task
      BY <1>1, <2>1, <2>2, ReserveMoves
    <3> QED BY <1>1, <2>1, <2>2, <3>1, ReserveMoves
  <2>3. ASSUME NEW c \in Calls, FinishRun(c) PROVE FALSE
    BY <1>1, <2>1, <2>3, FinishRunMoves
  <2>4. ASSUME NEW u \in Tasks, PruneRun(u) PROVE runs'[t] = NoRun
    BY <1>1, <2>1, <2>4, BrokerTyped DEF PruneRun
  <2>5. CASE RestartProcess
    BY <2>5 DEF RestartProcess
  <2>6. CASE UNCHANGED runs
    BY <1>1, <2>6
  <2>7. \/ \E r \in Requests : Reservable(r) /\ Reserve(r)
        \/ \E c \in Calls : FinishRun(c)
        \/ \E u \in Tasks : PruneRun(u)
        \/ RestartProcess
        \/ UNCHANGED runs
    <3>1. CASE \E r \in Requests, mirrored \in Mirrored :
                 (\E c \in Calls : StartRun(c, r, mirrored)) \/ StrandRun(r, mirrored)
      BY <3>1 DEF StartRun, StrandRun
    <3>2. CASE \E c \in Calls : BeginRun(c) \/ Progress(c) \/ ServiceStep(c) \/ DirectBegin(c) \/ DirectReturn(c)
      BY <3>2 DEF BeginRun, Progress, ServiceStep, DirectBegin, DirectReturn, runVars
    <3>3. CASE DrainAudit \/ Close \/ Closed \/ UNCHANGED allVars
      BY <3>3 DEF DrainAudit, Close, Closed, allVars, runVars
    <3> QED BY <1>1, <3>1, <3>2, <3>3 DEF RunsNext
  <2> QED BY <2>2, <2>3, <2>4, <2>5, <2>6, <2>7
<1>2. RunsInv /\ [RunsNext]_allVars =>
        [\A t \in Tasks : (runs[t] # NoRun /\ runs[t].terminal /\ runs'[t] # runs[t])
           => runs'[t] = NoRun \/ runs'[t].context > runs[t].context]_allVars
  BY <1>1
<1> QED BY <1>2, RunsInvariant, PTL DEF RunsSpec, TerminalRunIsFinal

-----------------------------------------------------------------------------
(* Event streams.  What a reader got and what waits for it is one row of   *)
(* numbers without holes; for a subscriber it ends with the last event of  *)
(* its run, or nothing was left after the event it named.                  *)

RunLogs == [events : Nat \ {0}, terminal : BOOLEAN]

ReaderStreams ==
    [state : {"OFF", "OPENING", "ON", "ENDED"}, run : Nat \cup {NoneKnown}, after : Nat,
     queue : Seq(Nat), got : Seq(Nat)]

StreamsTypeOK ==
    /\ log \in Seq(RunLogs)
    /\ known \in (1 .. Len(log)) \cup {NoneKnown}
    /\ listeners \subseteq Readers
    /\ stream \in [Readers -> ReaderStreams]

InOrder(s) == \A i \in 1 .. Len(s) - 1 : s[i + 1] = s[i] + 1

Seen(c) == stream[c].got \o stream[c].queue

\* A row of events that a reader was given, who named the event after, goes
\* as far as the last event of the run.
Reaches(s, after, last) == IF s = <<>> THEN after >= last ELSE s[Len(s)] = last

StreamOK(c) ==
    /\ Len(stream[c].queue) <= QueueSize
    /\ c \in Connected => stream[c].run \in 1 .. Len(log) /\ InOrder(Seen(c))
    /\ c \in listeners =>
         /\ stream[c].state = "ON"
         /\ Reaches(Seen(c), stream[c].after, log[stream[c].run].events)

StreamsInv == StreamsTypeOK /\ \A c \in Readers : StreamOK(c)

\* Rows are put together in either way.
LEMMA RowsJoin ==
    ASSUME NEW s \in Seq(Nat), NEW t \in Seq(Nat), NEW u \in Seq(Nat)
    PROVE  (s \o t) \o u = s \o (t \o u)
BY ConcatAssociative

\* The next events after the last one continue a row.
LEMMA RowGoesOn ==
    ASSUME NEW s \in Seq(Nat), InOrder(s), NEW last \in Nat,
           s # <<>> => s[Len(s)] = last,
           NEW t \in Seq(Nat), \A i \in 1 .. Len(t) : t[i] = last + i
    PROVE  /\ s \o t \in Seq(Nat)
           /\ InOrder(s \o t)
           /\ t # <<>> => s \o t # <<>> /\ (s \o t)[Len(s \o t)] = last + Len(t)
<1> DEFINE n == Len(t)
<1>1. n \in Nat /\ \A i \in 1 .. n : t[i] = last + i
  BY LenProperties
<1>2. /\ s \o t \in Seq(Nat)
      /\ Len(s) \in Nat
      /\ Len(s \o t) = Len(s) + n
      /\ \A i \in 1 .. Len(s) + n : (s \o t)[i] = IF i <= Len(s) THEN s[i] ELSE t[i - Len(s)]
  BY <1>1, ConcatProperties, LenProperties
<1>3. ASSUME NEW i \in 1 .. Len(s \o t) - 1
      PROVE  (s \o t)[i + 1] = (s \o t)[i] + 1
  <2>1. CASE i < Len(s)
    <3>1. (s \o t)[i] = s[i] /\ (s \o t)[i + 1] = s[i + 1] /\ i \in 1 .. Len(s) - 1
      BY <1>2, <2>1
    <3> QED BY <3>1 DEF InOrder
  <2>2. CASE i = Len(s)
    <3>1. (s \o t)[i] = last
      BY <1>2, <2>2, EmptySeq
    <3>2. (s \o t)[i + 1] = t[1] /\ 1 \in 1 .. n
      BY <1>2, <2>2
    <3> QED BY <1>1, <3>1, <3>2
  <2>3. CASE i > Len(s)
    <3>1. /\ i \in 1 .. Len(s) + n /\ i + 1 \in 1 .. Len(s) + n
          /\ i - Len(s) \in 1 .. n /\ i + 1 - Len(s) \in 1 .. n
          /\ ~(i <= Len(s)) /\ ~(i + 1 <= Len(s))
      BY <1>2, <2>3
    <3>2. (s \o t)[i] = t[i - Len(s)]
      BY <1>2, <3>1
    <3>3. (s \o t)[i + 1] = t[i + 1 - Len(s)]
      BY <1>2, <3>1
    <3>4. t[i - Len(s)] = last + (i - Len(s)) /\ t[i + 1 - Len(s)] = last + (i + 1 - Len(s))
      BY <1>1, <3>1
    <3> QED BY <1>2, <3>1, <3>2, <3>3, <3>4
  <2> QED BY <1>2, <2>1, <2>2, <2>3
<1>4. InOrder(s \o t)
  BY <1>3 DEF InOrder
<1>5. ASSUME t # <<>>
      PROVE  s \o t # <<>> /\ (s \o t)[Len(s \o t)] = last + n
  <2>1. n > 0
    BY <1>1, <1>5, EmptySeq
  <2>2. s \o t # <<>>
    BY <1>1, <1>2, <2>1, EmptySeq
  <2>3. (s \o t)[Len(s) + n] = t[n] /\ n \in 1 .. n
    BY <1>1, <1>2, <2>1
  <2> QED BY <1>1, <1>2, <2>2, <2>3
<1> QED BY <1>2, <1>4, <1>5

\* Delivering the first event of a queue moves it, and the row stays.
LEMMA RowIsDelivered ==
    ASSUME NEW got \in Seq(Nat), NEW queue \in Seq(Nat), queue # <<>>
    PROVE  /\ Head(queue) \in Nat
           /\ Append(got, Head(queue)) \in Seq(Nat)
           /\ Tail(queue) \in Seq(Nat) /\ Len(Tail(queue)) = Len(queue) - 1
           /\ Append(got, Head(queue)) \o Tail(queue) = got \o queue
<1> DEFINE longer == Append(got, Head(queue))
<1>1. /\ Head(queue) \in Nat
      /\ Tail(queue) \in Seq(Nat) /\ Len(Tail(queue)) = Len(queue) - 1
      /\ \A i \in 1 .. Len(Tail(queue)) : Tail(queue)[i] = queue[i + 1]
      /\ Head(queue) = queue[1]
      /\ Len(got) \in Nat /\ Len(queue) \in Nat /\ Len(queue) > 0
  BY HeadTailProperties, LenProperties, EmptySeq
<1>2. /\ longer \in Seq(Nat) /\ Len(longer) = Len(got) + 1
      /\ \A i \in 1 .. Len(got) : longer[i] = got[i]
      /\ longer[Len(got) + 1] = queue[1]
  BY <1>1, AppendProperties
<1> HIDE DEF longer
<1>3. /\ longer \o Tail(queue) \in Seq(Nat)
      /\ Len(longer \o Tail(queue)) = Len(got) + Len(queue)
      /\ \A i \in 1 .. Len(got) + Len(queue) : (longer \o Tail(queue))[i] =
           IF i <= Len(got) + 1 THEN longer[i] ELSE Tail(queue)[i - (Len(got) + 1)]
  <2>1. /\ longer \o Tail(queue) \in Seq(Nat)
        /\ Len(longer \o Tail(queue)) = Len(longer) + Len(Tail(queue))
        /\ \A i \in 1 .. Len(longer) + Len(Tail(queue)) : (longer \o Tail(queue))[i] =
             IF i <= Len(longer) THEN longer[i] ELSE Tail(queue)[i - Len(longer)]
    BY <1>1, <1>2, ConcatProperties
  <2>2. Len(longer) + Len(Tail(queue)) = Len(got) + Len(queue)
    BY <1>1, <1>2
  <2> QED BY <1>2, <2>1, <2>2
<1>4. /\ got \o queue \in Seq(Nat)
      /\ Len(got \o queue) = Len(got) + Len(queue)
      /\ \A i \in 1 .. Len(got) + Len(queue) : (got \o queue)[i] =
           IF i <= Len(got) THEN got[i] ELSE queue[i - Len(got)]
  BY ConcatProperties
<1>5. ASSUME NEW i \in 1 .. Len(got) + Len(queue)
      PROVE  (longer \o Tail(queue))[i] = (got \o queue)[i]
  <2>1. CASE i <= Len(got) + 1
    BY <1>1, <1>2, <1>3, <1>4, <2>1
  <2>2. CASE i > Len(got) + 1
    <3>1. i - (Len(got) + 1) \in 1 .. Len(Tail(queue))
      BY <1>1, <2>2
    <3>2. Tail(queue)[i - (Len(got) + 1)] = queue[i - Len(got)]
      BY <1>1, <3>1
    <3> QED BY <1>1, <1>3, <1>4, <2>2, <3>2
  <2>3. i <= Len(got) + 1 \/ i > Len(got) + 1
    BY <1>1
  <2> QED BY <2>1, <2>2, <2>3
<1>6. longer \o Tail(queue) = got \o queue
  BY <1>3, <1>4, <1>5, SeqEqual
<1> QED BY <1>1, <1>2, <1>6 DEF longer

\* What is replayed fits into a queue, and goes to the run's last event.
LEMMA ReplayIsARow ==
    ASSUME StreamsInv, NEW k \in 1 .. Len(log), NEW after \in Nat
    PROVE  /\ Replayed(k, after) \in Seq(Nat)
           /\ Len(Replayed(k, after)) <= QueueSize
           /\ InOrder(Replayed(k, after))
           /\ Reaches(Replayed(k, after), after, log[k].events)
<1> DEFINE last == log[k].events
           first == IF after >= Oldest(k) THEN after + 1 ELSE Oldest(k)
           row == [i \in 1 .. last - first + 1 |-> first + i - 1]
<1>1. last \in Nat /\ last > 0
  <2>1. log[k] \in RunLogs
    BY ElementOfSeq DEF StreamsInv, StreamsTypeOK
  <2> QED BY <2>1 DEF RunLogs
<1>2. HistorySize \in Nat /\ HistorySize > 0 /\ QueueSize \in Nat /\ HistorySize <= QueueSize
  BY StreamsAssumption
<1>3. Oldest(k) \in 1 .. last /\ last - Oldest(k) + 1 <= HistorySize
  BY <1>1, <1>2 DEF Oldest
<1>4. first \in Nat /\ first > 0 /\ first >= Oldest(k)
  BY <1>3
<1>5. Replayed(k, after) = IF first > last THEN <<>> ELSE row
  BY DEF Replayed
<1> HIDE DEF last
<1>6. CASE first > last
  <2>1. after >= last
    BY <1>1, <1>3, <1>6
  <2>2. Len(<<>>) = 0 /\ <<>> \in Seq(Nat)
    OBVIOUS
  <2>3. InOrder(<<>>)
    BY <2>2 DEF InOrder
  <2> QED BY <1>2, <1>5, <1>6, <2>1, <2>2, <2>3 DEF Reaches, last
<1>7. CASE ~(first > last)
  <2> HIDE DEF first
  <2>1. last - first + 1 \in Nat /\ last - first + 1 > 0
    BY <1>1, <1>4, <1>7
  <2>2. /\ row \in Seq(Nat) /\ Len(row) = last - first + 1
        /\ \A i \in 1 .. last - first + 1 : row[i] = first + i - 1
    BY <1>1, <1>4, <2>1
  <2> HIDE DEF row
  <2>3. InOrder(row)
    BY <1>1, <1>4, <2>1, <2>2 DEF InOrder
  <2>4. row # <<>> /\ row[Len(row)] = last
    BY <1>1, <1>4, <2>1, <2>2, EmptySeq
  <2>5. Len(row) <= QueueSize
    BY <1>1, <1>2, <1>3, <1>4, <2>2
  <2> QED BY <1>5, <1>7, <2>2, <2>3, <2>4, <2>5 DEF Reaches, last
<1> QED BY <1>6, <1>7

\* A reader whose stream and run are as before is still well.
LEMMA OtherStreamStays ==
    ASSUME StreamsInv, StreamsTypeOK', NEW u \in Readers,
           stream'[u] = stream[u],
           u \in listeners' => u \in listeners,
           Len(log') >= Len(log),
           u \in listeners => log'[stream[u].run].events = log[stream[u].run].events
    PROVE  StreamOK(u)'
<1>1. StreamOK(u) /\ Len(log) \in Nat /\ Len(log') \in Nat
  BY DEF StreamsInv, StreamsTypeOK
<1>2. Seen(u)' = Seen(u)
  BY DEF Seen
<1>3. u \in Connected' <=> u \in Connected
  BY DEF Connected
<1> QED BY <1>1, <1>2, <1>3 DEF StreamOK

\* The stream of one reader becomes another one, and the runs stay.
LEMMA ReaderMoves ==
    ASSUME StreamsInv, NEW c \in Readers, NEW held \in ReaderStreams,
           Becomes(c, held), UNCHANGED <<known, log>>,
           listeners' = listeners \/ listeners' = listeners \ {c} \/ listeners' = listeners \cup {c},
           Len(held.queue) <= QueueSize,
           held.state \in {"ON", "ENDED"} =>
             held.run \in 1 .. Len(log) /\ InOrder(held.got \o held.queue),
           c \in listeners' =>
             /\ held.state = "ON"
             /\ Reaches(held.got \o held.queue, held.after, log[held.run].events)
    PROVE  StreamsInv'
<1>1. /\ stream \in [Readers -> ReaderStreams] /\ listeners \subseteq Readers
      /\ stream' = [stream EXCEPT ![c] = held]
      /\ Len(log) \in Nat
  BY DEF StreamsInv, StreamsTypeOK, Becomes
<1>2. StreamsTypeOK'
  BY <1>1 DEF StreamsInv, StreamsTypeOK
<1>3. StreamOK(c)'
  <2>1. stream'[c] = held
    BY <1>1
  <2>2. Seen(c)' = held.got \o held.queue
    BY <2>1 DEF Seen
  <2>3. c \in Connected' <=> held.state \in {"ON", "ENDED"}
    BY <2>1 DEF Connected
  <2> QED BY <2>1, <2>2, <2>3 DEF StreamOK
<1>4. ASSUME NEW u \in Readers, u # c PROVE StreamOK(u)'
  BY <1>1, <1>2, <1>4, OtherStreamStays
<1> QED BY <1>2, <1>3, <1>4 DEF StreamsInv

\* Nobody reads, and there is no run.
LEMMA StreamsInvInit == StreamsInit => StreamsInv
<1> SUFFICES ASSUME StreamsInit PROVE StreamsInv
  OBVIOUS
<1>1. <<>> \in Seq(Nat) /\ <<>> \in Seq(RunLogs) /\ Len(<<>>) = 0
  OBVIOUS
<1>2. NoStream \in ReaderStreams
  BY <1>1 DEF NoStream, ReaderStreams
<1>3. StreamsTypeOK
  BY <1>1, <1>2 DEF StreamsInit, StreamsTypeOK
<1>4. ASSUME NEW c \in Readers PROVE StreamOK(c)
  <2>1. stream[c].queue = <<>> /\ stream[c].state = "OFF" /\ c \notin listeners
    BY DEF StreamsInit, NoStream
  <2> QED BY <1>1, <2>1, StreamsAssumption DEF StreamOK, Connected
<1> QED BY <1>3, <1>4 DEF StreamsInv

\* What a run publishes goes on where its subscribers are; one that is behind
\* gets as much as there is room for and is no subscriber any more.
LEMMA PublishedInOrder ==
    ASSUME StreamsInv, RunAlive, NEW count \in 1 .. 2, NEW ends \in BOOLEAN, Publishes(count, ends)
    PROVE  StreamsInv'
<1> DEFINE last == log[known].events
           reached(c) == c \in listeners /\ stream[c].run = known
<1>1. /\ known \in 1 .. Len(log) /\ log \in Seq(RunLogs) /\ Len(log) \in Nat
      /\ listeners \subseteq Readers
      /\ stream \in [Readers -> ReaderStreams]
  BY DEF StreamsInv, StreamsTypeOK, RunAlive
<1>2. last \in Nat \ {0}
  <2>1. log[known] \in RunLogs
    BY <1>1, ElementOfSeq
  <2> QED BY <2>1 DEF RunLogs
<1>3. /\ log' = [log EXCEPT ![known] = [events |-> last + count, terminal |-> ends]]
      /\ listeners' = listeners \ {c \in listeners : stream[c].run = known /\ ~KeepsUp(c, count)}
      /\ stream' = [c \in Readers |-> 
             IF reached(c)
             THEN [stream[c] EXCEPT !.queue = @ \o [i \in 1 .. Least(count, Room(c)) |-> last + i]]
             ELSE stream[c]]
      /\ known' = known
  BY DEF Publishes
<1>4. /\ log' \in Seq(RunLogs)
      /\ Len(log') = Len(log)
      /\ \A k \in 1 .. Len(log) : log'[k] = IF k = known THEN [events |-> last + count, terminal |-> ends]
                                                         ELSE log[k]
  <2>1. [events |-> last + count, terminal |-> ends] \in RunLogs
    BY <1>2 DEF RunLogs
  <2> QED BY <1>1, <1>3, <2>1, ExceptSeq
<1> HIDE DEF last
<1>5. ASSUME NEW c \in Readers, reached(c)
      PROVE  /\ stream'[c] \in ReaderStreams
             /\ stream'[c].state = "ON" /\ stream'[c].run = known
             /\ Len(stream'[c].queue) <= QueueSize
             /\ InOrder(Seen(c)')
             /\ c \in listeners' => Reaches(Seen(c)', stream'[c].after, last + count)
  <2> DEFINE n == Least(count, Room(c))
             got == stream[c].got
             queue == stream[c].queue
             row == [i \in 1 .. n |-> last + i]
  <2>1. /\ stream[c] \in ReaderStreams
        /\ got \in Seq(Nat) /\ queue \in Seq(Nat) /\ Len(queue) \in Nat
        /\ stream[c].after \in Nat
    BY <1>1, LenProperties DEF ReaderStreams
  <2>2. /\ Len(queue) <= QueueSize
        /\ stream[c].state = "ON" /\ stream[c].run = known
        /\ InOrder(Seen(c))
        /\ Reaches(Seen(c), stream[c].after, last)
    BY <1>5 DEF StreamsInv, StreamOK, Connected, last
  <2>3. /\ n \in Nat /\ n <= Room(c) /\ Room(c) = QueueSize - Len(queue)
        /\ KeepsUp(c, count) => n = count
    <3>1. Room(c) \in Nat /\ Room(c) = QueueSize - Len(queue)
      BY <2>1, <2>2, StreamsAssumption DEF Room
    <3>2. count \in Nat /\ (KeepsUp(c, count) <=> Room(c) >= count)
      BY DEF KeepsUp
    <3> QED BY <3>1, <3>2 DEF Least
  <2>4. row \in Seq(Nat) /\ Len(row) = n /\ \A i \in 1 .. n : row[i] = last + i
    BY <1>2, <2>3
  <2>5. stream'[c] = [stream[c] EXCEPT !.queue = queue \o row]
    BY <1>3, <1>5
  <2> HIDE DEF n, row
  <2>6. queue \o row \in Seq(Nat) /\ Len(queue \o row) = Len(queue) + n
    BY <2>1, <2>4, ConcatProperties
  <2>7. /\ stream'[c] \in ReaderStreams
        /\ stream'[c].state = "ON" /\ stream'[c].run = known
        /\ stream'[c].queue = queue \o row /\ stream'[c].got = got
        /\ stream'[c].after = stream[c].after
    BY <2>1, <2>2, <2>5, <2>6 DEF ReaderStreams
  <2>8. Seen(c)' = Seen(c) \o row
    <3>1. (got \o queue) \o row = got \o (queue \o row)
      BY <2>1, <2>4, RowsJoin
    <3> QED BY <2>7, <3>1 DEF Seen
  <2>9. Seen(c) \in Seq(Nat) /\ (Seen(c) # <<>> => Seen(c)[Len(Seen(c))] = last)
    BY <2>1, <2>2, ConcatProperties DEF Seen, Reaches
  <2>10. /\ InOrder(Seen(c) \o row)
         /\ n > 0 => /\ Seen(c) \o row # <<>>
                     /\ (Seen(c) \o row)[Len(Seen(c) \o row)] = last + n
    <3>1. last \in Nat /\ (n > 0 => row # <<>>)
      BY <1>2, <2>4, EmptySeq
    <3> QED BY <2>2, <2>4, <2>9, <3>1, RowGoesOn
  <2>11. c \in listeners' => n = count
    BY <1>3, <1>5, <2>3
  <2>12. c \in listeners' => Reaches(Seen(c)', stream'[c].after, last + count)
    BY <2>8, <2>10, <2>11 DEF Reaches
  <2>13. Len(stream'[c].queue) <= QueueSize
    BY <2>1, <2>3, <2>6, <2>7, StreamsAssumption
  <2> QED BY <2>7, <2>8, <2>10, <2>12, <2>13
<1>6. ASSUME NEW c \in Readers, ~reached(c) PROVE stream'[c] = stream[c]
  BY <1>3, <1>6
<1>7. StreamsTypeOK'
  <2>1. listeners' \subseteq Readers
    BY <1>1, <1>3
  <2>2. \A c \in Readers : stream'[c] \in ReaderStreams
    BY <1>1, <1>5, <1>6
  <2>3. stream' \in [Readers -> ReaderStreams]
    BY <1>3, <2>2
  <2> QED BY <1>1, <1>3, <1>4, <2>1, <2>3 DEF StreamsTypeOK
<1>8. ASSUME NEW c \in Readers PROVE StreamOK(c)'
  <2>1. CASE reached(c)
    <3>1. log'[stream'[c].run].events = last + count
      BY <1>1, <1>4, <1>5, <2>1
    <3> QED BY <1>1, <1>4, <1>5, <2>1, <3>1 DEF StreamOK
  <2>2. CASE ~reached(c)
    <3>1. c \in listeners => stream[c].run \in 1 .. Len(log) /\ stream[c].run # known
      BY <2>2 DEF StreamsInv, StreamOK, Connected
    <3>2. c \in listeners => log'[stream[c].run].events = log[stream[c].run].events
      BY <1>4, <3>1
    <3>3. Len(log') >= Len(log)
      BY <1>1, <1>4
    <3> QED BY <1>3, <1>6, <1>7, <2>2, <3>2, <3>3, OtherStreamStays
  <2> QED BY <2>1, <2>2
<1> QED BY <1>7, <1>8 DEF StreamsInv

\* A new run, or none any more, leaves the streams as they are.
LEMMA RunComesOrGoes ==
    ASSUME StreamsInv, RunReserved \/ RunPruned
    PROVE  StreamsInv'
<1>1. /\ known \in (1 .. Len(log)) \cup {NoneKnown} /\ log \in Seq(RunLogs) /\ Len(log) \in Nat
      /\ listeners \subseteq Readers
      /\ stream \in [Readers -> ReaderStreams]
  BY DEF StreamsInv, StreamsTypeOK
<1>2. CASE RunReserved
  <2> DEFINE new == [events |-> 1, terminal |-> FALSE]
  <2>1. new \in RunLogs
    BY DEF RunLogs
  <2>2. /\ log' = Append(log, new) /\ known' = Len(log) + 1 /\ UNCHANGED <<listeners, stream>>
    BY <1>2 DEF RunReserved
  <2> HIDE DEF new
  <2>3. /\ log' \in Seq(RunLogs) /\ Len(log') = Len(log) + 1
        /\ \A k \in 1 .. Len(log) : log'[k] = log[k]
    BY <1>1, <2>1, <2>2, AppendProperties
  <2>4. StreamsTypeOK'
    BY <1>1, <2>2, <2>3 DEF StreamsTypeOK
  <2>5. ASSUME NEW c \in Readers PROVE StreamOK(c)'
    <3>1. c \in listeners => stream[c].run \in 1 .. Len(log)
      BY DEF StreamsInv, StreamOK, Connected
    <3>2. Len(log') >= Len(log)
      BY <1>1, <2>3
    <3> QED BY <2>2, <2>3, <2>4, <3>1, <3>2, OtherStreamStays
  <2> QED BY <2>4, <2>5 DEF StreamsInv
<1>3. CASE RunPruned
  <2>1. known' = NoneKnown /\ UNCHANGED <<log, listeners, stream>>
    BY <1>3 DEF RunPruned
  <2>2. StreamsTypeOK'
    BY <1>1, <2>1 DEF StreamsTypeOK
  <2>3. Len(log') >= Len(log)
    BY <1>1, <2>1
  <2>4. ASSUME NEW c \in Readers PROVE StreamOK(c)'
    BY <2>1, <2>2, <2>3, OtherStreamStays
  <2> QED BY <2>2, <2>4 DEF StreamsInv
<1> QED BY <1>2, <1>3

\* A step of a reader's stream.
LEMMA ReaderKeepsInv ==
    ASSUME StreamsInv, NEW c \in Readers,
           \/ StreamAsked(c) \/ StreamBegins(c) \/ StreamBreaks(c)
           \/ StreamDelivers(c) \/ StreamEnds(c) \/ StreamLeft(c)
    PROVE  StreamsInv'
<1> DEFINE s == stream[c]
<1>1. /\ s \in ReaderStreams
      /\ s.state \in {"OFF", "OPENING", "ON", "ENDED"} /\ s.run \in Nat \cup {NoneKnown}
      /\ s.after \in Nat /\ s.queue \in Seq(Nat) /\ s.got \in Seq(Nat)
      /\ known \in (1 .. Len(log)) \cup {NoneKnown}
  BY DEF StreamsInv, StreamsTypeOK, ReaderStreams
<1>2. /\ StreamOK(c)
      /\ Len(s.queue) <= QueueSize
      /\ s.state \in {"ON", "ENDED"} => s.run \in 1 .. Len(log) /\ InOrder(s.got \o s.queue)
      /\ c \in listeners => /\ s.state = "ON"
                            /\ Reaches(s.got \o s.queue, s.after, log[s.run].events)
  BY DEF StreamsInv, StreamOK, Connected, Seen
<1>3. /\ <<>> \in Seq(Nat) /\ Len(<<>>) = 0 /\ QueueSize \in Nat
      /\ \A q \in Seq(Nat) : <<>> \o q = q
  BY StreamsAssumption, ConcatEmptySeq
<1>4. CASE StreamAsked(c)
  <2> DEFINE next == [s EXCEPT !.state = "OPENING"]
  <2>1. next \in ReaderStreams /\ next.state = "OPENING" /\ next.queue = s.queue
    BY <1>1 DEF ReaderStreams
  <2>2. Becomes(c, next) /\ UNCHANGED <<known, log, listeners>> /\ c \notin listeners
    BY <1>2, <1>4 DEF StreamAsked
  <2> HIDE DEF next
  <2> QED BY <1>2, <2>1, <2>2, ReaderMoves
<1>5. CASE StreamBegins(c)
  <2> DEFINE next == [s EXCEPT !.state = "ON", !.run = known, !.got = <<>>,
                               !.queue = Replayed(known, s.after)]
  <2>1. known \in 1 .. Len(log) /\ known \in Nat
    BY <1>1, <1>5 DEF StreamBegins
  <2>2. /\ Replayed(known, s.after) \in Seq(Nat)
        /\ Len(Replayed(known, s.after)) <= QueueSize
        /\ InOrder(Replayed(known, s.after))
        /\ Reaches(Replayed(known, s.after), s.after, log[known].events)
    BY <1>1, <2>1, ReplayIsARow
  <2>3. /\ next \in ReaderStreams /\ next.state = "ON" /\ next.run = known /\ next.after = s.after
        /\ next.queue = Replayed(known, s.after) /\ next.got = <<>>
    BY <1>1, <1>3, <2>1, <2>2 DEF ReaderStreams
  <2>4. Becomes(c, next) /\ UNCHANGED <<known, log>> /\ listeners' = listeners \cup {c}
    BY <1>5 DEF StreamBegins
  <2> HIDE DEF next
  <2>5. next.got \o next.queue = Replayed(known, s.after)
    BY <1>3, <2>2, <2>3
  <2> QED BY <2>1, <2>2, <2>3, <2>4, <2>5, ReaderMoves
<1>6. CASE StreamBreaks(c)
  <2> DEFINE next == [s EXCEPT !.state = "OFF"]
  <2>1. next \in ReaderStreams /\ next.state = "OFF" /\ next.queue = s.queue
    BY <1>1 DEF ReaderStreams
  <2>2. Becomes(c, next) /\ UNCHANGED <<known, log, listeners>> /\ c \notin listeners
    BY <1>2, <1>6 DEF StreamBreaks
  <2> HIDE DEF next
  <2> QED BY <1>2, <2>1, <2>2, ReaderMoves
<1>7. CASE StreamDelivers(c)
  <2> DEFINE next == [s EXCEPT !.queue = Tail(@), !.got = Append(@, Head(s.queue))]
  <2>1. s.state = "ON" /\ s.queue # <<>>
    BY <1>7 DEF StreamDelivers
  <2>2. /\ Append(s.got, Head(s.queue)) \in Seq(Nat)
        /\ Tail(s.queue) \in Seq(Nat) /\ Len(Tail(s.queue)) = Len(s.queue) - 1
        /\ Append(s.got, Head(s.queue)) \o Tail(s.queue) = s.got \o s.queue
    BY <1>1, <2>1, RowIsDelivered
  <2>3. /\ next \in ReaderStreams /\ next.state = "ON" /\ next.run = s.run /\ next.after = s.after
        /\ next.queue = Tail(s.queue) /\ next.got = Append(s.got, Head(s.queue))
    BY <1>1, <2>1, <2>2 DEF ReaderStreams
  <2>4. Becomes(c, next) /\ UNCHANGED <<known, log, listeners>>
    BY <1>7 DEF StreamDelivers
  <2>5. Len(Tail(s.queue)) <= QueueSize
    BY <1>1, <1>2, <1>3, <2>2, LenProperties
  <2> HIDE DEF next
  <2>6. next.got \o next.queue = s.got \o s.queue
    BY <2>2, <2>3
  <2> QED BY <1>2, <2>1, <2>3, <2>4, <2>5, <2>6, ReaderMoves
<1>8. CASE StreamEnds(c)
  <2> DEFINE next == [s EXCEPT !.state = "ENDED"]
  <2>1. s.state = "ON"
    BY <1>8 DEF StreamEnds
  <2>2. /\ next \in ReaderStreams /\ next.state = "ENDED" /\ next.run = s.run
        /\ next.queue = s.queue /\ next.got = s.got
    BY <1>1 DEF ReaderStreams
  <2>3. Becomes(c, next) /\ UNCHANGED <<known, log>> /\ listeners' = listeners \ {c}
    BY <1>8 DEF StreamEnds
  <2> HIDE DEF next
  <2> QED BY <1>2, <2>1, <2>2, <2>3, ReaderMoves
<1>9. CASE StreamLeft(c)
  <2> DEFINE named == IF s.got = <<>> THEN s.after ELSE s.got[Len(s.got)]
             next == [NoStream EXCEPT !.after = named]
  <2>1. named \in Nat
    <3>1. s.got # <<>> => Len(s.got) \in 1 .. Len(s.got)
      BY <1>1, EmptySeq
    <3>2. s.got # <<>> => s.got[Len(s.got)] \in Nat
      BY <1>1, <3>1, ElementOfSeq
    <3> QED BY <1>1, <3>2
  <2>2. Becomes(c, next) /\ UNCHANGED <<known, log>> /\ listeners' = listeners \ {c}
    BY <1>9 DEF StreamLeft
  <2> HIDE DEF named
  <2>3. next \in ReaderStreams /\ next.state = "OFF" /\ next.queue = <<>>
    BY <1>3, <2>1 DEF NoStream, ReaderStreams
  <2> HIDE DEF next
  <2> QED BY <1>3, <2>2, <2>3, ReaderMoves
<1> QED BY <1>4, <1>5, <1>6, <1>7, <1>8, <1>9

\* Every step keeps the invariant.
LEMMA StreamsInvStep == StreamsInv /\ [StreamsNext]_streamVars => StreamsInv'
<1> SUFFICES ASSUME StreamsInv, [StreamsNext]_streamVars PROVE StreamsInv'
  OBVIOUS
<1>1. CASE RunProgresses
  <2>1. RunAlive /\ Publishes(1, FALSE)
    BY <1>1, Zenon DEF RunProgresses
  <2>2. 1 \in 1 .. 2
    OBVIOUS
  <2> QED BY <2>1, <2>2, PublishedInOrder, Zenon
<1>2. CASE RunEnds
  BY <1>2, PublishedInOrder DEF RunEnds
<1>3. CASE RunReserved \/ RunPruned
  BY <1>3, RunComesOrGoes
<1>4. ASSUME NEW c \in Readers,
             \/ StreamAsked(c) \/ StreamBegins(c) \/ StreamBreaks(c)
             \/ StreamDelivers(c) \/ StreamEnds(c) \/ StreamLeft(c)
      PROVE  StreamsInv'
  BY <1>4, ReaderKeepsInv
<1>5. CASE UNCHANGED streamVars
  <2>1. UNCHANGED <<known, log, listeners, stream>>
    BY <1>5 DEF streamVars
  <2> QED BY <2>1 DEF StreamsInv, StreamsTypeOK, StreamOK, Seen, Connected
<1> QED BY <1>1, <1>2, <1>3, <1>4, <1>5 DEF StreamsNext

\* A stream ends in no other way than by StreamEnds.
LEMMA EndsByStreamEnds ==
    ASSUME StreamsInv, StreamsNext, NEW c \in Readers,
           stream[c].state = "ON", stream'[c].state = "ENDED"
    PROVE  StreamEnds(c)
<1>1. stream \in [Readers -> ReaderStreams]
  BY DEF StreamsInv, StreamsTypeOK
<1>2. ASSUME NEW count, NEW ends, Publishes(count, ends) PROVE stream'[c].state = "ON"
  <2> DEFINE q == stream[c].queue \o [i \in 1 .. Least(count, Room(c)) |-> log[known].events + i]
  <2>1. stream'[c] = stream[c] \/ stream'[c] = [stream[c] EXCEPT !.queue = q]
    BY <1>2 DEF Publishes
  <2> HIDE DEF q
  <2>2. [stream[c] EXCEPT !.queue = q].state = stream[c].state
    BY <1>1 DEF ReaderStreams
  <2> QED BY <2>1, <2>2
<1>3. ~(RunProgresses \/ RunEnds)
  BY <1>2 DEF RunProgresses, RunEnds
<1>4. ~(RunReserved \/ RunPruned)
  BY DEF RunReserved, RunPruned
<1>5. ASSUME NEW u \in Readers,
             \/ StreamAsked(u) \/ StreamBegins(u) \/ StreamBreaks(u)
             \/ StreamDelivers(u) \/ StreamEnds(u) \/ StreamLeft(u)
      PROVE  StreamEnds(c)
  <2>1. CASE u # c
    <3>1. stream'[c] = stream[c]
      BY <1>1, <1>5, <2>1 DEF StreamAsked, StreamBegins, StreamBreaks, StreamDelivers, StreamEnds,
                              StreamLeft, Becomes
    <3> QED BY <3>1
  <2>2. CASE u = c
    <3>1. ~(StreamAsked(c) \/ StreamBegins(c) \/ StreamBreaks(c))
      BY DEF StreamAsked, StreamBegins, StreamBreaks
    <3>2. ~StreamDelivers(c)
      BY <1>1 DEF StreamDelivers, Becomes, ReaderStreams
    <3>3. ~StreamLeft(c)
      BY <1>1 DEF StreamLeft, Becomes, NoStream
    <3> QED BY <1>5, <2>2, <3>1, <3>2, <3>3
  <2> QED BY <2>1, <2>2
<1> QED BY <1>3, <1>4, <1>5 DEF StreamsNext

\* What a reader sees is a row, and a subscriber's goes as far as its run.
THEOREM StreamsInvariant == StreamsSpec => []StreamsInv
BY StreamsInvInit, StreamsInvStep, PTL DEF StreamsSpec

\* For any readers, runs and sizes of histories and queues a stream has every
\* event from its first one on, in order and once (publish, events).
THEOREM StreamsHaveNoHoles == StreamsSpec => []EventsWithoutHoles
<1>1. StreamsInv => EventsWithoutHoles
  BY DEF StreamsInv, StreamOK, EventsWithoutHoles, Connected, Seen, InOrder, Reaches
<1> QED BY <1>1, StreamsInvariant, PTL

\* For any readers and runs a subscriber's stream that ends has delivered the
\* last event of its run (stream_events).
THEOREM StreamsEndWithTheLastEvent == StreamsSpec => EndsWithTheLastEvent
<1> DEFINE Last(c) ==
      LET got == stream[c].got
          last == log[stream[c].run].events
      IN  IF got = <<>> THEN stream[c].after >= last ELSE got[Len(got)] = last
<1>1. StreamsInv /\ [StreamsNext]_streamVars
        => [\A c \in listeners : stream[c].state = "ON" /\ stream'[c].state = "ENDED" => Last(c)]_streamVars
  <2> SUFFICES ASSUME StreamsInv, StreamsNext, NEW c \in listeners,
                      stream[c].state = "ON", stream'[c].state = "ENDED"
               PROVE  Last(c)
    OBVIOUS
  <2>1. c \in Readers /\ stream[c].got \in Seq(Nat)
    BY DEF StreamsInv, StreamsTypeOK, ReaderStreams
  <2>2. stream[c].queue = <<>>
    BY <2>1, EndsByStreamEnds DEF StreamEnds, Exhausted
  <2>3. Seen(c) = stream[c].got
    BY <2>1, <2>2, ConcatEmptySeq DEF Seen
  <2> QED BY <2>1, <2>3 DEF StreamsInv, StreamOK, Reaches
<1> QED BY <1>1, StreamsInvariant, PTL DEF StreamsSpec, EndsWithTheLastEvent
==============================================================================
