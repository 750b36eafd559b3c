----------------------- MODULE WorkspaceObservations -----------------------
(***************************************************************************)
(* Observations of the Agent workspaces (agent_workspace/runtime.py) and   *)
(* the dispatcher that works them off, one at a time per workspace         *)
(* (agent_workspace/dispatcher.py).  Every event of an audited workspace   *)
(* takes room in a bounded buffer; without room the publication raises in  *)
(* the middle of what publishes (agent_workspace/audit.py).                *)
(*                                                                         *)
(* One event loop makes every stretch between two awaits one action.  An   *)
(* observation is its context version.  One that repeats a key or a        *)
(* fingerprint, or meets a full queue, is answered without a change.       *)
(***************************************************************************)
EXTENDS Integers, Sequences, FiniteSets

CONSTANTS
    Workspaces,       \* workspace ids, each created once
    Audited,          \* workspaces whose events are captured
    MaxConcurrent,    \* max_concurrent_observations
    MaxPending,       \* max_pending_observations
    MaxFacts,         \* bound: agent_workspace_audit_max_facts
    CoordinateFacts,  \* facts of _coordinate
    MaxContext        \* bound: context versions of a workspace

ASSUME ObservationsAssumption ==
    /\ IsFiniteSet(Workspaces)
    /\ Audited \subseteq Workspaces
    /\ MaxConcurrent \in Nat \ {0}
    /\ MaxPending \in Nat \ {0}
    /\ MaxFacts \in Nat
    /\ CoordinateFacts \in Nat
    /\ MaxContext \in Nat \ {0}

VARIABLES
    life,        \* a workspace is not there yet, known, or forgotten
    context,     \* context_version
    processed,   \* last_processed_context_version
    queue,       \* observations of the lane; the first one is being worked off
    lane,        \* the lane's task: none, before the semaphore, or behind it
    pending,     \* the dispatcher's count of observations
    room,        \* facts the audit buffer still takes
    door         \* the broker is open, closing (it waits), woken or closed

laneVars == <<queue, lane, pending>>
vars == <<life, context, processed, laneVars, room, door>>

Init ==
    /\ life = [w \in Workspaces |-> "NONE"]
    /\ context = [w \in Workspaces |-> 1]
    /\ processed = [w \in Workspaces |-> 0]
    /\ queue = [w \in Workspaces |-> <<>>]
    /\ lane = [w \in Workspaces |-> "NONE"]
    /\ pending = 0
    /\ room = MaxFacts
    /\ door = "OPEN"

-----------------------------------------------------------------------------
(* Publications.                                                           *)

\* n publications in a row of workspace w all find room ...
Fits(w, n) == w \in Audited => n <= room

\* ... and what they leave; the first one that finds none raises.
RoomAfter(w, n) == IF w \notin Audited THEN room ELSE IF n <= room THEN room - n ELSE 0

\* OBSERVATION_ACCEPTED and STATE_CHANGED: of an observation that is accepted.
AcceptedFacts == 2

\* STATE_CHANGED and OBSERVATION_COMPLETED: of one that was processed.
CompletedFacts == 2

-----------------------------------------------------------------------------
(* The dispatcher.                                                         *)

\* Mutant: the newest observation goes first.
SubmitFirst(w, v) ==
    /\ queue' = [queue EXCEPT ![w] = <<v>> \o @]
    /\ pending' = pending + 1
    /\ lane' = [lane EXCEPT ![w] = IF @ = "NONE" THEN "WAITING" ELSE @]

\* submit: the lane of the workspace, which gets a task if it has none.
Submit(w, v) ==
    /\ queue' = [queue EXCEPT ![w] = Append(@, v)]
    /\ pending' = pending + 1
    /\ lane' = [lane EXCEPT ![w] = IF @ = "NONE" THEN "WAITING" ELSE @]

\* Mutant: the place of an observation that failed is given back twice.
GivesBackTwice(raised) == IF raised THEN 2 ELSE 1

\* The inner finally of _drain, whether the failure handler raised or not.
GivesBack(raised) == 1

\* n observations are through; the last one wakes close, which goes on later.
Through(n) ==
    /\ pending' = pending - n
    /\ door' = IF pending = n /\ door = "CLOSING" THEN "WOKEN" ELSE door

\* The observation is through and the lane goes on to the next one.
Leave(w) ==
    /\ queue' = [queue EXCEPT ![w] = Tail(@)]
    /\ lane' = [lane EXCEPT ![w] = IF Len(queue[w]) = 1 THEN "NONE" ELSE "WAITING"]
    /\ Through(GivesBack(FALSE))

\* Mutant: what is queued behind it waits for a lane that comes no more.
LosesTheTask(w) ==
    /\ queue' = [queue EXCEPT ![w] = Tail(@)]
    /\ lane' = [lane EXCEPT ![w] = "NONE"]
    /\ Through(GivesBack(TRUE))

\* The failure handler raises: the lane's task ends and the lane is dropped
\* with whatever is queued in it.
Lose(w) ==
    /\ queue' = [queue EXCEPT ![w] = <<>>]
    /\ lane' = [lane EXCEPT ![w] = "NONE"]
    /\ Through(GivesBack(TRUE))

Busy == {w \in Workspaces : lane[w] = "BUSY"}

\* Mutant: the last place of the semaphore is never given away.
SpareSlotFree(n) == n + 1 < MaxConcurrent

SlotFree(n) == n < MaxConcurrent

-----------------------------------------------------------------------------
(* Observations.                                                           *)

\* An observation is accepted: the next context version is taken, announced,
\* and queued when all the publications, the n before included, found room.
Enter(w, n) ==
    /\ context[w] < MaxContext
    /\ context' = [context EXCEPT ![w] = IF Fits(w, n) THEN @ + 1 ELSE @]
    /\ room' = RoomAfter(w, n + AcceptedFacts)
    /\ IF Fits(w, n + AcceptedFacts) THEN Submit(w, context[w] + 1) ELSE UNCHANGED laneVars

Live(w) == life[w] = "LIVE"

\* create: the workspace is known before WORKSPACE_CREATED is published and
\* SESSION_STARTED observed, and stays known when one of them raises.
Create(w) ==
    /\ door = "OPEN"
    /\ life[w] = "NONE"
    /\ life' = [life EXCEPT ![w] = "LIVE"]
    /\ \/ pending < MaxPending /\ Enter(w, 1)
       \/ pending >= MaxPending /\ room' = RoomAfter(w, 1) /\ UNCHANGED <<context, laneVars>>
    /\ UNCHANGED <<processed, door>>

\* observe.
Observe(w) ==
    /\ door = "OPEN"
    /\ Live(w)
    /\ pending < MaxPending
    /\ Enter(w, 0)
    /\ UNCHANGED <<life, processed, door>>

\* bridge_task_terminal and bridge_feedback_action, which publish n events of
\* their own and queue an internal observation.
Bridge(w, n) ==
    /\ Live(w)
    /\ pending < MaxPending
    /\ Enter(w, n)
    /\ UNCHANGED <<life, processed, door>>

\* A full queue: the observation is coordinated at once, ahead of those queued.
BridgeAtOnce(w, n) ==
    /\ Live(w)
    /\ pending >= MaxPending
    /\ context[w] < MaxContext
    /\ LET before == n + AcceptedFacts + 1 + CoordinateFacts
       IN  /\ context' = [context EXCEPT ![w] = IF Fits(w, n) THEN @ + 1 ELSE @]
           /\ processed' = [processed EXCEPT ![w] =
                              IF Fits(w, before) THEN context[w] + 1 ELSE @]
           /\ room' = RoomAfter(w, before + 1)
    /\ UNCHANGED <<life, laneVars, door>>

-----------------------------------------------------------------------------
(* _process_observation, behind the semaphore.                             *)

\* The Agents are through.  The failure handler knows nothing of a forgotten
\* workspace and does not raise for it.
Finish(w) ==
    /\ processed' = [processed EXCEPT ![w] = Head(queue[w])]
    /\ room' = RoomAfter(w, CompletedFacts)
    /\ IF Live(w) => Fits(w, CompletedFacts) THEN Leave(w) ELSE Lose(w)

\* An observation a later version has overtaken is reported.
Supersede(w) ==
    /\ Live(w)
    /\ Head(queue[w]) <= processed[w]
    /\ room' = RoomAfter(w, 1)
    /\ IF Fits(w, 1) THEN Leave(w) ELSE Lose(w)
    /\ UNCHANGED processed

\* Its first Agent starts; no Agent may be there for its type.
Start(w) ==
    /\ Live(w)
    /\ Head(queue[w]) > processed[w]
    /\ \/ Finish(w)
       \/ /\ room' = RoomAfter(w, 1)
          /\ IF Fits(w, 1)
             THEN lane' = [lane EXCEPT ![w] = "BUSY"] /\ UNCHANGED <<queue, pending, door>>
             ELSE Lose(w)
          /\ UNCHANGED processed

\* The semaphore lets the lane in.  An observation of a forgotten workspace is
\* passed over.
Begin(w) ==
    /\ lane[w] = "WAITING"
    /\ SlotFree(Cardinality(Busy))
    /\ \/ ~Live(w) /\ Leave(w) /\ UNCHANGED <<processed, room>>
       \/ Supersede(w)
       \/ Start(w)
    /\ UNCHANGED <<life, context>>

\* An event of an Agent, a directive, or a bridged recommendation event.
Publish(w) ==
    /\ w \in Audited
    /\ Live(w) \/ lane[w] = "BUSY"
    /\ room > 0
    /\ room' = room - 1
    /\ UNCHANGED <<life, context, processed, laneVars, door>>

\* The Agents and the planner were awaited and are through.
Complete(w) ==
    /\ lane[w] = "BUSY"
    /\ Finish(w)
    /\ UNCHANGED <<life, context>>

\* Anything raises on the way, and the failure handler publishes that.
Raise(w) ==
    /\ lane[w] = "BUSY"
    /\ room' = IF Live(w) THEN RoomAfter(w, 1) ELSE room
    /\ IF Live(w) => Fits(w, 1) THEN Leave(w) ELSE Lose(w)
    /\ UNCHANGED <<life, context, processed>>

-----------------------------------------------------------------------------
(* Retention, audit, close.                                                *)

\* A workspace nobody used for ten minutes is forgotten, whatever is queued.
Prune(w) ==
    /\ Live(w)
    /\ life' = [life EXCEPT ![w] = "GONE"]
    /\ UNCHANGED <<context, processed, laneVars, room, door>>

\* drain_once, started by an operator, appends a batch and gives its room back.
Drain ==
    /\ \E n \in room + 1 .. MaxFacts : room' = n
    /\ UNCHANGED <<life, context, processed, laneVars, door>>

\* close: observations are no longer taken from requests; it waits for the
\* dispatcher, which the drivers of runs go on feeding.
Close ==
    /\ door = "OPEN"
    /\ door' = IF pending = 0 THEN "CLOSED" ELSE "CLOSING"
    /\ UNCHANGED <<life, context, processed, laneVars, room>>

\* The waiter goes on, whatever was queued since it was woken.
Closed ==
    /\ door = "WOKEN"
    /\ door' = "CLOSED"
    /\ UNCHANGED <<life, context, processed, laneVars, room>>

Next ==
    \/ \E w \in Workspaces :
         \/ Create(w)
         \/ Observe(w)
         \/ \E n \in 1 .. 2 : Bridge(w, n) \/ BridgeAtOnce(w, n)
         \/ Begin(w)
         \/ Publish(w)
         \/ Complete(w)
         \/ Raise(w)
         \/ Prune(w)
    \/ Drain
    \/ Close
    \/ Closed

Spec == Init /\ [][Next]_vars

\* The semaphore wakes its waiters in order, every Agent's call ends, and the
\* event loop runs what is ready.
Fairness ==
    /\ \A w \in Workspaces :
         /\ SF_vars(Begin(w))
         /\ WF_vars(Complete(w) \/ Raise(w))
    /\ WF_vars(Closed)

FairSpec == Spec /\ Fairness

-----------------------------------------------------------------------------
(* Safety.                                                                 *)

\* Every variable has its type.
TypeOK ==
    /\ life \in [Workspaces -> {"NONE", "LIVE", "GONE"}]
    /\ context \in [Workspaces -> 1 .. MaxContext]
    /\ processed \in [Workspaces -> 0 .. MaxContext]
    /\ queue \in [Workspaces -> Seq(1 .. MaxContext)]
    /\ lane \in [Workspaces -> {"NONE", "WAITING", "BUSY"}]
    /\ pending \in 0 .. MaxPending
    /\ room \in 0 .. MaxFacts
    /\ door \in {"OPEN", "CLOSING", "WOKEN", "CLOSED"}

\* What the lanes have to work off, by its place.
Work == UNION {{w} \X (1 .. Len(queue[w])) : w \in Workspaces}

\* The dispatcher never counts fewer observations than it has to work off, and
\* a lane has a task exactly as long as there is something in it (_drain's two
\* finally clauses, submit).
PendingCoversWork ==
    /\ Cardinality(Work) <= pending
    /\ \A w \in Workspaces : lane[w] = "NONE" <=> queue[w] = <<>>

\* A lane works its observations off in the order of their versions, and none
\* of them is newer than its workspace (observe, submit, popleft).
QueueInOrder ==
    \A w \in Workspaces :
        /\ \A i, j \in 1 .. Len(queue[w]) : i < j => queue[w][i] < queue[w][j]
        /\ \A i \in 1 .. Len(queue[w]) : queue[w][i] <= context[w]

\* close goes on at a moment when no accepted observation is queued or under
\* way (wait_idle).
CloseDrainsObservations ==
    [][door # door' /\ door' \in {"WOKEN", "CLOSED"} /\ door # "WOKEN"
         => \A w \in Workspaces : queue'[w] = <<>>]_vars

-----------------------------------------------------------------------------
(* Liveness.                                                               *)

\* Every accepted observation leaves its lane, whatever becomes of the lanes of
\* other workspaces (the semaphore and the lane are given back in any case).
ObservationsEnd ==
    \A w \in Workspaces : \A v \in 1 .. MaxContext :
        (\E i \in 1 .. Len(queue[w]) : queue[w][i] = v)
            ~> ~(\E i \in 1 .. Len(queue[w]) : queue[w][i] = v)

-----------------------------------------------------------------------------
(* A statement of the documents that the code does not keep.               *)

\* close drains the accepted observations (its docstring), so it ends.
CloseEnds == door = "CLOSING" ~> door = "CLOSED"
============================================================================
