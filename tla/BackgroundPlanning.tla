------------------------- MODULE BackgroundPlanning -------------------------
(***************************************************************************)
(* Background planning of the Agent workspaces: the coordinator that       *)
(* admits, budgets and calls a planner                                     *)
(* (agent_workspace/application/background_planning.py), called by the     *)
(* lanes of the workspaces (agent_workspace/runtime.py).                   *)
(*                                                                         *)
(* A lane works off one observation at a time, and the planner is called   *)
(* outside the coordinator's lock.  Workspaces may have a session in       *)
(* common, and sessions a device.  No lane hands in an observation twice,  *)
(* so the idempotency keys refuse nothing and are left out.                *)
(***************************************************************************)
EXTENDS Integers, Sequences, FiniteSets

CONSTANTS
    PlanningWorkspaces,
    SessionOf,       \* session_id of a workspace
    DeviceOf,        \* device_id of a workspace
    MaxPerSession,   \* max_calls_per_session
    MinInterval,     \* min_interval_seconds
    MaxPerDay,       \* max_calls_per_device_day
    DayLength,       \* ticks of the clock in a day
    MaxTime,         \* bound: the clock
    MaxVersion,      \* bound: context versions of a workspace
    NoPlan

PlanningSessions == {SessionOf[w] : w \in PlanningWorkspaces}
Devices == {DeviceOf[w] : w \in PlanningWorkspaces}

ASSUME PlanningAssumption ==
    /\ MaxPerSession \in Nat \ {0} /\ MaxPerDay \in Nat \ {0}
    /\ MinInterval \in Nat \ {0} /\ DayLength \in Nat \ {0}
    /\ MaxTime \in Nat /\ MaxVersion \in Nat
    /\ NoPlan \notin Nat

VARIABLES
    clock,      \* what the coordinator's clock shows
    observed,   \* the last version a workspace's lane has taken up
    plan,       \* the version a lane awaits the planner for
    planned,    \* _last_versions
    session,    \* _session_calls
    device,     \* _device_calls
    shown,      \* the version background_planning of a workspace is about
    requests    \* the calls the planner got

planningVars == <<clock, observed, plan, planned, session, device, shown, requests>>

Day(t) == t \div DayLength

PlanningInit ==
    /\ clock = 0
    /\ observed = [w \in PlanningWorkspaces |-> 0]
    /\ plan = [w \in PlanningWorkspaces |-> NoPlan]
    /\ planned = [s \in PlanningSessions |-> 0]
    /\ session = [s \in PlanningSessions |-> <<>>]
    /\ device = [d \in Devices |-> [day \in 0 .. Day(MaxTime) |-> 0]]
    /\ shown = [w \in PlanningWorkspaces |-> 0]
    /\ requests = <<>>

-----------------------------------------------------------------------------
(* reserve.                                                                *)

\* Mutant: the interval is counted per workspace lane, not per session.
IntervalOfLane(s) == TRUE

IntervalOver(s) ==
    session[s] # <<>> => clock >= session[s][Len(session[s])] + MinInterval

DayOpen(d) == device[d][Day(clock)] < MaxPerDay

Allowed(s, d) ==
    /\ Len(session[s]) < MaxPerSession
    /\ DayOpen(d)
    /\ IntervalOver(s)

Reserve(s, d) ==
    /\ session' = [session EXCEPT ![s] = Append(@, clock)]
    /\ device' = [device EXCEPT ![d][Day(clock)] = @ + 1]

-----------------------------------------------------------------------------
(* plan, and the lane around it.                                           *)

\* Mutant: the observations of a workspace overtake each other.
AlwaysReady(w) == TRUE

\* The lane of the workspace is through with the observation before.
Ready(w) == plan[w] = NoPlan

\* The next observation that calls for a plan.
Takes(w) ==
    /\ Ready(w)
    /\ observed[w] < MaxVersion
    /\ \E v \in observed[w] + 1 .. MaxVersion : observed' = [observed EXCEPT ![w] = v]

Shows(w, v) == shown' = [shown EXCEPT ![w] = v]

Admitted(w) ==
    /\ observed'[w] > planned[SessionOf[w]]
    /\ Allowed(SessionOf[w], DeviceOf[w])

\* SKIPPED: a version not newer than the session's last one, or no budget.
Skip(w) ==
    /\ Takes(w)
    /\ ~Admitted(w)
    /\ Shows(w, observed'[w])
    /\ UNCHANGED <<clock, plan, planned, session, device, requests>>

\* The attempt is reserved and announced, and the planner is called.
Dispatch(w) ==
    /\ Takes(w)
    /\ Admitted(w)
    /\ Reserve(SessionOf[w], DeviceOf[w])
    /\ plan' = [plan EXCEPT ![w] = observed'[w]]
    /\ requests' = Append(requests, [session |-> SessionOf[w], device |-> DeviceOf[w], at |-> clock])
    /\ UNCHANGED <<clock, planned, shown>>

\* The announcement raises: the attempt is spent and no planner was called.
AnnounceFails(w) ==
    /\ Takes(w)
    /\ Admitted(w)
    /\ Reserve(SessionOf[w], DeviceOf[w])
    /\ UNCHANGED <<clock, plan, planned, shown, requests>>

\* The planner answers, fails or times out; the fallback asks no model, and
\* what was reserved is not given back.
PlannerEnds(w) ==
    /\ plan[w] # NoPlan
    /\ planned' = [planned EXCEPT ![SessionOf[w]] = plan[w]]
    /\ Shows(w, plan[w])
    /\ plan' = [plan EXCEPT ![w] = NoPlan]
    /\ UNCHANGED <<clock, observed, session, device, requests>>

\* The call is cancelled: the session keeps its last version.
PlannerCancelled(w) ==
    /\ plan[w] # NoPlan
    /\ plan' = [plan EXCEPT ![w] = NoPlan]
    /\ UNCHANGED <<clock, observed, planned, session, device, shown, requests>>

PlanningTick ==
    /\ clock < MaxTime
    /\ clock' = clock + 1
    /\ UNCHANGED <<observed, plan, planned, session, device, shown, requests>>

PlanningNext ==
    \/ \E w \in PlanningWorkspaces :
         Skip(w) \/ Dispatch(w) \/ AnnounceFails(w) \/ PlannerEnds(w) \/ PlannerCancelled(w)
    \/ PlanningTick

PlanningSpec == PlanningInit /\ [][PlanningNext]_planningVars

-----------------------------------------------------------------------------
(* Safety.                                                                 *)

\* The calls a session has made, and those a device has made on a day.
CallsOf(s) == {i \in 1 .. Len(requests) : requests[i].session = s}
CallsOn(d, day) ==
    {i \in 1 .. Len(requests) : requests[i].device = d /\ Day(requests[i].at) = day}

\* What the planner gets keeps the policy: no session asks too often or too
\* soon again, and no device too often on one day, although workspaces share
\* sessions and devices, attempts overlap, fail and are cancelled, and the day
\* changes between them (PlanningBudgetPolicy, reserve).
PlannerCallsKeepPolicy ==
    /\ \A s \in PlanningSessions :
         /\ Cardinality(CallsOf(s)) <= MaxPerSession
         /\ \A i, j \in CallsOf(s) : i < j => requests[j].at >= requests[i].at + MinInterval
    /\ \A d \in Devices, day \in 0 .. Day(MaxTime) :
         Cardinality(CallsOn(d, day)) <= MaxPerDay

\* The outcome a workspace shows is never replaced by that of an older
\* observation, however late a planner answers: one lane waits for it, while
\* the session's last version may well go back (_run_background_planning).
OutcomeNeverOlder ==
    [][\A w \in PlanningWorkspaces : shown'[w] >= shown[w]]_planningVars
=============================================================================
