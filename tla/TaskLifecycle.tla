--------------------------- MODULE TaskLifecycle ---------------------------
(***************************************************************************)
(* What a reader is promised about a recommendation task: it is created    *)
(* once, asks for clarification any number of times, each answer opens the *)
(* next context, and a completed task never changes again.                 *)
(***************************************************************************)
EXTENDS Integers

CONSTANTS Tasks

VARIABLES
    stage,     \* [Tasks -> {"NONE", "WAITING_CLARIFICATION", "COMPLETED"}]
    context    \* [Tasks -> Nat], the current context version

lifecycleVars == <<stage, context>>

Stages == {"WAITING_CLARIFICATION", "COMPLETED"}

Init ==
    /\ stage = [t \in Tasks |-> "NONE"]
    /\ context = [t \in Tasks |-> 0]

Enter(t, s) ==
    /\ stage' = [stage EXCEPT ![t] = s]
    /\ context' = [context EXCEPT ![t] = @ + 1]

Create(t) == stage[t] = "NONE" /\ \E s \in Stages : Enter(t, s)

Answer(t) == stage[t] = "WAITING_CLARIFICATION" /\ \E s \in Stages : Enter(t, s)

Next == \E t \in Tasks : Create(t) \/ Answer(t)

Spec == Init /\ [][Next]_lifecycleVars
============================================================================
