----------------------------- MODULE MCServices -----------------------------
(***************************************************************************)
(* The services of the application and what they store, for TLC: a         *)
(* recommendation task, the orchestration of its Agents, feedback,         *)
(* decisions, and the budget of background planning.                       *)
(*                                                                         *)
(* They share no state here, so one of them moves in a behaviour, and the  *)
(* others stay as they begin: part says which.                             *)
(***************************************************************************)
EXTENDS
    RecommendationTasks, Orchestration, FeedbackFacts, DecisionFacts, BackgroundPlanning, TLC

CONSTANTS
    t1, p1, p2, k1, k2, a1, a2, c1, c2,
    r1, r2,
    f1, f2, f3, h1, o1, o2,
    q1, q2, v1, v2, y1, y2, d1, d2,
    w1, w2, w3

\* Two feedbacks are about one resource, an exposure is about none.
OneResource == (f1 :> h1) @@ (f2 :> h1) @@ (f3 :> NoPlace)

\* w1 and w2 are workspaces of one session, w3 is one of another; all three
\* are on one device.
TwoSessions == (w1 :> 1) @@ (w2 :> 1) @@ (w3 :> 2)
OneDevice == [w \in PlanningWorkspaces |-> 1]

VARIABLE part

servicesVars == <<vars, orchestrationVars, feedbackVars, decisionVars, planningVars, part>>

ServicesInit ==
    /\ part \in {"TASKS", "AGENTS", "FEEDBACK", "DECISIONS", "PLANNING"}
    /\ Init
    /\ OrchestrationInit
    /\ FeedbackInit
    /\ DecisionInit
    /\ PlanningInit

\* The runs of a request are alike.
RunSymmetry == Permutations(Runs)

ServicesNext ==
    /\ \/ /\ part = "TASKS"
          /\ Next
          /\ UNCHANGED <<orchestrationVars, feedbackVars, decisionVars, planningVars>>
       \/ /\ part = "AGENTS"
          /\ OrchestrationNext
          /\ UNCHANGED <<vars, feedbackVars, decisionVars, planningVars>>
       \/ /\ part = "FEEDBACK"
          /\ FeedbackNext
          /\ UNCHANGED <<vars, orchestrationVars, decisionVars, planningVars>>
       \/ /\ part = "DECISIONS"
          /\ DecisionNext
          /\ UNCHANGED <<vars, orchestrationVars, feedbackVars, planningVars>>
       \/ /\ part = "PLANNING"
          /\ PlanningNext
          /\ UNCHANGED <<vars, orchestrationVars, feedbackVars, decisionVars>>
    /\ UNCHANGED part

ServicesSpec == ServicesInit /\ [][ServicesNext]_servicesVars
=============================================================================
