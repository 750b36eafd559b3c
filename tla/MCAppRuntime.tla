---------------------------- MODULE MCAppRuntime ----------------------------
(***************************************************************************)
(* What one process of the application keeps in memory, for TLC: the       *)
(* observations of the workspaces, the event streams of a task, and the    *)
(* connection pool.                                                        *)
(*                                                                         *)
(* The three share no state, so one of them moves in a behaviour, and the  *)
(* others stay as they begin: part says which.  None of the actions that   *)
(* have fairness is enabled where its component begins, so the fairness of *)
(* those that do not move asks for nothing.                                *)
(***************************************************************************)
EXTENDS WorkspaceObservations, RunStreams, ConnectionPool

CONSTANTS wa, wg, e1, c1, c2, c3

VARIABLE part

appVars == <<vars, streamVars, poolVars, part>>

AppInit ==
    /\ part \in {"OBSERVATIONS", "STREAMS", "POOL"}
    /\ Init
    /\ StreamsInit
    /\ PoolInit

AppNext ==
    /\ \/ part = "OBSERVATIONS" /\ Next /\ UNCHANGED <<streamVars, poolVars>>
       \/ part = "STREAMS" /\ StreamsNext /\ UNCHANGED <<vars, poolVars>>
       \/ part = "POOL" /\ PoolNext /\ UNCHANGED <<vars, streamVars>>
    /\ UNCHANGED part

AppSpec ==
    AppInit /\ [][AppNext]_appVars /\ Fairness /\ StreamsFairness /\ PoolFairness
=============================================================================
