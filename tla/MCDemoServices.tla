--------------------------- MODULE MCDemoServices ---------------------------
(***************************************************************************)
(* Accounts with their sessions, and the tasks of the rule pipeline that   *)
(* the demo application serves, for TLC.                                   *)
(*                                                                         *)
(* They share no state, so one of them moves in a behaviour, and the other *)
(* stays as it begins: part says which.                                    *)
(***************************************************************************)
EXTENDS IdentitySessions, BaselineTasks, TLC

CONSTANTS
    u1, s1, x1, y1, y2, f1, f2,
    t1, p1, p2, k1, k2, a1, a2, c1, c2, c3

VARIABLE part

demoVars == <<identityVars, vars, part>>

DemoInit ==
    /\ part \in {"IDENTITY", "TASKS"}
    /\ IdentityInit
    /\ Init

DemoNext ==
    /\ \/ part = "IDENTITY" /\ IdentityNext /\ UNCHANGED vars
       \/ part = "TASKS" /\ BaselineNext /\ UNCHANGED identityVars
    /\ UNCHANGED part

DemoSpec == DemoInit /\ [][DemoNext]_demoVars

\* Calls on accounts are alike, and so are the idempotency keys of actions.
DemoSymmetry == Permutations(Flows) \cup Permutations(ActionKeys)
=============================================================================
