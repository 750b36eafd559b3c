----------------------------- MODULE MCRunParts -----------------------------
(***************************************************************************)
(* An instance of RecommendationRuns in two parts, for TLC.  In one there  *)
(* is a single task, and all that may become of its runs; in the other     *)
(* more tasks than slots are asked for, and nothing else happens.          *)
(***************************************************************************)
EXTENDS RecommendationRuns

CONSTANTS t1, t2, t3, p1, k1, a1, a2, c1, c2, c3

VARIABLE part

partVars == <<allVars, part>>

\* One task, two calls.
Alone ==
    /\ \A t \in Tasks \ {t1} : runs[t] = NoRun /\ root[t] = NoRow
    /\ call[c3] = NoCall /\ driver[c3] = NoDriver
    /\ \A c \in Calls : call[c] # NoCall => call[c].request.task = t1

\* No questions, no mirrored runs, no direct calls.
Contended ==
    /\ \A t \in Tasks : contexts[t] = {}
    /\ \A c \in Calls :
        IF driver[c] = NoDriver THEN call[c] = NoCall
        ELSE driver[c].request.kind = "CREATE" /\ ~driver[c].mirrored

PartInit == part \in {"ALONE", "CONTENDED"} /\ RunsInit

PartNext ==
    /\ RunsNext
    /\ IF part = "ALONE" THEN Alone' ELSE Contended'
    /\ UNCHANGED part

PartSpec == PartInit /\ [][PartNext]_partVars /\ RunsFairness
=============================================================================
