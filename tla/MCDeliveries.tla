---------------------------- MODULE MCDeliveries ----------------------------
(***************************************************************************)
(* Instances of ProfileOutbox and WorkspaceView in one run of TLC: what    *)
(* arrives at last across crashes and broken connections.  A behaviour is  *)
(* of one part, and the other rests in its initial state.  The view has    *)
(* three parts: one request at a time; two with a shorter history; and one *)
(* workspace in one generation, whose history outgrows a snapshot.  At     *)
(* most one event of the first workspace is withheld, except where two     *)
(* requests race.                                                          *)
(***************************************************************************)
EXTENDS MCProfileOutbox, WorkspaceView

CONSTANTS v1, v2, q1, q2

VARIABLE part

partVars == <<vars, viewVars, part>>

PartInit == part \in {"OUTBOX", "CALM", "RACING", "LONG"} /\ Init /\ ViewInit

Calm == request[q2] = NoRequest

ViewEvents(n) == Cardinality(Published) <= n

LastGeneration == IF part = "LONG" THEN 1 ELSE MaxGeneration

OneIsWithheld ==
    Cardinality({i \in DOMAIN history[v1] : ~history[v1][i].offered}) <= 1

\* The bound of the generations may leave the view nothing to do.
AtBound == generation = LastGeneration /\ UNCHANGED viewVars

ViewPart ==
    /\ ViewNext \/ AtBound
    /\ generation' <= LastGeneration
    /\ \/ part = "CALM" /\ Calm' /\ OneIsWithheld' /\ ViewEvents(MaxHistory - 1)'
       \/ part = "RACING" /\ ViewEvents(MaxHistory - 2)'
       \/ part = "LONG" /\ Calm' /\ OneIsWithheld' /\ history'[v2] = <<>>

PartNext ==
    /\ \/ part = "OUTBOX" /\ Next /\ UNCHANGED viewVars
       \/ ViewPart /\ UNCHANGED vars
    /\ UNCHANGED part

PartSpec == PartInit /\ [][PartNext]_partVars /\ Fairness /\ ViewFairness
=============================================================================
