----------------------- MODULE MCRecommendationTasks -----------------------
(***************************************************************************)
(* Instances of RecommendationTasks for TLC.                               *)
(***************************************************************************)
EXTENDS RecommendationTasks

CONSTANTS t1, p1, p2, k1, k2, a1, a2, c1, c2
============================================================================
